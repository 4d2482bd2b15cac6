----------------------------- MODULE KsldProofs -----------------------------
(***************************************************************************)
(* Proofs about Ksld, for every set of configurations and of start faults. *)
(***************************************************************************)
EXTENDS Ksld, TLAPS

(* The inductive invariant.  Its parts lean on each other: that the crash  *)
(* counter keeps within its limit needs that no greeter runs beside the    *)
(* emergency window, that a crash is only counted for a locked screen      *)
(* needs that a leftover greeter's exit is an expected one.                *)
IInv ==
  /\ TypeOK
  /\ NoLeakBetweenLocks
  /\ EmergencyIsTheLastResort
  /\ LeftoverGreeterIsDoomed

-----------------------------------------------------------------------------
(* The values that the actions give to greeter.                            *)

(* The processes the model makes are processes.                            *)
LEMMA GreeterValues ==
  ASSUME TypeOK
  PROVE  /\ NoGreeter \in GreeterSet
         /\ NoGreeter.phase = "none"
         /\ \A b \in BOOLEAN :
              Exited(b) \in GreeterSet /\ Exited(b).phase = "exited" /\ Exited(b).regular = b
  BY DEF TypeOK, GreeterSet, NoGreeter, Exited, Phases, Modes, Signals

(* A signal ends a young greeter, reaches one that is up, and else is lost.*)
LEMMA SignalledValue ==
  ASSUME TypeOK, NEW sig \in Signals
  PROVE  /\ Signalled(sig) \in GreeterSet
         /\ greeter.phase = "young" => Signalled(sig).phase = "exited"
         /\ greeter.phase # "young" => Signalled(sig).phase = greeter.phase
         /\ greeter.phase = "up" => Signalled(sig).pending = greeter.pending \cup {sig}
  BY DEF TypeOK, Signalled, GreeterSet, NoGreeter, Exited, Phases, Modes, Signals

(* A new greeter is young, or failed to execute its program.               *)
LEMMA NewGreeterValue ==
  ASSUME TypeOK, NEW how \in {"immediate", "delayed"}, NEW grace \in Int
  PROVE  /\ NewGreeter(how, grace) \in GreeterSet
         /\ NewGreeter(how, grace).phase \in {"young", "failed"}
         /\ NewGreeter(how, grace).phase = "failed" => host = "noexec"
  BY DEF TypeOK, NewGreeter, Mode, GreeterSet, NoGreeter, Phases, Modes, Signals

(* No crash at all is within the limit, and is not the limit.              *)
LEMMA NoCrash == 0 \in 0..CrashLimit /\ 0 # CrashLimit
  BY DEF CrashLimit

-----------------------------------------------------------------------------
(* The constructor establishes the invariant.                              *)
LEMMA InitIInv == Init => IInv
  <1> SUFFICES ASSUME Init PROVE IInv
    OBVIOUS
  <1>1. NoGreeter \in GreeterSet /\ NoGreeter.phase = "none"
    BY DEF GreeterSet, NoGreeter, Phases, Modes, Signals
  <1>2. 0 \in Int
    OBVIOUS
  <1>3. TypeOK
    BY <1>1, <1>2, NoCrash, Zenon DEF Init, TypeOK
  <1>4. QED
    BY <1>1, <1>3, NoCrash
    DEF Init, IInv, NoLeakBetweenLocks, EmergencyIsTheLastResort,
        LeftoverGreeterIsDoomed, Locked, Running

(* What lock() does to the invariant, whichever handler calls it.          *)
LEMMA LockPreserves ==
  ASSUME IInv,
         NEW how \in {"immediate", "delayed"}, NEW inGrace \in BOOLEAN, NEW grace \in Int,
         Lock(how, inGrace, grace),
         initialized' \in BOOLEAN, settings' \in Configurations, lockGrace' \in Int,
         host' = host, connected' \in BOOLEAN, unlockSignal' = unlockSignal
  PROVE  IInv'
  <1> USE DEF IInv, Running, Locked
  <1>1. CASE EnsureLocked(how)
    <2>1. greeter' \in GreeterSet
      BY <1>1, SignalledValue DEF EnsureLocked, TypeOK, Signals
    <2>2. emergency => greeter'.phase = "none"
      BY <1>1, SignalledValue DEF EnsureLocked, Signals, EmergencyIsTheLastResort
    <2>3. TypeOK'
      BY <1>1, <2>1 DEF EnsureLocked, Lock, EndGraceTime, TypeOK, flags, faulty
    <2>4. QED
      BY <1>1, <2>2, <2>3
      DEF EnsureLocked, EndGraceTime, faulty, NoLeakBetweenLocks,
          EmergencyIsTheLastResort, LeftoverGreeterIsDoomed
  <1>2. CASE EstablishLock(how, inGrace, grace)
    <2>1. greeter' \in GreeterSet
      BY <1>2, NewGreeterValue DEF EstablishLock, TypeOK
    <2>2. TypeOK'
      BY <1>2, <2>1 DEF EstablishLock, Lock, SetLocked, TypeOK, flags
    <2>3. QED
      BY <1>2, <2>2, NoCrash
      DEF EstablishLock, TypeOK, NoLeakBetweenLocks, EmergencyIsTheLastResort,
          LeftoverGreeterIsDoomed
  <1>3. CASE FailToLock
    <2>1. TypeOK'
      BY <1>3, NoCrash DEF FailToLock, Lock, EndGraceTime, SetLocked, TypeOK, flags
    <2>2. QED
      BY <1>3, <2>1, NoCrash
      DEF FailToLock, EndGraceTime, NoLeakBetweenLocks, EmergencyIsTheLastResort,
          LeftoverGreeterIsDoomed
  <1>4. QED
    BY <1>1, <1>2, <1>3 DEF Lock

-----------------------------------------------------------------------------
(* Every step preserves the invariant.                                     *)

(* What doUnlock() establishes, whichever handler calls it: the greeter is *)
(* gone, or its exit is an expected one and it has been told to go.        *)
LEMMA UnlockPreserves ==
  ASSUME IInv, DoUnlock,
         UNCHANGED <<initialized, config, groupSignalled, host, connected>>,
         unlockSignal' \in BOOLEAN, graceTimeKill' \in BOOLEAN, logindExit' \in BOOLEAN,
         forceSoftware' \in BOOLEAN, greeter' \in GreeterSet,
         LeftoverGreeterIsDoomed'
  PROVE  IInv'
  <1>1. TypeOK'
    BY NoCrash DEF IInv, DoUnlock, EndGraceTime, SetLocked, TypeOK, config
  <1>2. QED
    BY <1>1, NoCrash
    DEF IInv, DoUnlock, EndGraceTime, NoLeakBetweenLocks, EmergencyIsTheLastResort, Locked

(* initialize() preserves the invariant, whether it locks at once or not.  *)
LEMMA InitializePreserves == ASSUME IInv, Initialize PROVE IInv'
  <1>1. LockGraceOf(settings) \in Int
    BY ConfigurationsAssumption DEF IInv, TypeOK, LockGraceOf, ConfigurationSet
  <1>2. CASE settings.lockOnStart
    BY <1>1, <1>2, LockPreserves DEF Initialize, world, IInv, TypeOK
  <1>3. CASE ~settings.lockOnStart
    BY <1>1, <1>3
    DEF Initialize, world, lockVars, flags, faulty, IInv, TypeOK, NoLeakBetweenLocks,
        EmergencyIsTheLastResort, LeftoverGreeterIsDoomed, Locked, Running
  <1>4. QED
    BY <1>2, <1>3

(* New settings do not touch what the invariant is about.                  *)
LEMMA ConfigurePreserves == ASSUME IInv, Configure PROVE IInv'
  <1>1. PICK c \in Configurations : settings' = c /\ lockGrace' = LockGraceOf(c)
    BY DEF Configure
  <1>2. lockGrace' \in Int
    BY <1>1, ConfigurationsAssumption DEF LockGraceOf, ConfigurationSet
  <1>3. QED
    BY <1>1, <1>2
    DEF Configure, world, lockVars, flags, faulty, IInv, TypeOK, NoLeakBetweenLocks,
        EmergencyIsTheLastResort, LeftoverGreeterIsDoomed, Locked, Running

(* The handlers that do nothing but lock.                                  *)
LEMMA RequestsPreserve ==
  ASSUME IInv,
         IdleTimeoutReached \/ ShortcutTriggered \/ DBusLock \/ LogindLock
           \/ PrepareForSleep \/ SolidSuspend
  PROVE  IInv'
  <1> USE DEF IInv, TypeOK, config, world
  <1>1. inGraceTime \in BOOLEAN /\ lockGrace \in Int /\ -1 \in Int
    OBVIOUS
  <1>2. CASE IdleTimeoutReached
    <2>1. (inGraceTime \/ lockGrace # 0) \in BOOLEAN
      OBVIOUS
    <2>2. QED
      BY <1>1, <1>2, <2>1, LockPreserves DEF IdleTimeoutReached
  <1>3. CASE ShortcutTriggered
    BY <1>1, <1>3, LockPreserves DEF ShortcutTriggered
  <1>4. CASE DBusLock \/ LogindLock \/ PrepareForSleep \/ SolidSuspend
    BY <1>1, <1>4, LockPreserves
    DEF DBusLock, LogindLock, PrepareForSleep, SolidSuspend, LockImmediately
  <1>5. QED
    BY <1>2, <1>3, <1>4

(* Neither does the arrival of logind, with or without a hint.             *)
LEMMA LogindConnectedPreserves == ASSUME IInv, LogindConnected PROVE IInv'
  <1>1. CASE hint
    BY <1>1, LockPreserves
    DEF LogindConnected, LockImmediately, IInv, TypeOK, config
  <1>2. CASE ~hint
    BY <1>2
    DEF LogindConnected, config, lockVars, flags, faulty, IInv, TypeOK,
        NoLeakBetweenLocks, EmergencyIsTheLastResort, LeftoverGreeterIsDoomed, Locked, Running
  <1>3. QED
    BY <1>1, <1>2

(* A forced unlocking: by signal, at once, or of no screen.                *)
LEMMA LogindUnlockPreserves == ASSUME IInv, LogindUnlock PROVE IInv'
  <1>1. /\ UNCHANGED <<initialized, config, graceTimeKill, groupSignalled, host, connected>>
        /\ unlockSignal' \in BOOLEAN
    BY DEF LogindUnlock
  <1>2. CASE Locked /\ Running
    <2>1. /\ logindExit' = TRUE
          /\ greeter' = Signalled("TERM")
          /\ UNCHANGED <<lockVars, faulty, hint>>
      BY <1>2 DEF LogindUnlock, Locked
    <2>2. greeter' \in GreeterSet
      BY <2>1, SignalledValue DEF IInv, Signals
    <2>3. TypeOK'
      BY <1>1, <2>1, <2>2 DEF IInv, TypeOK, lockVars, faulty, config
    <2>4. QED
      BY <1>1, <1>2, <2>1, <2>3, SignalledValue
      DEF IInv, lockVars, faulty, NoLeakBetweenLocks, EmergencyIsTheLastResort,
          LeftoverGreeterIsDoomed, Locked, Running, Signals
  <1>3. CASE Locked /\ ~Running
    <2>1. DoUnlock /\ UNCHANGED <<logindExit, greeter, forceSoftware>>
      BY <1>3 DEF LogindUnlock, Locked
    <2>2. LeftoverGreeterIsDoomed'
      BY <1>3, <2>1 DEF LeftoverGreeterIsDoomed, Running
    <2>3. QED
      BY <1>1, <2>1, <2>2, UnlockPreserves DEF IInv, TypeOK
  <1>4. CASE ~Locked
    <2>1. UNCHANGED <<logindExit, lockVars, faulty, greeter, hint>>
      BY <1>4 DEF LogindUnlock, Locked
    <2>2. TypeOK'
      BY <1>1, <2>1 DEF IInv, TypeOK, config, lockVars, faulty
    <2>3. QED
      BY <1>1, <2>1, <2>2
      DEF IInv, lockVars, faulty, NoLeakBetweenLocks, EmergencyIsTheLastResort,
          LeftoverGreeterIsDoomed, Locked, Running
  <1>5. QED
    BY <1>2, <1>3, <1>4

(* unlock() marks the exit of the greeter it leaves running.               *)
LEMMA UserActivityPreserves == ASSUME IInv, UserActivity PROVE IInv'
  <1>1. greeter' \in GreeterSet
    BY SignalledValue DEF IInv, UserActivity, Signals
  <1>2. LeftoverGreeterIsDoomed'
    <2>1. greeter'.phase # "young"
      BY SignalledValue DEF IInv, UserActivity, Signals
    <2>2. greeter'.phase = "up" => "TERM" \in greeter'.pending
      BY SignalledValue DEF IInv, UserActivity, Signals
    <2>3. QED
      BY <2>1, <2>2 DEF UserActivity, LeftoverGreeterIsDoomed
  <1>3. QED
    BY <1>1, <1>2, UnlockPreserves DEF UserActivity, IInv, TypeOK, world

(* The end of the grace time.                                              *)
LEMMA GraceTimeoutPreserves == ASSUME IInv, GraceTimeout PROVE IInv'
  <1>1. inGraceTime' = FALSE /\ graceTimer' = FALSE
    BY DEF GraceTimeout, EndGraceTime
  <1>2. /\ UNCHANGED initialized /\ UNCHANGED settings /\ UNCHANGED lockGrace
        /\ UNCHANGED lockState /\ UNCHANGED announced /\ UNCHANGED graceTimeKill
        /\ UNCHANGED logindExit /\ UNCHANGED crashes /\ UNCHANGED emergency
        /\ UNCHANGED forceSoftware /\ UNCHANGED groupSignalled /\ UNCHANGED greeter
        /\ UNCHANGED host /\ UNCHANGED connected /\ UNCHANGED hint /\ UNCHANGED unlockSignal
    BY DEF GraceTimeout, config, flags, faulty, world
  <1>3. TypeOK'
    <2>1. inGraceTime' \in BOOLEAN /\ graceTimer' \in BOOLEAN
      BY <1>1, Zenon
    <2>2. QED
      BY <1>2, <2>1 DEF IInv, TypeOK
  <1>4. NoLeakBetweenLocks'
    BY <1>1, <1>2 DEF IInv, NoLeakBetweenLocks, Locked
  <1>5. EmergencyIsTheLastResort'
    BY <1>2 DEF IInv, EmergencyIsTheLastResort, Locked, Running
  <1>6. LeftoverGreeterIsDoomed'
    BY <1>2 DEF IInv, LeftoverGreeterIsDoomed, Locked, Running
  <1>7. QED
    BY <1>3, <1>4, <1>5, <1>6 DEF IInv

(* A crash that counts is one of a locked screen's greeter, and leaves room*)
(* for one more crash: the emergency window, which alone marks the limit,  *)
(* is never shown beside a greeter.                                        *)
LEMMA CrashesCount ==
  ASSUME IInv, greeter.phase = "exited"
  PROVE  /\ crashes \in 0..(CrashLimit - 1) /\ ~emergency
         /\ ~graceTimeKill => Locked
  BY DEF IInv, TypeOK, EmergencyIsTheLastResort, LeftoverGreeterIsDoomed, Running, CrashLimit

(* The finished() handler, branch by branch.                               *)
LEMMA ProcessFinishedPreserves == ASSUME IInv, ProcessFinished PROVE IInv'
  <1> USE DEF ProcessFinished
  <1>1. NoGreeter \in GreeterSet /\ NoGreeter.phase = "none"
    BY GreeterValues DEF IInv
  <1>2. CASE GraceKillFinished
    <2>1. graceTimeKill' = FALSE /\ logindExit' = FALSE /\ greeter' = NoGreeter
      BY <1>2 DEF GraceKillFinished
    <2>2. /\ UNCHANGED initialized /\ UNCHANGED settings /\ UNCHANGED lockGrace
          /\ UNCHANGED lockState /\ UNCHANGED inGraceTime /\ UNCHANGED graceTimer
          /\ UNCHANGED announced /\ UNCHANGED crashes /\ UNCHANGED emergency
          /\ UNCHANGED forceSoftware /\ UNCHANGED groupSignalled /\ UNCHANGED host
          /\ UNCHANGED connected /\ UNCHANGED hint /\ UNCHANGED unlockSignal
      BY <1>2 DEF GraceKillFinished, config, lockVars, faulty, world
    <2>3. TypeOK'
      <3>1. graceTimeKill' \in BOOLEAN /\ logindExit' \in BOOLEAN
        BY <2>1, Zenon
      <3>2. greeter' \in GreeterSet
        BY <1>1, <2>1
      <3>3. QED
        BY <2>2, <3>1, <3>2 DEF IInv, TypeOK
    <2>4. NoLeakBetweenLocks'
      BY <2>2 DEF IInv, NoLeakBetweenLocks, Locked
    <2>5. EmergencyIsTheLastResort'
      BY <1>1, <2>1, <2>2 DEF IInv, EmergencyIsTheLastResort, Locked, Running
    <2>6. LeftoverGreeterIsDoomed'
      BY <1>1, <2>1 DEF LeftoverGreeterIsDoomed, Running
    <2>7. QED
      BY <2>3, <2>4, <2>5, <2>6 DEF IInv
  <1>3. CASE UnlockFinished
    <2>1. LeftoverGreeterIsDoomed'
      BY <1>1, <1>3 DEF UnlockFinished, LeftoverGreeterIsDoomed, Running
    <2>2. QED
      BY <1>1, <1>3, <2>1, UnlockPreserves DEF UnlockFinished, world, IInv, TypeOK
  <1>4. CASE CrashFinished
    <2>1. lockGrace \in Int
      BY DEF IInv, TypeOK
    <2>2. CASE Restarts(crashes + 1) /\ host # "nofork"
      <3>1. /\ crashes' = crashes + 1 /\ forceSoftware' = TRUE
            /\ greeter' = NewGreeter("immediate", lockGrace)
            /\ UNCHANGED <<lockVars, flags, emergency, hint>>
        BY <1>4, <2>2 DEF CrashFinished
      <3>2. greeter' \in GreeterSet
        BY <3>1, <2>1, NewGreeterValue DEF IInv
      <3>3. crashes' \in 1..(CrashLimit - 1)
        BY <2>2, <3>1, CrashesCount DEF Restarts, CrashLimit
      <3>4. crashes' \in 0..CrashLimit /\ crashes' > 0 /\ crashes' # CrashLimit
        BY <3>3 DEF CrashLimit
      <3>5. TypeOK'
        BY <3>1, <3>2, <3>4 DEF IInv, TypeOK, lockVars, flags, config, world
      <3>6. Locked' /\ ~emergency'
        BY <1>4, <3>1, CrashesCount DEF CrashFinished, lockVars, Locked
      <3>7. QED
        BY <3>1, <3>4, <3>5, <3>6
        DEF IInv, NoLeakBetweenLocks, EmergencyIsTheLastResort, LeftoverGreeterIsDoomed,
            Locked, lockVars
    <2>3. CASE Restarts(crashes + 1) /\ host = "nofork"
      <3>1. /\ DoUnlock /\ forceSoftware' = TRUE /\ greeter' = NoGreeter
            /\ UNCHANGED flags
        BY <1>4, <2>3 DEF CrashFinished
      <3>2. LeftoverGreeterIsDoomed'
        BY <1>1, <3>1 DEF LeftoverGreeterIsDoomed, Running
      <3>3. QED
        BY <1>1, <3>1, <3>2, UnlockPreserves DEF world, flags, IInv, TypeOK
    <2>4. CASE ~Restarts(crashes + 1)
      <3>1. /\ crashes' = crashes + 1 /\ emergency' = TRUE /\ greeter' = NoGreeter
            /\ UNCHANGED <<lockVars, flags, forceSoftware, hint>>
        BY <1>4, <2>4 DEF CrashFinished
      <3>2. crashes' = CrashLimit /\ crashes > 0
        BY <2>4, <3>1, CrashesCount DEF Restarts, CrashLimit
      <3>3. CrashLimit \in 0..CrashLimit /\ CrashLimit > 0
        BY DEF CrashLimit
      <3>4. TypeOK'
        BY <1>1, <3>1, <3>2, <3>3 DEF IInv, TypeOK, lockVars, flags, config, world
      <3>5. Locked
        BY <1>4, CrashesCount DEF CrashFinished
      <3>6. QED
        BY <1>1, <3>1, <3>2, <3>3, <3>4, <3>5
        DEF IInv, NoLeakBetweenLocks, EmergencyIsTheLastResort, LeftoverGreeterIsDoomed,
            Locked, Running, lockVars
    <2>5. QED
      BY <2>2, <2>3, <2>4
  <1>5. QED
    BY <1>2, <1>3, <1>4

(* A program that cannot be executed: no greeter is left.                  *)
LEMMA StartFailedPreserves == ASSUME IInv, StartFailed PROVE IInv'
  <1>1. NoGreeter \in GreeterSet /\ NoGreeter.phase = "none"
    BY GreeterValues DEF IInv
  <1>2. LeftoverGreeterIsDoomed'
    BY <1>1 DEF StartFailed, LeftoverGreeterIsDoomed, Running
  <1>3. QED
    BY <1>1, <1>2, UnlockPreserves DEF StartFailed, flags, world, IInv, TypeOK

(* A step of the greeter: it goes on, with a SIGTERM still on its way, or  *)
(* it exits.                                                               *)
LEMMA GreeterPreserves == ASSUME IInv, Greeter PROVE IInv'
  <1>1. DaemonUnchanged
    BY DEF Greeter, GreeterMasksSignals, GreeterHandlesTerm, GreeterHandlesUsr1,
           GreeterGraceEnds, GreeterAuthenticates, GreeterCrashes
  <1>2. /\ greeter' \in GreeterSet
        /\ greeter.phase \in {"young", "up"} /\ greeter'.phase # "none"
        /\ greeter'.phase # "young"
        /\ greeter'.phase = "up" =>
              \/ greeter.phase = "young"
              \/ "TERM" \in greeter.pending => "TERM" \in greeter'.pending
    <2>1. CASE GreeterMasksSignals
      BY <2>1 DEF GreeterMasksSignals, IInv, TypeOK, GreeterSet, Phases
    <2>2. CASE GreeterHandlesTerm \/ GreeterAuthenticates \/ GreeterCrashes
      BY <2>2, GreeterValues
      DEF GreeterHandlesTerm, GreeterAuthenticates, GreeterCrashes, IInv
    <2>3. CASE GreeterHandlesUsr1
      BY <2>3 DEF GreeterHandlesUsr1, IInv, TypeOK, GreeterSet, Phases, Modes, Signals
    <2>4. CASE GreeterGraceEnds
      BY <2>4 DEF GreeterGraceEnds, IInv, TypeOK, GreeterSet, Phases, Modes
    <2>5. QED
      BY <2>1, <2>2, <2>3, <2>4 DEF Greeter
  <1>3. TypeOK'
    BY <1>1, <1>2
    DEF DaemonUnchanged, IInv, TypeOK, config, lockVars, flags, faulty, world
  <1>4. LeftoverGreeterIsDoomed'
    BY <1>1, <1>2
    DEF DaemonUnchanged, IInv, lockVars, flags, LeftoverGreeterIsDoomed, Locked, Running
  <1>5. QED
    BY <1>1, <1>2, <1>3, <1>4
    DEF DaemonUnchanged, IInv, lockVars, flags, faulty, NoLeakBetweenLocks,
        EmergencyIsTheLastResort, Locked, Running

(* The environment, and a daemon that dies and starts again.               *)
LEMMA EnvironmentPreserves == ASSUME IInv, Environment PROVE IInv'
  <1>1. CASE HostChanges \/ LogindSendsUnlock \/ LogindDisconnected
    <2>1. UNCHANGED <<initialized, config, lockVars, flags, faulty, groupSignalled, greeter>>
      BY <1>1 DEF HostChanges, LogindSendsUnlock, LogindDisconnected
    <2>2. host' \in {"ok"} \cup StartFaults
      BY <1>1 DEF HostChanges, LogindSendsUnlock, LogindDisconnected, IInv, TypeOK
    <2>3. connected' \in BOOLEAN /\ hint' \in BOOLEAN /\ unlockSignal' \in BOOLEAN
      BY <1>1 DEF HostChanges, LogindSendsUnlock, LogindDisconnected, IInv, TypeOK
    <2>4. QED
      BY <2>1, <2>2, <2>3
      DEF config, lockVars, flags, faulty, IInv, TypeOK, NoLeakBetweenLocks,
          EmergencyIsTheLastResort, LeftoverGreeterIsDoomed, Locked, Running
  <1>2. CASE DaemonRestarts
    <2>1. 0 \in Int
      OBVIOUS
    <2>2. NoGreeter \in GreeterSet /\ NoGreeter.phase = "none"
      BY GreeterValues DEF IInv
    <2>3. TypeOK'
      BY <1>2, <2>1, <2>2, NoCrash, Zenon DEF DaemonRestarts, IInv, TypeOK
    <2>4. QED
      BY <1>2, <2>2, <2>3, NoCrash
      DEF DaemonRestarts, IInv, NoLeakBetweenLocks, EmergencyIsTheLastResort,
          LeftoverGreeterIsDoomed, Locked, Running
  <1>3. QED
    BY <1>1, <1>2 DEF Environment

(* Every step, and stuttering, preserves the invariant.                    *)
LEMMA NextPreserves == IInv /\ [Next]_vars => IInv'
  <1> SUFFICES ASSUME IInv, [Next]_vars PROVE IInv'
    OBVIOUS
  <1>1. CASE Daemon
    BY <1>1, InitializePreserves, ConfigurePreserves, RequestsPreserve,
       LogindConnectedPreserves, LogindUnlockPreserves, UserActivityPreserves,
       GraceTimeoutPreserves, ProcessFinishedPreserves, StartFailedPreserves DEF Daemon
  <1>2. CASE Greeter
    BY <1>2, GreeterPreserves
  <1>3. CASE Environment
    BY <1>3, EnvironmentPreserves
  <1>4. CASE UNCHANGED vars
    BY <1>4
    DEF vars, config, lockVars, flags, faulty, world, IInv, TypeOK, NoLeakBetweenLocks,
        EmergencyIsTheLastResort, LeftoverGreeterIsDoomed, Locked, Running
  <1>5. QED
    BY <1>1, <1>2, <1>3, <1>4 DEF Next

(* The invariant holds in every behavior.                                  *)
LEMMA Inductive == Spec => []IInv
  BY InitIInv, NextPreserves, PTL DEF Spec

-----------------------------------------------------------------------------
(* The variables keep their types; in particular the daemon never counts   *)
(* more crashes than the finished() handler allows.                        *)
THEOREM TypeCorrect == Spec => []TypeOK
  BY Inductive, PTL DEF IInv

(* doUnlock() and lock() leave no grace time, no crash count and no        *)
(* emergency window of one lock to the next.                               *)
THEOREM LocksAreSeparate == Spec => []NoLeakBetweenLocks
  BY Inductive, PTL DEF IInv

(* The finished() handler shows the emergency window after CrashLimit      *)
(* crashes and not before, and never beside a greeter.                     *)
THEOREM EmergencyCorrect == Spec => []EmergencyIsTheLastResort
  BY Inductive, PTL DEF IInv

(* A greeter that unlock() left running is on its way out, and its exit    *)
(* will not be taken for an unlocking or a crash.                          *)
THEOREM LeftoverCorrect == Spec => []LeftoverGreeterIsDoomed
  BY Inductive, PTL DEF IInv

-----------------------------------------------------------------------------
(* lock() takes no greeter away.                                           *)
LEMMA LockKeepsGreeter ==
  ASSUME TypeOK, NEW how \in {"immediate", "delayed"}, NEW inGrace \in BOOLEAN,
         NEW grace \in Int, Lock(how, inGrace, grace), Abandoned'
  PROVE  Abandoned
  <1> USE DEF Abandoned, Locked, Running
  <1>1. CASE EnsureLocked(how)
    BY <1>1, SignalledValue DEF EnsureLocked, faulty, Signals
  <1>2. CASE EstablishLock(how, inGrace, grace)
    BY <1>2, NewGreeterValue DEF EstablishLock
  <1>3. CASE FailToLock
    BY <1>3 DEF FailToLock
  <1>4. QED
    BY <1>1, <1>2, <1>3 DEF Lock

(* Only the branch of finished() for expected exits leaves a locked screen *)
(* without greeter and emergency window.                                   *)
LEMMA StepAbandons ==
  ASSUME IInv, [Next]_vars, Abandoned'
  PROVE  Abandoned \/ graceTimeKill
  <1> USE DEF Abandoned, Locked, Running
  <1>0. /\ TypeOK
        /\ lockGrace \in Int /\ inGraceTime \in BOOLEAN
        /\ (inGraceTime \/ lockGrace # 0) \in BOOLEAN
        /\ LockGraceOf(settings) \in Int /\ -1 \in Int
    BY ConfigurationsAssumption DEF IInv, TypeOK, LockGraceOf, ConfigurationSet
  <1>1. CASE Initialize
    BY <1>0, <1>1, LockKeepsGreeter DEF Initialize, lockVars, faulty
  <1>2. CASE Configure
    BY <1>2 DEF Configure, lockVars, faulty
  <1>3. CASE IdleTimeoutReached \/ ShortcutTriggered
    BY <1>0, <1>3, LockKeepsGreeter DEF IdleTimeoutReached, ShortcutTriggered
  <1>4. CASE DBusLock \/ LogindLock \/ PrepareForSleep \/ SolidSuspend
    BY <1>0, <1>4, LockKeepsGreeter
    DEF DBusLock, LogindLock, PrepareForSleep, SolidSuspend, LockImmediately
  <1>5. CASE LogindConnected
    BY <1>0, <1>5, LockKeepsGreeter DEF LogindConnected, LockImmediately, lockVars, faulty
  <1>6. CASE LogindUnlock
    BY <1>0, <1>6, SignalledValue DEF LogindUnlock, DoUnlock, lockVars, faulty, Signals
  <1>7. CASE UserActivity \/ StartFailed
    BY <1>7 DEF UserActivity, StartFailed, DoUnlock
  <1>8. CASE GraceTimeout
    BY <1>8 DEF GraceTimeout, faulty
  <1>9. CASE ProcessFinished
    <2>1. CASE GraceKillFinished
      BY <2>1 DEF GraceKillFinished
    <2>2. CASE UnlockFinished
      BY <2>2 DEF UnlockFinished, DoUnlock
    <2>3. CASE CrashFinished
      BY <1>0, <2>3, NewGreeterValue DEF CrashFinished, DoUnlock
    <2>4. QED
      BY <1>9, <2>1, <2>2, <2>3 DEF ProcessFinished
  <1>10. CASE Greeter
    BY <1>0, <1>10, GreeterValues
    DEF Greeter, GreeterMasksSignals, GreeterHandlesTerm, GreeterHandlesUsr1,
        GreeterGraceEnds, GreeterAuthenticates, GreeterCrashes, TypeOK, GreeterSet
  <1>11. CASE Environment
    BY <1>11
    DEF Environment, HostChanges, LogindSendsUnlock, LogindDisconnected, DaemonRestarts,
        lockVars, faulty
  <1>12. CASE UNCHANGED vars
    BY <1>12 DEF vars, lockVars, faulty
  <1>13. QED
    BY <1>1, <1>2, <1>3, <1>4, <1>5, <1>6, <1>7, <1>8, <1>9, <1>10, <1>11, <1>12
    DEF Next, Daemon

(* While the screen is locked, the greeter is lost without replacement    *)
(* only through the exit that s_graceTimeKill declared expected.           *)
THEOREM AbandonedOnlyByGraceKill == Spec => OnlyGraceKillAbandons
  <1>1. IInv /\ [Next]_vars => [Abandoned' => Abandoned \/ graceTimeKill]_vars
    BY StepAbandons
  <1>2. QED
    BY <1>1, Inductive, PTL DEF Spec, OnlyGraceKillAbandons
=============================================================================
