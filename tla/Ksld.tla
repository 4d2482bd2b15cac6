-------------------------------- MODULE Ksld --------------------------------
(***************************************************************************)
(* The lock life cycle of the screen locker daemon, class KSldApp of       *)
(* src/ksldapp.cpp, and the greeter process it supervises.                 *)
(*                                                                         *)
(* The daemon lives in one Qt event loop, so every handler is one atomic   *)
(* step.  Between two steps anything may happen to the greeter, which is   *)
(* another process: QProcess::start() returns before the child has run,    *)
(* a signal is delivered before it is handled, and the exit of the child   *)
(* waits for the event loop to pick it up.                                 *)
(*                                                                         *)
(* Of the settings the model keeps those that the life cycle reads; the    *)
(* member m_requirePassword is a copy that every load of the settings      *)
(* refreshes, so settings.requirePassword stands for it.  The idle timer   *)
(* and its inhibitors are the subject of module AutoLock.  Left out as     *)
(* unreachable: cleanUp(), which nothing calls, lockProcessRequestedUnlock *)
(* (), since no greeter prints "Unlocked", and the isLocked() test at the  *)
(* end of initialize(), which precedes any answer of logind.               *)
(***************************************************************************)
EXTENDS Integers

CONSTANTS
  Configurations,  \* the settings the user may choose
  StartFaults      \* the ways in which starting the greeter can fail

(* A greeter may fail to start at once, because no process can be forked,  *)
(* or later, because its program cannot be executed.                       *)
Faults == {"nofork", "noexec"}

ConfigurationSet ==
  [lock: BOOLEAN, lockGrace: Int, requirePassword: BOOLEAN,
   lockOnResume: BOOLEAN, lockOnStart: BOOLEAN]

ASSUME ConfigurationsAssumption == Configurations \subseteq ConfigurationSet
ASSUME StartFaultsAssumption == StartFaults \subseteq Faults

VARIABLES
  initialized,    \* initialize() has run in this instance of the daemon
  settings,       \* KScreenSaverSettings as last loaded
  lockGrace,      \* m_lockGrace, in milliseconds; -1 is "no end"
  lockState,      \* m_lockState
  inGraceTime,    \* m_inGraceTime
  graceTimer,     \* m_graceTimer is running
  graceTimeKill,  \* s_graceTimeKill
  logindExit,     \* s_logindExit
  crashes,        \* m_greeterCrashedCounter
  emergency,      \* m_emergencyLockWindow exists
  forceSoftware,  \* m_forceSoftwareRendering
  announced,      \* the last of the signals locked() and unlocked() is locked()
  groupSignalled, \* kill() was given the pid 0 of a QProcess that does not run
  greeter,        \* the greeter process
  host,           \* what fork and exec would do now
  connected,      \* LogindIntegration::m_connected
  hint,           \* the LockedHint logind keeps for the session
  unlockSignal    \* a signal Unlock of logind waits to be dispatched

config  == <<settings, lockGrace>>
lockVars == <<lockState, inGraceTime, graceTimer, announced>>
flags   == <<graceTimeKill, logindExit>>
faulty  == <<crashes, emergency, forceSoftware>>
world   == <<host, connected, unlockSignal>>
vars == <<initialized, config, lockVars, flags, faulty, groupSignalled,
          greeter, world, hint>>

-----------------------------------------------------------------------------
(* The greeter process.                                                    *)

Phases == {"none",     \* QProcess::NotRunning
           "young",    \* forked, has not masked its signals yet
           "up",       \* signals are masked, or handled by the event loop
           "failed",   \* the program could not be executed, not noticed yet
           "exited"}   \* has exited, finished() is not delivered yet
Modes   == {"locked", "grace", "nolock"}
Signals == {"TERM", "USR1"}

(* mode: does the greeter show its lock interface; pending: signals        *)
(* delivered and not handled; regular: it exited with code 0.              *)
GreeterSet ==
  [phase: Phases, mode: Modes, pending: SUBSET Signals, regular: BOOLEAN]

NoGreeter ==
  [phase |-> "none", mode |-> "locked", pending |-> {}, regular |-> FALSE]

Running == greeter.phase # "none"

Exited(regularly) == [NoGreeter EXCEPT !.phase = "exited", !.regular = regularly]

(* Mutant: a signal that comes before the handlers is lost.                *)
SignalledLate(sig) ==
  IF greeter.phase = "up" THEN [greeter EXCEPT !.pending = @ \cup {sig}] ELSE greeter

(* What kill(pid, sig) makes of the greeter: the default action ends a     *)
(* process that has not masked the signal; an ended one ignores it.        *)
Signalled(sig) ==
  CASE greeter.phase = "young" -> Exited(FALSE)
    [] greeter.phase = "up"    -> [greeter EXCEPT !.pending = @ \cup {sig}]
    [] OTHER                   -> greeter

(* Mutant: --nolock is looked at first.                                    *)
ModeNolockFirst(how, grace) ==
  IF grace = -1 \/ ~settings.requirePassword THEN "nolock"
  ELSE IF how = "immediate" THEN "locked" ELSE "grace"

(* The mode that the arguments --immediateLock and --nolock ask for.       *)
Mode(how, grace) ==
  IF how = "immediate" THEN "locked"
  ELSE IF grace = -1 \/ ~settings.requirePassword THEN "nolock"
  ELSE "grace"

(* A process that startLockProcess(how) starts with m_lockGrace = grace;   *)
(* that its program cannot be executed shows only later.                   *)
NewGreeter(how, grace) ==
  IF host = "noexec"
  THEN [NoGreeter EXCEPT !.phase = "failed"]
  ELSE [NoGreeter EXCEPT !.phase = "young", !.mode = Mode(how, grace)]

-----------------------------------------------------------------------------
(* Parts of handlers.                                                      *)

(* m_logind->setLocked(value): dropped while logind is not connected.      *)
SetLocked(value) == hint' = IF connected THEN value ELSE hint

(* Mutant: only the timer is stopped.                                      *)
StopGraceTimer == UNCHANGED inGraceTime /\ graceTimer' = FALSE

EndGraceTime == inGraceTime' = FALSE /\ graceTimer' = FALSE

DoUnlock ==
  /\ lockState' = "Unlocked"
  /\ EndGraceTime
  /\ crashes' = 0
  /\ emergency' = FALSE
  /\ announced' = FALSE
  /\ SetLocked(FALSE)

(* lock(how) when the screen is locked already: the grace time ends, and   *)
(* an immediate lock is passed on to the greeter with SIGUSR1.             *)
EnsureLocked(how) ==
  /\ lockState = "Locked"
  /\ EndGraceTime
  /\ greeter' = IF how = "immediate" THEN Signalled("USR1") ELSE greeter
  /\ groupSignalled' = (groupSignalled \/ (how = "immediate" /\ ~Running))
  /\ UNCHANGED <<lockState, announced, faulty, hint>>

(* lock(how) with m_inGraceTime = inGrace and m_lockGrace = grace when the *)
(* screen is unlocked and fork does not fail.  While an old greeter runs,  *)
(* QProcess::start() only warns.                                           *)
EstablishLock(how, inGrace, grace) ==
  /\ lockState = "Unlocked"
  /\ Running \/ host # "nofork"
  /\ lockState' = "Locked"
  /\ forceSoftware' = FALSE
  /\ greeter' = IF Running THEN greeter ELSE NewGreeter(how, grace)
  /\ announced' = TRUE
  /\ SetLocked(TRUE)
  /\ inGraceTime' = inGrace
  /\ graceTimer' = (graceTimer \/ (grace > 0 /\ inGrace))
  /\ UNCHANGED <<crashes, emergency, groupSignalled>>

(* The same when fork fails: QProcess emits errorOccurred() from within    *)
(* start(), its handler runs doUnlock(), and lock() then carries on.       *)
FailToLock ==
  /\ lockState = "Unlocked"
  /\ ~Running /\ host = "nofork"
  /\ EndGraceTime
  /\ forceSoftware' = FALSE
  /\ crashes' = 0
  /\ emergency' = FALSE
  /\ announced' = TRUE
  /\ SetLocked(TRUE)
  /\ UNCHANGED <<lockState, greeter, groupSignalled>>

Lock(how, inGrace, grace) ==
  /\ \/ EnsureLocked(how)
     \/ EstablishLock(how, inGrace, grace)
     \/ FailToLock
  /\ UNCHANGED flags

LockImmediately == Lock("immediate", inGraceTime, lockGrace)

(* configure(): seconds become milliseconds, "lock" off means no end.      *)
LockGraceOf(c) == IF c.lock THEN c.lockGrace * 1000 ELSE -1

-----------------------------------------------------------------------------
(* The handlers of the daemon.                                             *)

(* initialize(): configure(), and lock at once if so configured.           *)
Initialize ==
  /\ ~initialized
  /\ initialized' = TRUE
  /\ lockGrace' = LockGraceOf(settings)
  /\ IF settings.lockOnStart
     THEN Lock("immediate", inGraceTime, LockGraceOf(settings))
     ELSE UNCHANGED <<lockVars, flags, faulty, groupSignalled, greeter, hint>>
  /\ UNCHANGED <<settings, world>>

Configure ==
  /\ initialized
  /\ \E c \in Configurations :
       /\ settings' = c
       /\ lockGrace' = LockGraceOf(c)
  /\ UNCHANGED <<initialized, lockVars, flags, faulty, groupSignalled, greeter,
                 world, hint>>

(* KIdleTime::timeoutReached() with no inhibitor.                          *)
IdleTimeoutReached ==
  /\ initialized
  /\ lockState = "Unlocked"
  /\ Lock("delayed", inGraceTime \/ lockGrace # 0, lockGrace)
  /\ UNCHANGED <<initialized, config, world>>

(* The global shortcut.  Without a password the grace time never ends.     *)
ShortcutTriggered ==
  /\ initialized
  /\ IF settings.requirePassword
     THEN /\ Lock("immediate", FALSE, lockGrace)
          /\ UNCHANGED lockGrace
     ELSE /\ Lock("delayed", TRUE, -1)
          /\ lockGrace' = -1
  /\ UNCHANGED <<initialized, settings, world>>

(* Interface::Lock() and SetActive(true) called over D-Bus.                *)
DBusLock ==
  /\ initialized
  /\ LockImmediately
  /\ UNCHANGED <<initialized, config, world>>

(* logind's signal Lock.                                                   *)
LogindLock ==
  /\ initialized
  /\ connected
  /\ LockImmediately
  /\ UNCHANGED <<initialized, config, world>>

(* logind's signal PrepareForSleep(true).                                  *)
PrepareForSleep ==
  /\ initialized
  /\ settings.lockOnResume
  /\ LockImmediately
  /\ UNCHANGED <<initialized, config, world>>

(* Solid's aboutToSuspend, for systems without logind.                     *)
SolidSuspend ==
  /\ initialized
  /\ ~connected
  /\ settings.lockOnResume
  /\ LockImmediately
  /\ UNCHANGED <<initialized, config, world>>

(* Mutant: the hint is not asked for.                                      *)
LogindConnectedOnly ==
  /\ initialized
  /\ ~connected
  /\ connected' = TRUE
  /\ UNCHANGED <<initialized, config, lockVars, flags, faulty, groupSignalled,
                 greeter, hint, host, unlockSignal>>

(* connectedChanged(): logind is there, and may hold a LockedHint of an    *)
(* instance of the daemon that died while the screen was locked.           *)
LogindConnected ==
  /\ initialized
  /\ ~connected
  /\ connected' = TRUE
  /\ IF hint
     THEN LockImmediately
     ELSE UNCHANGED <<lockVars, flags, faulty, groupSignalled, greeter, hint>>
  /\ UNCHANGED <<initialized, config, host, unlockSignal>>

(* requestUnlock(): a greeter that runs is told to go and the unlocking is *)
(* left to its exit.                                                       *)
LogindUnlock ==
  /\ initialized
  /\ unlockSignal
  /\ unlockSignal' = FALSE
  /\ \/ /\ lockState = "Locked" /\ Running
        /\ logindExit' = TRUE
        /\ greeter' = Signalled("TERM")
        /\ UNCHANGED <<lockVars, faulty, hint>>
     \/ /\ lockState = "Locked" /\ ~Running
        /\ DoUnlock
        /\ UNCHANGED <<logindExit, greeter, forceSoftware>>
     \/ /\ lockState = "Unlocked"
        /\ UNCHANGED <<logindExit, lockVars, faulty, greeter, hint>>
  /\ UNCHANGED <<initialized, config, graceTimeKill, groupSignalled, host, connected>>

(* userActivity() and unlock(): the screen unlocks at once, the greeter is *)
(* told to go and its exit is to be ignored.                               *)
UserActivity ==
  /\ initialized
  /\ lockState = "Locked"
  /\ inGraceTime \/ ~settings.requirePassword
  /\ DoUnlock
  /\ graceTimeKill' = TRUE
  /\ greeter' = Signalled("TERM")
  /\ UNCHANGED <<initialized, config, logindExit, forceSoftware, groupSignalled, world>>

(* m_graceTimer times out: endGraceTime().                                 *)
GraceTimeout ==
  /\ graceTimer
  /\ EndGraceTime
  /\ UNCHANGED <<initialized, config, lockState, announced, flags, faulty,
                 groupSignalled, greeter, world, hint>>

(* How many crashes of the greeter one lock puts up with.                  *)
CrashLimit == 4

(* Mutant: one restart too many.                                           *)
RestartsOnceMore(count) == count <= CrashLimit

Restarts(count) == count < CrashLimit

(* Mutant: every exit is taken for the expected one.                       *)
AnyFinished ==
  /\ graceTimeKill' = FALSE
  /\ logindExit' = FALSE
  /\ greeter' = NoGreeter
  /\ UNCHANGED <<lockVars, faulty, hint>>

(* The finished() handler, by the branch that it takes.                    *)
GraceKillFinished ==
  /\ graceTimeKill
  /\ graceTimeKill' = FALSE
  /\ logindExit' = FALSE
  /\ greeter' = NoGreeter
  /\ UNCHANGED <<lockVars, faulty, hint>>

(* Mutant: the request of logind is not reset.                             *)
UnlockFinishedKeepsRequest ==
  /\ ~graceTimeKill
  /\ greeter.regular \/ logindExit
  /\ DoUnlock
  /\ greeter' = NoGreeter
  /\ UNCHANGED <<flags, forceSoftware>>

(* Mutant: the exit code is not looked at.                                 *)
AnyExitUnlocks ==
  /\ ~graceTimeKill
  /\ logindExit' = FALSE
  /\ DoUnlock
  /\ greeter' = NoGreeter
  /\ UNCHANGED <<graceTimeKill, forceSoftware>>

UnlockFinished ==
  /\ ~graceTimeKill
  /\ greeter.regular \/ logindExit
  /\ logindExit' = FALSE
  /\ DoUnlock
  /\ greeter' = NoGreeter
  /\ UNCHANGED <<graceTimeKill, forceSoftware>>

CrashFinished ==
  /\ ~graceTimeKill
  /\ ~greeter.regular /\ ~logindExit
  /\ UNCHANGED flags
  /\ \/ /\ Restarts(crashes + 1)
        /\ host # "nofork"
        /\ crashes' = crashes + 1
        /\ forceSoftware' = TRUE
        /\ greeter' = NewGreeter("immediate", lockGrace)
        /\ UNCHANGED <<lockVars, emergency, hint>>
     \/ /\ Restarts(crashes + 1)
        /\ host = "nofork"
        /\ DoUnlock
        /\ forceSoftware' = TRUE
        /\ greeter' = NoGreeter
     \/ /\ ~Restarts(crashes + 1)
        /\ crashes' = crashes + 1
        /\ emergency' = TRUE
        /\ greeter' = NoGreeter
        /\ UNCHANGED <<lockVars, forceSoftware, hint>>

ProcessFinished ==
  /\ greeter.phase = "exited"
  /\ GraceKillFinished \/ UnlockFinished \/ CrashFinished
  /\ UNCHANGED <<initialized, config, groupSignalled, world>>

(* errorOccurred(FailedToStart), once exec has failed in the child.        *)
StartFailed ==
  /\ greeter.phase = "failed"
  /\ DoUnlock
  /\ greeter' = NoGreeter
  /\ UNCHANGED <<initialized, config, flags, forceSoftware, groupSignalled, world>>

Daemon ==
  \/ Initialize \/ Configure \/ IdleTimeoutReached \/ ShortcutTriggered
  \/ DBusLock \/ LogindLock \/ PrepareForSleep \/ SolidSuspend
  \/ LogindConnected \/ LogindUnlock \/ UserActivity \/ GraceTimeout
  \/ ProcessFinished \/ StartFailed

-----------------------------------------------------------------------------
(* The greeter, as far as the daemon can tell its states apart.            *)

(* What a step of the greeter leaves alone.                                *)
DaemonUnchanged ==
  UNCHANGED <<initialized, config, lockVars, flags, faulty, groupSignalled,
              world, hint>>

(* main() has masked the two signals.                                      *)
GreeterMasksSignals ==
  /\ greeter.phase = "young"
  /\ greeter' = [greeter EXCEPT !.phase = "up"]
  /\ DaemonUnchanged

(* SIGTERM: leave, with an exit code that is not taken for a password.     *)
GreeterHandlesTerm ==
  /\ greeter.phase = "up"
  /\ "TERM" \in greeter.pending
  /\ greeter' = Exited(FALSE)
  /\ DaemonUnchanged

(* Mutant: only a grace time is ended.                                     *)
GreeterEndsGraceOnUsr1 ==
  /\ greeter.phase = "up"
  /\ "USR1" \in greeter.pending
  /\ greeter' = [greeter EXCEPT !.mode = IF @ = "grace" THEN "locked" ELSE @,
                                !.pending = @ \ {"USR1"}]
  /\ DaemonUnchanged

(* SIGUSR1: lockImmediately().                                             *)
GreeterHandlesUsr1 ==
  /\ greeter.phase = "up"
  /\ "USR1" \in greeter.pending
  /\ greeter' = [greeter EXCEPT !.mode = "locked", !.pending = @ \ {"USR1"}]
  /\ DaemonUnchanged

(* The greeter's own timer for --graceTime: graceLockEnded().              *)
GreeterGraceEnds ==
  /\ greeter.phase = "up"
  /\ greeter.mode = "grace"
  /\ greeter' = [greeter EXCEPT !.mode = "locked"]
  /\ DaemonUnchanged

(* Authentication succeeded and the interface quits.  No mode excludes it: *)
(* a fingerprint unlocks without the interface.                            *)
GreeterAuthenticates ==
  /\ greeter.phase = "up"
  /\ greeter' = Exited(TRUE)
  /\ DaemonUnchanged

GreeterCrashes ==
  /\ greeter.phase \in {"young", "up"}
  /\ greeter' = Exited(FALSE)
  /\ DaemonUnchanged

Greeter ==
  \/ GreeterMasksSignals \/ GreeterHandlesTerm \/ GreeterHandlesUsr1
  \/ GreeterGraceEnds \/ GreeterAuthenticates \/ GreeterCrashes

-----------------------------------------------------------------------------
(* The rest of the world.                                                  *)

(* Processes become, or cease to be, available.                            *)
HostChanges ==
  /\ host' \in {"ok"} \cup StartFaults
  /\ host' # host
  /\ UNCHANGED <<initialized, config, lockVars, flags, faulty, groupSignalled,
                 greeter, connected, unlockSignal, hint>>

(* The user asks logind to unlock the session.                             *)
LogindSendsUnlock ==
  /\ connected
  /\ ~unlockSignal
  /\ unlockSignal' = TRUE
  /\ UNCHANGED <<initialized, config, lockVars, flags, faulty, groupSignalled,
                 greeter, host, connected, hint>>

(* logind leaves the bus, after all that it sent was dispatched; whether a *)
(* new instance of it remembers the hint is up to it.                      *)
LogindDisconnected ==
  /\ connected
  /\ ~unlockSignal
  /\ connected' = FALSE
  /\ hint' \in {hint, FALSE}
  /\ UNCHANGED <<initialized, config, lockVars, flags, faulty, groupSignalled,
                 greeter, host, unlockSignal>>

(* The process that hosts the daemon, the compositor, dies and starts      *)
(* again; the greeter goes with it.  Only logind's hint survives.          *)
DaemonRestarts ==
  /\ initialized
  /\ initialized' = FALSE
  /\ settings' \in Configurations
  /\ lockGrace' = 0
  /\ lockState' = "Unlocked"
  /\ inGraceTime' = FALSE /\ graceTimer' = FALSE
  /\ graceTimeKill' = FALSE /\ logindExit' = FALSE
  /\ crashes' = 0 /\ emergency' = FALSE /\ forceSoftware' = FALSE
  /\ announced' = FALSE
  /\ groupSignalled' = FALSE
  /\ greeter' = NoGreeter
  /\ connected' = FALSE
  /\ unlockSignal' = FALSE
  /\ UNCHANGED <<host, hint>>

Environment == HostChanges \/ LogindSendsUnlock \/ LogindDisconnected \/ DaemonRestarts

-----------------------------------------------------------------------------
(* The constructor KSldApp::KSldApp().                                     *)
Init ==
  /\ initialized = FALSE
  /\ settings \in Configurations
  /\ lockGrace = 0
  /\ lockState = "Unlocked"
  /\ inGraceTime = FALSE /\ graceTimer = FALSE
  /\ graceTimeKill = FALSE /\ logindExit = FALSE
  /\ crashes = 0 /\ emergency = FALSE /\ forceSoftware = FALSE
  /\ announced = FALSE
  /\ groupSignalled = FALSE
  /\ greeter = NoGreeter
  /\ host \in {"ok"} \cup StartFaults
  /\ connected = FALSE
  /\ hint \in BOOLEAN
  /\ unlockSignal = FALSE

Next == Daemon \/ Greeter \/ Environment

Spec == Init /\ [][Next]_vars

(* The event loop delivers what is due, logind comes up, and a greeter     *)
(* that does not crash gets through main() and to its signals and timer.   *)
Fairness ==
  /\ WF_vars(Initialize)
  /\ WF_vars(LogindConnected)
  /\ WF_vars(LogindUnlock)
  /\ WF_vars(GraceTimeout)
  /\ WF_vars(ProcessFinished)
  /\ WF_vars(StartFailed)
  /\ WF_vars(GreeterMasksSignals)
  /\ WF_vars(GreeterHandlesTerm)
  /\ WF_vars(GreeterHandlesUsr1)
  /\ WF_vars(GreeterGraceEnds)

FairSpec == Spec /\ Fairness

-----------------------------------------------------------------------------
(* Type and safety.                                                        *)

(* Every variable keeps its type; the crash counter never passes its limit.*)
TypeOK ==
  /\ initialized \in BOOLEAN
  /\ settings \in Configurations
  /\ lockGrace \in Int
  /\ lockState \in {"Unlocked", "Locked"}
  /\ inGraceTime \in BOOLEAN
  /\ graceTimer \in BOOLEAN
  /\ graceTimeKill \in BOOLEAN
  /\ logindExit \in BOOLEAN
  /\ crashes \in 0..CrashLimit
  /\ emergency \in BOOLEAN
  /\ forceSoftware \in BOOLEAN
  /\ announced \in BOOLEAN
  /\ groupSignalled \in BOOLEAN
  /\ greeter \in GreeterSet
  /\ host \in {"ok"} \cup StartFaults
  /\ connected \in BOOLEAN
  /\ hint \in BOOLEAN
  /\ unlockSignal \in BOOLEAN

Locked == lockState = "Locked"

(* What one lock leaves behind cannot leak into the next: an unlocked      *)
(* daemon is in no grace time, has no crash on its account and shows no    *)
(* emergency window, and the timer never runs without a grace time to end. *)
NoLeakBetweenLocks ==
  /\ graceTimer => inGraceTime
  /\ ~Locked => ~inGraceTime /\ crashes = 0 /\ ~emergency

(* The emergency window is the last resort of a greeter that crashed       *)
(* CrashLimit times, never shown beside a greeter, and the first crash     *)
(* of a lock already turns on software rendering.                          *)
EmergencyIsTheLastResort ==
  /\ emergency <=> crashes = CrashLimit
  /\ emergency => ~Running
  /\ Locked => (forceSoftware <=> crashes > 0)

(* A greeter that outlives its lock, because unlock() does not wait for it,*)
(* is on its way out, and its exit will not be taken for one of the next   *)
(* lock's greeter.                                                         *)
LeftoverGreeterIsDoomed ==
  ~Locked /\ Running =>
    /\ graceTimeKill
    /\ greeter.phase # "young"
    /\ greeter.phase = "up" => "TERM" \in greeter.pending

(* An unlocking forced through logind is over when the screen is unlocked: *)
(* it does not let the next lock's greeter crash the screen open.          *)
LogindExitIsOfThisLock == logindExit /\ ~graceTimeKill => Locked

(* A locked screen with neither a greeter nor the emergency window.        *)
Abandoned == Locked /\ ~Running /\ ~emergency

(* The lock process is there, or the emergency window is, while the screen *)
(* is locked.                                                              *)
GreeterOrEmergency == ~Abandoned

(* The only way to lose the greeter of a locked screen without replacement *)
(* is an exit that the flag s_graceTimeKill declared expected.             *)
OnlyGraceKillAbandons == [][Abandoned' => Abandoned \/ graceTimeKill]_vars

(* The SIGUSR1 of lock() goes to the greeter, not to the daemon's group.   *)
SignalsOnlyTheGreeter == ~groupSignalled

-----------------------------------------------------------------------------
(* The daemon implements ScreenLock.  The reasons it has to unlock, each   *)
(* read off its state:                                                     *)
LockLicences ==
  {l \in {"grace", "nopassword", "nogreeter", "unlockSent", "unlockTaken",
          "authenticated"} :
     CASE l = "grace"         -> inGraceTime
       [] l = "nopassword"    -> ~settings.requirePassword
       [] l = "nogreeter"     -> host = "nofork" \/ greeter.phase = "failed"
       [] l = "unlockSent"    -> unlockSignal
       [] l = "unlockTaken"   -> logindExit /\ ~graceTimeKill
       [] l = "authenticated" -> /\ greeter.phase = "exited" /\ greeter.regular
                                 /\ ~graceTimeKill}

Licensed == INSTANCE ScreenLock WITH
  up <- initialized,
  locked <- Locked,
  licences <- IF Locked THEN LockLicences ELSE {}

(* A locked screen is unlocked only by activity in the grace time or when  *)
(* no password is wanted, by a greeter of this lock that authenticated the *)
(* user, on logind's request, or because there is no greeter to start.     *)
UnlockedOnlyWithLicence == Licensed!Spec

-----------------------------------------------------------------------------
(* Liveness.                                                               *)

(* An unlocking that logind forces gets through.                           *)
ForcedUnlockCompletes == (logindExit /\ ~graceTimeKill) ~> ~Locked

(* A greeter that asks for the password, the emergency window, or no lock. *)
(* A locked screen with neither (Abandoned) is not resolved.               *)
Resolved ==
  ~Locked \/ emergency \/ (greeter.phase = "up" /\ greeter.mode = "locked")

(* A greeter that crashed is replaced by one that asks for the password or *)
(* by the emergency window, unless the lock is over: the finished handler  *)
(* restarts it, or gives up and shows the window.  An exit that the flag   *)
(* s_graceTimeKill declares expected is none of these crashes: the handler *)
(* returns at once (see GreeterOrEmergency for what comes of it).          *)
CrashIsResolved ==
  (Locked /\ greeter.phase = "exited" /\ ~greeter.regular /\ ~graceTimeKill)
    ~> Resolved

(* When user activity does not unlock any more, the greeter comes to show  *)
(* its lock interface, also when it was started for a delayed lock.  One   *)
(* started with --nolock must have been told: it stays blank for good when *)
(* the setting requirePassword is turned on after its start.  Nothing is   *)
(* promised while s_graceTimeKill is set, which lets the next exit pass    *)
(* without a new greeter, and nothing once it has.                         *)
Told == greeter.mode = "nolock" => "USR1" \in greeter.pending

PromptAppears ==
  (/\ Locked /\ ~inGraceTime /\ settings.requirePassword /\ Told
   /\ ~Abandoned /\ ~graceTimeKill) ~> Resolved

(* A daemon that died on a locked screen locks it again, once it stays up. *)
RelocksAfterRestart ==
  <>[]initialized => [](~initialized /\ hint => <>(Locked \/ host = "nofork"))

=============================================================================
