# A TLA+ verification project for kscreenlocker

kscreenlocker is the screen locker of KDE Plasma. A daemon, the class
`KSldApp`, is linked into the compositor (KWin). It decides when the screen is
locked, starts a greeter process that asks for the password, watches over that
process, and unlocks when it exits with success. The greeter in turn starts one
worker process for each PAM service. Everything in the daemon runs in one Qt
event loop; everything around it (the greeter, logind, the power manager,
clients on D-Bus, the user) runs at its own pace.

## 1. Inventory

| part | state | operations | who it talks to |
|---|---|---|---|
| Lock life cycle, `ksldapp.cpp` | lock state, grace time and its timer, `s_graceTimeKill`, `s_logindExit`, crash counter, emergency window, `m_lockProcess` | `initialize`, `configure`, `lock`, `unlock`, `doUnlock`, `userActivity`, `endGraceTime`, handlers of `finished`, `errorOccurred`, of the idle timeout, the shortcut, logind and Solid | greeter (process, signals), `LogindIntegration`, `GlobalAccel`, `Interface`, KIdleTime |
| Auto lock, `ksldapp.cpp` | idle timeout, inhibit counter, settings | `inhibit`, `uninhibit`, `updateIdleTimeout`, `configure` | `Interface`, `PowerManagementInhibition`, KIdleTime |
| D-Bus interface, `interface.cpp` | inhibition requests, next cookie, watched services; one `PowerInhibitor` per request | `Lock`, `SetActive`, `Inhibit`, `UnInhibit`, `serviceUnregistered`, `configure` | clients, `KSldApp`, the power service |
| Power management inhibition, `powermanagement_inhibition.cpp` | `m_inhibited`, `m_serviceRegistered`, pending calls | registration, `InhibitionsChanged`, replies of `HasInhibition` | the power service, `KSldApp` |
| logind, `logind.cpp` | connection, session path, service names, pending calls | registration of logind or ConsoleKit, `setLocked`, `isLocked`, signals `Lock`, `Unlock`, `PrepareForSleep` | logind, `KSldApp` |
| Global shortcuts, `globalaccel.cpp` | shortcuts, `m_updatingInformation`, pending calls | `prepare`, `release`, `keyEvent` and three kinds of replies | kglobalaccel, `KSldApp` |
| Emergency window, `emergencywindow.cpp` | its geometry, the screens it listens to | `updateGeometry`, screens that come and go, paints instructions | `KSldApp`, screens |
| Greeter, `greeter/main.cpp`, `greeter/greeterapp.cpp` | immediate lock, no lock, grace timer, theme, a view for each screen | start-up, signals, `lockImmediately`, `graceLockEnded`, `handleScreen`, `markViewsAsVisible`, `getFocus`, `viewEntered`, quit | daemon (arguments, signals, exit code), authenticators, screens, themes |
| Set of authenticators, `greeter/pamauthenticators.cpp` | interactive and fingerprint authenticator, state, `graceLocked`, `locked` | `startAuthenticating`, `stopAuthenticating`, `onAuthenticatorChanged`, replies | `PamAuthenticator`, user interface, saved state |
| PAM authenticator, `greeter/pamauthenticator.cpp` | busy, ready, unlocked, unavailable, pending prompt, failure count, delay | `tryUnlock`, `respond`, `cancel`, `Ping`, prompts, `StartFailedDelay`, replies | worker (process, peer-to-peer D-Bus) |
| PAM worker, `greeter/worker/main.cpp` | in authentication, available | `Authenticate`, `Cancel`, conversation, fail delay | PAM, `PamAuthenticator` |
| Settings, kcm, themes, po, tests | | | configuration, user interface, text |

What makes each part correct, and what makes that hard:

* **Lock life cycle.** A locked screen is unlocked only for a reason; the screen
  that is locked has somebody to ask for the password; one lock leaves nothing
  behind for the next. Hard, because a signal, the exit of a process and the
  handling of that exit are three different moments, and because requests to
  lock and to unlock come from seven places.
* **Auto lock.** The idle timeout is armed exactly when it is configured and
  nobody inhibits it. Hard, because inhibitors come and go, replies come late,
  and clients and services leave the bus.
* **logind and global shortcuts.** The hint that logind keeps is what locks the
  screen again after a crash, so it must be right; a logind that restarts must be
  found again; the shortcuts of one lock must not serve the next. Hard, because
  every answer is late: it may be of an instance that has gone, or of an earlier
  lock, and a counter of pending calls must get back to zero whatever fails.
* **Views and the emergency window.** No screen shows what is behind the lock,
  and all of them show the same thing. Hard, because screens come and go while
  the greeter starts, counts down its grace time or gives way to the emergency
  window, and because a handler may run for a view that is no more.
* **Authentication.** No success without a success of PAM, no prompt that
  nobody answers, no broken reader in a loop, and no unlocking in the grace
  time's stead. Hard, because the worker is a process of its own and is
  cancelled in the middle of everything.

## 2. Modules and plan

| module | what it is | state |
|---|---|---|
| `Ksld` | lock life cycle, greeter process, logind as the daemon sees it | checked, proved |
| `ScreenLock` | what a screen locker promises; `Ksld` is shown to implement it | checked, proved |
| `KsldProofs`, `KsldRefinement` | theorems about `Ksld` | proved |
| `AutoLock` | idle timeout, `Interface`, `PowerInhibitor`, `PowerManagementInhibition` | checked, proved |
| `PamAuthenticator` | one PAM service: the greeter's side, the worker, the connection | checked, proved |
| `PamAuthenticators` | composes two `PamAuthenticator`s with the model's defunct marks, the grace lock and the greeter's end | checked, proved |
| `LogindIntegration` | registration at logind or ConsoleKit, `setLocked`, `isLocked`, signals, the system bus | checked, proved (in `SessionServices`) |
| `GlobalAccel` | fetching the shortcuts of the lock screen | checked, proved (in `SessionServices`) |
| `SessionServices` | composes these two with locking and unlocking | checked, proved |
| `LockWindows` | the greeter's views and the emergency window over screens that come and go | checked, proved |
| `QueueTheorems` | lemmas about queues: the places of messages, what appending and taking make of them, and counting by cardinality | proved |
| `LockWindowsProofs`, `AutoLockProofs`, `SessionServicesProofs`, `PamAuthenticatorProofs`, `PamAuthenticatorsProofs` | theorems about the module of the same name | proved |
| `MCKsld`, `MCAutoLock`, `MCSessionServices`, `MCLockWindows` | instances for TLC; the PAM modules need none, their cfgs give the constants | |

Next: an abstract authenticator ("the greeter is open only after consent") that
`PamAuthenticators` implements, next to `ScreenLock`, with a proof from the
invariant of `PamAuthenticatorsProofs`.

## 3. How the models correspond to the code

**One handler, one action.** The daemon, the greeter and the worker each run a
Qt event loop in one thread. A slot, a timer's handler or a reply's handler runs
to its end before the next one begins, so each is one action with everything it
calls. A signal that is connected directly is part of the action that emits it.
Calls over D-Bus, signals of Unix and exits of processes are what happens
between actions.

**`Ksld`.** `lockState`, `inGraceTime`, `graceTimer`, `graceTimeKill`,
`logindExit`, `crashes`, `emergency` and `forceSoftware` are the members and
statics of the same names in `ksldapp.cpp`. `greeter` is what stands behind
`m_lockProcess`: forked and not yet deaf to signals (`young`), `up`, unable to be
executed (`failed`), or gone without `finished()` having been handled
(`exited`), with the signals that wait for it and the mode that its arguments
ask for. `host` says what `fork` and `exec` would do. `connected`, `hint` and
`unlockSignal` are logind. `Lock(how, inGrace, grace)` is `lock()` and
`startLockProcess()`; the actions `IdleTimeoutReached`, `ShortcutTriggered`,
`DBusLock`, `LogindLock`, `PrepareForSleep`, `SolidSuspend`, `LogindConnected`
and `Initialize` are the places that call it. `ProcessFinished` is the handler of
`finished()` with its three branches, `StartFailed` that of `errorOccurred()`;
`FailToLock` is that same handler run from within `start()`, in the middle of
`lock()`. `DaemonRestarts` is the death of the compositor, which takes the
greeter with it and leaves logind's hint.

**`ScreenLock`.** A locked screen has a set of licences to unlock it. The
mapping (`Licensed` in `Ksld`) reads them off the state of the daemon. The module
forbids three things: an unlock without a licence, a licence by grace time that
appears in the middle of a lock, and a request of logind that was not made for
this lock.

**`AutoLock`.** `requests`, `nextCookie` and `watched` are `Interface`;
`inhibitor` says of each cookie what its `PowerInhibitor` is at (call pending,
granted, released before it was granted, gone); `alive` are the clients on the bus,
`missed` those that left it while the daemon did not watch them; `inhibitCounter` and
`idleTimeout` are `KSldApp`; `powerInhibited` and `registered` are
`PowerManagementInhibition`. `inbox` is the queue of the daemon's bus
connection, `outbox` that of the power service. `Deliver` handles the first
message of the inbox by kind, and `Answer` lets the power service or the bus take
the first call. Messages of one sender keep their order, and a match rule that
is not installed yet delivers nothing (`Announced`).

**`PamAuthenticator`.** `auth` has the members of the class, `worker` those of
`Worker` with the place where the process is blocked, `wire` what is under way:
one queue to the greeter, calls of `Authenticate` that the worker has not
taken, and the response to a prompt. A reply to `Authenticate` and the signals
that it makes the class emit are one action. `WorkerDies` covers SIGTERM,
SIGKILL and a crash: the connection closes, and calls without an answer fail.
`RespondsAtOnce` selects a user interface that answers from within the signal of
the prompt, as `fallbacktheme/Greeter.qml` does.

**`PamAuthenticators`.** `Active` and `Reader` are two instances of
`PamAuthenticator`, for `m_activeAuthenticator` and
`m_fingerprintAuthenticator`. What the class does in handlers of their signals
is conjoined to the step that emits the signal. An authenticator that has been
destroyed is one without a worker. `Begin` is the next greeter: a new process,
which knows of the last one only what the state configuration has saved, and
finds whatever the user has enabled meanwhile.

**`LogindIntegration`.** `connected`, `service` and `sessionPath` are the members;
`m_path` and the interfaces change with `service`. `outbox` holds what the daemon
has sent and nobody has taken, `inbox` what the bus has dispatched and the daemon
has not handled: replies and signals in one queue, as on one connection. `rules`
are the match rules that `QDBusConnection::connect` has added. `hint` is logind's
`LockedHint`; `lost` records that the last notification was dropped, went to a
service that was not there, or was forgotten by a new instance; `refused` that the
last answer was an error of somebody who was there: the bus may fail `ListNames`, and
a logind that is there may hold the session not to be registered. `isLocked()`
blocks, so the step that calls it requires an empty `outbox`: all that was sent
before has been taken when the answer comes. A handler that makes `KSldApp` act is
an operator with the calls that `KSldApp` adds as a parameter.

**`GlobalAccel`.** `updatingInformation` and `shortcuts` are the members (of
`m_shortcuts` the components), `calls` the calls without an answer in the order
they were sent, `active` what kglobalaccel would say. An operator for each kind of
reply, and one for a reply that is an error.

**`SessionServices`.** `Establish` and `DoUnlock` are what `lock()` and `doUnlock()`
ask of the two classes. A lock whose greeter fails to start is `Establish(FALSE, ...)`:
the handler of the error runs `doUnlock()` within `lock()`, which then goes on, so that
logind is told of an unlock and of a lock (`LockCalls`). `failed` is history of such a
lock, `unread` of an `isLocked()` that was answered with an error although there was a
hint. `Connected`, `LockRequested` and `UnlockRequested` are the
handlers that `initialize()` connects to logind's signals; `UserLocks` and
`UserUnlocks` stand for every other way to lock and to unlock, which is `Ksld`'s
subject. `fetch` is history: whether this lock has a fetch of its own.

**`LockWindows`.** `immediateLock`, `noLock`, `delayedLockTimer` and `views` are
members of `UnlockApp`, `graceLocked` is that of the authenticators, `fallback` that
`m_mainQmlPath` has been replaced. `posted` is what is queued in the greeter's event
loop: `onAuthenticatorChanged`, the handlers of first frames, `getFocus`. A handler
whose view has been deleted stays queued with nothing in place of the view, and
`MarkDeletedView` is its undefined behaviour: the process ends or goes on. `covered`
is the emergency window's geometry as the set of geometries it was united from;
`watched` are the screens connected to `updateGeometry()`. A screen may have no geometry
(`NullGeometry`); `skipped` are the screens that `handleScreen()` has passed over for
that reason, and they stay so when they get a geometry. A signal of a screen and
the handlers it is connected to are one step.

Data is abstracted to what the properties tell apart: no texts, names, paths or
payloads; of settings only the entries read; of times only their order.

## 4. What the runs check

| run | instance | result |
|---|---|---|
| `ksld_safety` | five configurations, both faults of starting a process | 54 966 states; holds |
| `ksld_live` | five configurations, `fork` may fail, with fairness | 27 140 states; refinement and liveness hold |
| `ksld_abandoned` | one configuration, no faults | violated, finding 1 |
| `ksld_group` | one configuration, no faults | violated, finding 2 |
| `autolock` | two clients, two settings, two cookies, two messages in flight | 126 084 states; holds |
| `autolock_disarmed` | two clients, one setting, one cookie | violated, finding 3 |
| `pam` | the code's limit of 3 quick failures, 3 calls, 2 delays, with fairness | 29 434 states; holds |
| `pam_respond` | a user interface that answers at once | violated, finding 4 |
| `authenticators` | password and fingerprint reader, any number of greeters | 349 817 states; holds |
| `auth_enabled` | the same | violated, finding 5 |
| `services` | two components, one of them whitelisted; logind restarts, ConsoleKit may be there; two messages in flight; with fairness | 256 598 states; holds |
| `windows` | two screens, two geometries and none, with fairness | 226 132 states; holds |

* `ksld_safety`: one lock leaves nothing to the next (`NoLeakBetweenLocks`), the
  emergency window comes with the fourth crash and never beside a greeter
  (`EmergencyIsTheLastResort`), a greeter that outlives its lock has been told to
  go (`LeftoverGreeterIsDoomed`), and a locked screen loses its greeter only by an
  exit that `s_graceTimeKill` declared expected (`OnlyGraceKillAbandons`).
* `ksld_live`: the daemon implements `ScreenLock`
  (`UnlockedOnlyWithLicence`), a request of logind does not outlive its lock
  (`LogindExitIsOfThisLock`) and gets through (`ForcedUnlockCompletes`), a crash
  that no flag makes an expected exit ends in a new greeter, the emergency window or
  no lock (`CrashIsResolved`), a prompt appears once activity does not unlock any more
  (`PromptAppears`), and a daemon that died locked locks again (`RelocksAfterRestart`).
  A locked screen that finding 1 has left with neither a greeter nor the window does
  not count as an end of either: both properties are about locks on which
  `s_graceTimeKill` is not set, and it is that flag which leads there.
* `autolock`: the counter in `KSldApp` and the list in `Interface` agree
  (`RequestsAreCounted`), and no request belongs to a client that has left without the
  daemon being about to hear of it, unless it left before it was watched; a
  timeout that runs is the configured one and nobody inhibits it
  (`TimeoutIsRightful`), and it is lost in one way only (`OnlyServiceLossDisarms`);
  every released inhibition leaves the power service (`ReleaseReachesService`), and
  the daemon's view of that service comes to be true (`PowerInhibitionFollows`).
* `pam`: every call has exactly one answer to come (`EveryCallIsAnswered`), a prompt is
  in one place (`PromptIsInOnePlace`), success comes from PAM (`OnlyPamUnlocks`), a delay has an
  end (`DelayIsScheduled`), a broken service is not tried for ever
  (`BrokenServiceIsLeftAlone`); prompts get answered and busy ends
  (`PromptIsAnswered`, `BusyEnds`).
* `authenticators`: the greeter is unlocked only by PAM's consent
  (`OnlyConsentUnlocks`), the fingerprint device has one user (`OneUsesTheDevice`),
  and what is defunct is not tried again (`DefunctIsNotTried`).
* `services`: when all messages have come, the hint is what the daemon told logind
  last, unless that was lost, and a hint that says locked is right, unless the last
  lock failed to start its greeter or the daemon could not read the hint
  (`HintIsRight`); a logind that stays is connected to in the end, with its rules,
  unless its last answer was an error (`Reconnects`); the counter of calls is their
  number (`CounterIsCalls`) and returns to zero (`FetchEnds`); the shortcuts of a screen
  whose lock fetched for itself are of
  components that are active now, and all of theirs once the fetch has ended without an
  error (`ShortcutsAreThisLocks`).
* `windows`: all views show the lock interface or none does, a grace lock has a timer
  to end it, and at most one view is that of the active screen (`ViewsAgree`); a
  greeter has a view, of the screen's very geometry, for each screen but those that had
  none when their view was due, and the emergency window is on every screen with a
  geometry (`EveryScreenIsCovered`); the prompt comes to every screen that has a view
  coming (`PromptOnEveryScreen`); and a view that stays comes to be visible and to take the keyboard
  (`TypingReachesEveryView`).

**Bounds.** `Ksld` has none of its own: the crash counter is bounded by the code
and everything else is finite. Five configurations cover every value that a
guard distinguishes (grace time none, finite, endless; password or not; lock on
resume, lock on start). In `AutoLock`, `MaxCookies` bounds how many inhibitions
are ever asked for: two let a client have two, two clients have one each, and a
used cookie be used again. `MaxInFlight` holds back the environment only, never
the daemon: two let a signal overtake a reply; with three, `TypeOK`,
`RequestsAreCounted` and `TimeoutIsRightful` hold as well (624 699 states). In
`PamAuthenticator`, `MaxCalls` 3 allows a call in hand, one
that waits and an answer under way; `MaxQuickFailures` is the code's 3, so that
the limit is reached and passed; `MaxDelays` 2 lets delays overlap. In
`PamAuthenticators` each part has one call and no delay, as the `pam` run has
covered the rest and none of its properties depends on them; with one delay the
safety properties hold as well (1.8 million states). Two types suffice, as the
code distinguishes `Fingerprint`, `Regular` (never defunct) and the others, and
the others differ from `Fingerprint` only in having a reader beside them, as
`Regular` has.
In `SessionServices`, `MaxInFlight` holds back the services, their signals and the user,
never a handler: two let a restart of logind, or a lock, fall between a call and its
reply, and let a service come and go before either is handled. With three, and nothing
whitelisted, `TypeOK`, `HintIsRight` and `Reconnects` hold as well (370 130 states). Of two
components one is whitelisted, which tells every branch of `components()` apart; with three
of which two are, so that several calls for shortcuts are under way at once, and logind
alone, `CounterIsCalls`, `ShortcutsAreThisLocks` and `FetchEnds` hold as well (156 056
states). In `LockWindows` two screens let one be added, removed or changed
while another has a frame, a handler or the focus pending; two geometries are a change, and
the third is that of a screen that has none; `MaxPosted` 3 holds back only new screens,
as each of them adds to the queue.

**Fairness.** Only what the scheduling justifies: an event loop delivers what is
due (handlers, timers, exits of processes), D-Bus delivers, logind comes up, a
greeter that does not crash gets through `main()` and to its signals, the power
service and the bus answer calls, PAM comes to an end, a worker that was
signalled dies, a user answers a prompt where the interface lets him, kglobalaccel
answers or its call times out, and the window system shows the first frame of a view
that stays. Users need not authenticate, greeters need not be restarted, services need not return.

## 5. What is proved

`KsldProofs` proves for every set of configurations and faults that `Spec`
implies `[]TypeOK`, `[]NoLeakBetweenLocks`, `[]EmergencyIsTheLastResort`,
`[]LeftoverGreeterIsDoomed` and `OnlyGraceKillAbandons`. The inductive invariant
`IInv` is the conjunction of the first four, none of which is inductive alone:
that a leftover greeter is doomed needs to know that an unlocked daemon is in
no grace time, and the emergency window's condition needs the range of the
crash counter. A lemma says what `Lock` does to `IInv`, since eight actions call
it; then there is one step per action.

`KsldRefinement` proves, assuming that no program fails to be executed
(`"noexec" \notin StartFaults`), that a request of logind belongs to the current
lock (`LogindExitCorrect`) and that `Spec` implements `ScreenLock`
(`ImplementsScreenLock`). `RInv` adds to `IInv` that such a request has a running
greeter to wait for, and that a daemon that is not initialized is not locked.
The assumption is needed: without it `errorOccurred` ends the lock by
`doUnlock()` and leaves `s_logindExit` set, and the first crash of the next
lock's greeter is taken for the exit that logind asked for.

`LockWindowsProofs` proves `[]TypeOK`, `[]ViewsAgree` and
`[]EveryScreenIsCovered` for every finite set of screens, every set of geometries
and every `MaxPosted` above zero; what is covered are the screens that had a geometry
when their view was due, and under the emergency window all that have one. Beside these
three the inductive invariant has
`ProcessesStartAfresh`: what a process has not begun it has not changed. Without
it a greeter could inherit views, or the emergency window a geometry. That the
views agree rests on the part that says that a grace timer runs only where neither
option has decided otherwise; that every screen is covered, on the part that says
that the emergency window listens to each screen that is there.

`AutoLockProofs` proves `[]TypeOK`, `[]RequestsAreCounted`, `[]TimeoutIsRightful`
and `OnlyServiceLossDisarms` for any clients, any settings with a natural timeout
and any bounds on cookies and messages. The invariant adds `OneAnswerToCome`: of an
inhibitor there is one call or one answer under way at most, and only while it waits
for it. Without it an answer could bring back an inhibitor that has been released.
`CookiesAreFresh` says that a cookie is given out once, which makes the size of the
list in `Interface` follow the counter in `KSldApp`. A second invariant,
`DepartureIsSeen`, says of each client that is not
on the bus that the daemon is to hear of it after its last call, or does not watch it, or
missed it. `TimerSteps` names the handlers that touch the timeout, and the action property
is read off it.

`SessionServicesProofs` proves `[]TypeOK`, `[]CounterIsCalls`,
`[]ShortcutsAreThisLocks` and `[]HintIsRight` for any components with a finite
whitelist, and whichever services are there and restart. Its two
halves are invariants of their own. `AccelIInv` adds `FetchIsOfThisLock`: while a
fetch of this lock is under way, every active component has its shortcuts already,
or a call that leads to them. `LogindIInv` says what all the calls under way will
make of the hint when they have been taken in turn (`HintIsToBeRight`), as the hint
itself may be behind until then. It needs to know which service the daemon believes
in while messages of an old one are still there (`ServiceIsKnown`, `ServiceIsLogind`)
and that a service's leaving is heard (`LeavingIsHeard`). `AllNotified` says of the one
or two calls of `lock()` and `doUnlock()` that the last one decides. That is also what
makes a failed lock's hint wrong: the theorem says that the hint is what was announced
last, which is then not what has happened. Of a lock that finds an earlier fetch under
way `ShortcutsAreThisLocks` says nothing.

`PamAuthenticatorProofs` proves `[]TypeOK` and the five invariants of the `pam` run
for every limit of failures, calls and delays, and for a user interface that answers
at once as for one that does not. A call's answer, a prompt and a delay change places
between two queues and a process, so that most parts of the invariant are equations
between what queues hold; `QueueTheorems` gives the values of these counts before and
after each step. `BrokenServiceIsLeftAlone` is not inductive: `FailuresCounted` says
that a service that is available has not passed the limit, and that one that is not
fails only for calls it already has. `DelaysBounded` bounds the delays that have been
announced with those that were started.

`PamAuthenticatorsProofs` takes that invariant for both instances, in any state that a
composed step reaches: `ActiveSteps` and `ReaderSteps` say that each operation of the
composed module is the operation of one authenticator. It proves `[]TypeOK`,
`[]OnlyConsentUnlocks`, `[]OneUsesTheDevice` and `DefunctIsNotTried` for any set of
authenticators that has the password's and the fingerprint reader's. `ConsentIsKept`
links a success in hand to the consent that the greeter has had, a dead worker stays
dead until its authenticator is made anew (`DeadStaysDead`), and only `tryUnlock()`
makes calls (`OnlyTryUnlockCalls`).

Only `KsldRefinement` assumes anything of a constant beyond its type. Every invariant
and every action property of the passing runs is a theorem, and so is the refinement.
What stays with TLC is liveness under fairness, which is out of the prover's reach (as
is ENABLED): `ForcedUnlockCompletes`, `CrashIsResolved`, `PromptAppears` and
`RelocksAfterRestart` of `Ksld`, `ReleaseReachesService` and `PowerInhibitionFollows`
of `AutoLock`, `PromptIsAnswered` and `BusyEnds` of `PamAuthenticator`, `Reconnects` and
`FetchEnds` of `SessionServices`, `PromptOnEveryScreen` and `TypingReachesEveryView` of
`LockWindows`. No recursive operator is used.

## 6. Findings

1. `ksld_abandoned`: activity in the grace time terminates the greeter without
   waiting for it; a new lock before its exit is handled starts none, and the
   exit is swallowed. The screen is locked with neither greeter nor emergency
   window (`ksldapp.cpp:464`).
2. `ksld_group`: a request to lock such a screen calls `kill(0, SIGUSR1)`
   (`ksldapp.cpp:328`).
3. `autolock_disarmed`: when the power service leaves the bus while it inhibits,
   the idle timeout is not added again (`powermanagement_inhibition.cpp:32`).
4. `pam_respond`: the answer that the fallback theme gives within the signal of
   a prompt is lost (`greeter/pamauthenticator.cpp:264`).
5. `auth_enabled`: a saved authenticator that has been disabled since is used,
   and the greeter dereferences a null pointer (`greeter/pamauthenticators.cpp:91`).

More is reachable in the models, without a run of its own. The first four are what the
properties named there except, and nothing else:

* an inhibition whose client left the bus before its `Inhibit` was handled is never
  dropped, although `interface.h:90` promises its end with the client's
  (`interface.cpp:159`, `missed` in `RequestsAreCounted`);
* when `fork` fails, `lock()` unlocks from within and then tells logind that the screen is
  locked (`ksldapp.cpp:349`, `failed` in `HintIsRight`; `FailToLock` in `Ksld`);
* when ConsoleKit's reply is handled after logind has registered, the daemon keeps
  ConsoleKit's session path for logind's service and `setLocked()` goes to an object that
  does not exist (`logind.cpp:127` and `134`, `InTouch` in `HintIsRight`), although
  `logind.cpp:103` does not want ConsoleKit beside logind. The two on one system are rare;
* a lock that comes while the fetch of an earlier lock is under way fetches nothing, and is
  left with some of that fetch's shortcuts or with none; they may be of a component that is
  not active any more, although `globalaccel.h:70` says that such a lock is safe
  (`globalaccel.cpp:50`, `"raced"` in `ShortcutsAreThisLocks`);
* a request of logind that outlives its lock (section 5);
* a request of logind to unlock that is forgotten, since the exit that it waits for is
  one that `s_graceTimeKill` has declared expected (`ksldapp.cpp:176`);
* the password's authenticator becomes unavailable after four quick failures
  although `greeter/pamauthenticatordescriptor.h:51` says that it may not become
  dysfunctional (`greeter/pamauthenticator.cpp:122`);
* success of the implicit fingerprint reader saves the interactive authenticator,
  although the comment at `greeter/pamauthenticators.cpp:67` says that only one that
  unlocked ought to be saved;
* `GetSession` that logind answers with an error is not repeated while that logind
  stays, so the daemon hears nothing of it (`logind.cpp:130`), and an error of
  `isLocked()` leaves a hint unread and the session of a crashed daemon unlocked
  (`logind.cpp:209`);
* a screen without a geometry when it is added, or when the greeter starts, never gets a
  view, although it may have a geometry later (`greeter/greeterapp.cpp:278`); no document
  says otherwise;
* the queued `onAuthenticatorChanged()` may end the authenticators' grace lock before the
  grace timer does (`greeter/pamauthenticators.cpp:253`);
* the handler of a view's first frame uses the view after a removed screen has
  deleted it (`greeter/greeterapp.cpp:418`).

One more document disagrees with the code, without an effect: the description of
`Authenticate` in `greeter/worker/org.kde.plasma.screenlocker.worker.xml:15` gives 0 for
success and 1 for failure, while both sides use `Result` of `greeter/worker/result.h`,
which the model follows.

## 7. What is not modelled

* User interface: wallpapers, the clipboard, the on-screen display, switching the
  display off, the text of the emergency window, testing mode, QML. Of themes only
  how they answer a prompt, that they may fail to load, and the properties that the
  greeter writes. When the screen whose view has the focus is removed, nobody calls
  `getFocus()`; what the window system makes of that is not in this repository.
* The kcm and the settings classes: a settings page over generated code. What
  reaches the daemon is `Interface::configure()`, an action of `Ksld` and `AutoLock`.
* `GlobalAccel::keyEvent()`, which changes no state: it looks a key up in the
  shortcuts that are known. `LogindIntegration::inhibit()` and `uninhibit()`, which
  only a test calls. The network access guard, a filter without state.
* Code that cannot run or has no effect: `cleanUp()`, which nothing calls;
  `lockProcessRequestedUnlock()`, since no greeter prints "Unlocked"; the test
  of `isLocked()` at the end of `initialize()`, before logind can have answered;
  the worker's guard `m_inAuthenticate`, as no call is taken in the middle of
  another.
* D-Bus errors of `Interface` for the case that a lock fails, and KAuthorized
  restrictions: the action is simply not taken.
* Cookies of the power service: a released cookie of an old instance of it may
  be somebody else's in the next.
* Info and error messages, and the texts and echo of prompts.
* `PromptAppears` leaves out a greeter that was started with `--nolock` when
  `requirePassword` is turned on later and nothing signals it: it stays blank,
  which is what the code does.
* `CrashIsResolved` and `PromptAppears` leave out the exits that `s_graceTimeKill` has
  declared expected, and the locks that come of them: that is finding 1.
* `HintIsRight` is about a daemon that is in touch with logind, and leaves ConsoleKit's
  path at logind's service out (section 6). `Reconnects` is about a system without
  ConsoleKit and a logind whose last answer was not an error.
* `Ksld` lets the idle timeout be reached at any time; that it does not run
  while it is inhibited is `TimeoutIsRightful` of `AutoLock`.
