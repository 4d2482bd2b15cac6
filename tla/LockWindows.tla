----------------------------- MODULE LockWindows ------------------------------
(***************************************************************************)
(* What covers the screens while the session is locked: a view of the      *)
(* greeter for each screen, class UnlockApp of src/greeter/greeterapp.cpp  *)
(* as src/greeter/main.cpp starts it, and, when greeters have crashed too  *)
(* often, the emergency window of src/emergencywindow.cpp.  Screens come,  *)
(* go and change their geometry at any time.  When the daemon starts a     *)
(* greeter, and when it gives up, is the subject of module Ksld.           *)
(*                                                                         *)
(* The greeter has one event loop, so that each handler is one step; what  *)
(* is queued for it is `posted'.  A screen may have no geometry, for a     *)
(* while or as the one that Qt puts in the place of the last screen.  Left *)
(* out: testing mode, the wallpaper, and what the engine is told that does *)
(* not change.                                                             *)
(***************************************************************************)
EXTENDS Naturals, Sequences, FiniteSets

CONSTANTS
  Screens,       \* the screens there can be
  Geometries,    \* the geometries a screen can have
  NullGeometry,  \* the geometry of a screen that has none
  MaxPosted      \* bound: events in the queue when a screen is added

ASSUME WindowsAssumption ==
  /\ IsFiniteSet(Screens) /\ MaxPosted \in Nat \ {0}
  /\ NullGeometry \notin Geometries

AllGeometries == Geometries \cup {NullGeometry}

VARIABLES
  geometry,          \* the geometry of each screen that is present
  phase,             \* what shows: "nothing", "greeter" or "emergency"
  immediateLock,     \* m_immediateLock
  noLock,            \* m_noLock
  delayedLockTimer,  \* m_delayedLockTimer exists
  graceLocked,       \* the authenticators are locked for the grace time
  fallback,          \* m_mainQmlPath is the fallback theme
  views,             \* m_views: the view for each screen that has one
  skipped,           \* screens that had no geometry when a view was due
  focus,             \* the views that the last getFocus() has activated
  posted,            \* queued invocations, the next one first
  covered,           \* emergency window: the geometries it was united from
  watched            \* emergency window: screens whose geometryChanged it hears

options == <<immediateLock, noLock, fallback>>
grace   == <<delayedLockTimer, graceLocked>>
greeter == <<options, grace, views, skipped, focus, posted>>
window  == <<covered, watched>>
vars    == <<geometry, phase, greeter, window>>

Present == DOMAIN geometry
Viewed  == DOMAIN views

ViewSet ==
  [geometry: AllGeometries,
   locked: BOOLEAN,   \* the property of the theme that shows its prompt
   visible: BOOLEAN,  \* its property viewVisible
   swapped: BOOLEAN,  \* the first frame has been shown
   grabbed: BOOLEAN,  \* setKeyboardGrabEnabled(true)
   active: BOOLEAN]   \* ActiveScreenMonitor::m_active of its theme

Event(name, of) == [event |-> name, of |-> of]
AuthenticatorChanged == Event("authenticatorChanged", {})
Mark(screens)        == Event("mark", screens)
GetFocus             == Event("getFocus", {})

Some(S, T) == UNION {[R -> T] : R \in SUBSET S}

TypeOK ==
  /\ geometry \in Some(Screens, AllGeometries)
  /\ phase \in {"nothing", "greeter", "emergency"}
  /\ {immediateLock, noLock, delayedLockTimer, graceLocked, fallback} \subseteq BOOLEAN
  /\ Viewed \subseteq Screens /\ \A s \in Viewed : views[s] \in ViewSet
  /\ skipped \subseteq Screens /\ focus \subseteq Viewed
  /\ posted \in Seq([event: {"authenticatorChanged", "mark", "getFocus"},
                     of: SUBSET Viewed])
  /\ covered \subseteq Screens \X Geometries /\ watched \subseteq Screens

NoGreeter ==
  /\ immediateLock' = FALSE /\ noLock' = FALSE /\ fallback' = FALSE
  /\ delayedLockTimer' = FALSE /\ graceLocked' = FALSE
  /\ views' = <<>> /\ skipped' = {} /\ focus' = {} /\ posted' = <<>>

Init ==
  /\ geometry \in Some(Screens, AllGeometries)
  /\ phase = "nothing"
  /\ immediateLock = FALSE /\ noLock = FALSE /\ fallback = FALSE
  /\ delayedLockTimer = FALSE /\ graceLocked = FALSE
  /\ views = <<>> /\ skipped = {} /\ focus = {} /\ posted = <<>>
  /\ covered = {} /\ watched = {}

-----------------------------------------------------------------------------
(* The greeter: start, views and the lock interface.                       *)

(* Mutant: a new view goes by --immediateLock and SIGUSR1 alone.           *)
ShowsLockAtOnce(immediate, no, timer) == immediate

(* What createViewForScreen() makes of the property locked.                *)
ShowsLock(immediate, no, timer) == immediate \/ (~no /\ ~timer)

(* createViewForScreen().                                                  *)
NewView(g, locked) ==
  [geometry |-> g, locked |-> locked, visible |-> FALSE, swapped |-> FALSE,
   grabbed |-> FALSE, active |-> FALSE]

(* The theme is the shell's until it fails to load, and the fallback from  *)
(* then on; if that fails as well the process ends (GreeterEnds).          *)
LoadsTheme == fallback' \in {fallback, TRUE}

(* setGraceTime(), which main() calls after setImmediateLock() and         *)
(* setNoLock(): without --graceTime the time is 0, and a timer still runs. *)
SetGraceTime ==
  /\ delayedLockTimer' = (~noLock' /\ ~immediateLock')
  /\ graceLocked' = delayedLockTimer'

(* main(), up to its event loop, with the arguments of startLockProcess(). *)
(* The constructor has queued onAuthenticatorChanged(), and                *)
(* initialViewSetup() makes a view for each screen that has a geometry.    *)
StartGreeter ==
  /\ phase = "nothing"
  /\ phase' = "greeter"
  /\ immediateLock' \in BOOLEAN /\ noLock' \in BOOLEAN
  /\ SetGraceTime
  /\ skipped' = {s \in Present : geometry[s] = NullGeometry}
  /\ views' = [s \in Present \ skipped' |->
       NewView(geometry[s], ShowsLock(immediateLock', noLock', delayedLockTimer'))]
  /\ IF Present \ skipped' = {} THEN UNCHANGED fallback ELSE LoadsTheme
  /\ posted' = <<AuthenticatorChanged>>
  /\ UNCHANGED <<geometry, focus, window>>

(* The first frame of a view has been shown: queued from the thread that   *)
(* renders, once.                                                          *)
FrameSwapped(s) ==
  /\ s \in Viewed /\ ~views[s].swapped
  /\ views' = [views EXCEPT ![s].swapped = TRUE]
  /\ posted' = Append(posted, Mark({s}))
  /\ UNCHANGED <<geometry, phase, options, grace, skipped, focus, window>>

NextPosted(event) == posted # <<>> /\ Head(posted).event = event

(* PamAuthenticators::onAuthenticatorChanged(), of which module            *)
(* PamAuthenticators has the rest.                                         *)
AuthenticatorChanges ==
  /\ NextPosted("authenticatorChanged")
  /\ posted' = Tail(posted)
  /\ graceLocked' = FALSE
  /\ UNCHANGED <<geometry, phase, options, delayedLockTimer, views, skipped, focus, window>>

(* markViewsAsVisible().                                                   *)
MarkViewsAsVisible ==
  /\ NextPosted("mark") /\ Head(posted).of # {}
  /\ posted' = Append(Tail(posted), GetFocus)
  /\ views' = [s \in Viewed |->
       [views[s] EXCEPT !.visible = @ \/ s \in Head(posted).of]]
  /\ UNCHANGED <<geometry, phase, options, grace, skipped, focus, window>>

(* The same for a view that has been deleted since: the slot goes on with  *)
(* a dangling pointer, which ends the process or does not.                 *)
MarkDeletedView ==
  /\ NextPosted("mark") /\ Head(posted).of = {}
  /\ \/ /\ posted' = Append(Tail(posted), GetFocus)
        /\ UNCHANGED <<phase, options, grace, views, skipped, focus>>
     \/ phase' = "nothing" /\ NoGreeter
  /\ UNCHANGED <<geometry, window>>

(* Mutant: only the view that is activated takes the keyboard.             *)
GrabsOnlyActive ==
  /\ NextPosted("getFocus")
  /\ posted' = Tail(posted)
  /\ \E s \in Viewed :
       focus' = {s} /\ views' = [views EXCEPT ![s].grabbed = TRUE]
  /\ UNCHANGED <<geometry, phase, options, grace, skipped, window>>

(* getActiveScreen(): the view under the cursor, or the first if there is  *)
(* none; the cursor may be anywhere.                                       *)
ActiveScreens == {{s} : s \in Viewed}

(* getFocus(): all views grab the keyboard and one is activated.           *)
GetsFocus ==
  /\ NextPosted("getFocus")
  /\ posted' = Tail(posted)
  /\ views' = [s \in Viewed |-> [views[s] EXCEPT !.grabbed = TRUE]]
  /\ IF Viewed = {} THEN UNCHANGED focus
     ELSE focus' \in ActiveScreens
  /\ UNCHANGED <<geometry, phase, options, grace, skipped, window>>

Posted ==
  AuthenticatorChanges \/ MarkViewsAsVisible \/ MarkDeletedView \/ GetsFocus

(* graceLockEnded().                                                       *)
GraceLockEnded ==
  /\ graceLocked' = FALSE /\ delayedLockTimer' = FALSE
  /\ views' = [s \in Viewed |-> [views[s] EXCEPT !.locked = TRUE]]

GraceTimeout ==
  /\ delayedLockTimer
  /\ GraceLockEnded
  /\ UNCHANGED <<geometry, phase, options, skipped, focus, posted, window>>

(* Mutant: the views are locked, the option is left as it is.              *)
LockViewsOnly ==
  /\ phase = "greeter"
  /\ GraceLockEnded
  /\ UNCHANGED <<geometry, phase, options, skipped, focus, posted, window>>

(* SIGUSR1: lockImmediately().                                             *)
LockImmediately ==
  /\ phase = "greeter"
  /\ immediateLock' = TRUE
  /\ GraceLockEnded
  /\ UNCHANGED <<geometry, phase, noLock, fallback, skipped, focus, posted, window>>

(* The pointer enters a view: eventFilter() emits viewEntered() to the     *)
(* ActiveScreenMonitor of every view, onScreenChange().                    *)
ViewEntered(s) ==
  /\ s \in Viewed
  /\ views' = [t \in Viewed |-> [views[t] EXCEPT !.active = (t = s)]]
  /\ UNCHANGED <<geometry, phase, options, grace, skipped, focus, posted, window>>

(* The greeter exits after SIGTERM or a success, or crashes.               *)
GreeterEnds ==
  /\ phase = "greeter"
  /\ phase' = "nothing"
  /\ NoGreeter
  /\ UNCHANGED <<geometry, window>>

-----------------------------------------------------------------------------
(* The emergency window.                                                   *)

(* updateGeometry(), given the geometries that screens have now: united()  *)
(* with a null rectangle adds nothing.                                     *)
United(geometries) ==
  {pair \in Screens \X Geometries :
     pair[1] \in DOMAIN geometries /\ pair[2] = geometries[pair[1]]}

ShowEmergency ==
  /\ phase = "nothing"
  /\ phase' = "emergency"
  /\ covered' = United(geometry) /\ watched' = Present
  /\ UNCHANGED <<geometry, greeter>>

EmergencyEnds ==
  /\ phase = "emergency"
  /\ phase' = "nothing"
  /\ covered' = {} /\ watched' = {}
  /\ UNCHANGED <<geometry, greeter>>

-----------------------------------------------------------------------------
(* The screens.  Qt has updated its list when it emits a signal.           *)

With(f, s, x) == [t \in DOMAIN f \cup {s} |-> IF t = s THEN x ELSE f[t]]
Without(f, s) == [t \in DOMAIN f \ {s} |-> f[t]]

(* The greeter's handleScreen(): without a geometry, the screen gets no    *)
(* view, nor does it later, as nothing waits for its geometry to change.   *)
HandleScreen(s, g) ==
  /\ IF g = NullGeometry
     THEN skipped' = skipped \cup {s} /\ UNCHANGED <<fallback, views>>
     ELSE /\ LoadsTheme
          /\ views' = With(views, s,
               NewView(g, ShowsLock(immediateLock, noLock, delayedLockTimer)))
          /\ UNCHANGED skipped
  /\ UNCHANGED <<immediateLock, noLock, grace, focus, posted, window>>

(* Mutant: the new screen is not connected.                                *)
EmergencyUpdates(s, g) ==
  covered' = United(With(geometry, s, g)) /\ UNCHANGED <<greeter, watched>>

EmergencyScreenAdded(s, g) ==
  /\ covered' = United(With(geometry, s, g))
  /\ watched' = watched \cup {s}
  /\ UNCHANGED greeter

ScreenAdded(s, g) ==
  /\ s \notin Present
  /\ Len(posted) < MaxPosted
  /\ geometry' = With(geometry, s, g)
  /\ \/ phase = "nothing" /\ UNCHANGED <<greeter, window>>
     \/ phase = "greeter" /\ HandleScreen(s, g)
     \/ phase = "emergency" /\ EmergencyScreenAdded(s, g)
  /\ UNCHANGED phase

(* Mutant: the view is still held to be the activated one.                 *)
DeleteViewOnly(s) ==
  /\ views' = Without(views, s)
  /\ skipped' = skipped \ {s}
  /\ posted' = [i \in DOMAIN posted |-> [posted[i] EXCEPT !.of = @ \ {s}]]
  /\ UNCHANGED <<options, grace, focus, window>>

(* The view is deleted; what is queued for it stays, but for nothing.      *)
DeleteView(s) ==
  /\ views' = Without(views, s)
  /\ skipped' = skipped \ {s}
  /\ focus' = focus \ {s}
  /\ posted' = [i \in DOMAIN posted |-> [posted[i] EXCEPT !.of = @ \ {s}]]
  /\ UNCHANGED <<options, grace, window>>

ScreenRemoved(s) ==
  /\ s \in Present
  /\ geometry' = Without(geometry, s)
  /\ \/ phase = "nothing" /\ UNCHANGED <<greeter, window>>
     \/ phase = "greeter" /\ DeleteView(s)
     \/ /\ phase = "emergency"
        /\ covered' = United(Without(geometry, s)) /\ watched' = watched \ {s}
        /\ UNCHANGED greeter
  /\ UNCHANGED phase

GeometryChanged(s, g) ==
  /\ s \in Present /\ geometry[s] # g
  /\ geometry' = With(geometry, s, g)
  /\ views' = IF s \in Viewed THEN [views EXCEPT ![s].geometry = g] ELSE views
  /\ covered' = IF s \in watched THEN United(geometry') ELSE covered
  /\ UNCHANGED <<phase, options, grace, skipped, focus, posted, watched>>

-----------------------------------------------------------------------------
ScreenEvent ==
  \E s \in Screens :
    \/ ScreenRemoved(s)
    \/ \E g \in AllGeometries : ScreenAdded(s, g) \/ GeometryChanged(s, g)

Next ==
  \/ StartGreeter \/ GreeterEnds \/ ShowEmergency \/ EmergencyEnds
  \/ Posted \/ GraceTimeout \/ LockImmediately \/ ScreenEvent
  \/ \E s \in Screens : FrameSwapped(s) \/ ViewEntered(s)

Spec == Init /\ [][Next]_vars

(* The event loop runs, its timers fire, and the window system shows the   *)
(* frames of a view.                                                       *)
Fairness ==
  /\ WF_vars(Posted) /\ WF_vars(GraceTimeout)
  /\ \A s \in Screens : WF_vars(FrameSwapped(s))

FairSpec == Spec /\ Fairness

-----------------------------------------------------------------------------
(* Properties.                                                             *)

(* All views show the lock interface or none does, on whatever screen and  *)
(* however late: --nolock hides it until SIGUSR1 comes, a grace time until *)
(* it ends.  While the authenticators are locked for the grace time, there *)
(* is a timer left to end it.  And the views agree which of them is on the *)
(* active screen, so that one at most shows what themes keep for it.       *)
ViewsAgree ==
  /\ \A s \in Viewed :
       views[s].locked = (immediateLock \/ (~noLock /\ ~delayedLockTimer))
  /\ graceLocked => delayedLockTimer
  /\ \A s, t \in Viewed : views[s].active /\ views[t].active => s = t

(* The screens that were without a geometry when the greeter started, or   *)
(* when they were added later, and have no view, whatever geometry they    *)
(* have got since, are these and no others.                                *)
Coverable == Present \ skipped

(* No other screen shows what is behind the lock: each has a view of the   *)
(* greeter of its very geometry, also if it was added after the lock and   *)
(* has changed its geometry since.  The emergency window covers every      *)
(* screen that has a geometry, whenever it got it.                         *)
EveryScreenIsCovered ==
  /\ phase = "greeter" => /\ Viewed = Coverable
                          /\ \A s \in Viewed : views[s].geometry = geometry[s]
  /\ phase = "emergency" =>
       covered = {<<s, geometry[s]>> : s \in {t \in Present : geometry[t] # NullGeometry}}

(* A greeter that stays comes to show its lock interface on every screen   *)
(* that has a view coming, and to let the user unlock there, unless it was *)
(* told not to and has not been told otherwise: no such screen is left     *)
(* blank by having been plugged in before, during or after the grace time. *)
PromptOnEveryScreen ==
  <>[](phase = "greeter" /\ (noLock => immediateLock))
    => <>[](~graceLocked /\ \A s \in Coverable : s \in Viewed /\ views[s].locked)

(* "type something into the box of every greeter": the view of a screen    *)
(* that stays comes to be visible and to take the keyboard, whatever other *)
(* screens come and go.                                                    *)
TypingReachesEveryView ==
  \A s \in Screens :
    <>[](phase = "greeter" /\ s \in Coverable)
      => <>[](s \in Viewed /\ views[s].visible /\ views[s].grabbed)
=============================================================================
