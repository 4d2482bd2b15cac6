-------------------------- MODULE LockWindowsProofs --------------------------
(***************************************************************************)
(* Proofs about LockWindows, for every set of screens and of geometries    *)
(* and however many events are queued.                                     *)
(***************************************************************************)
EXTENDS LockWindows, QueueTheorems, TLAPS

(* A process that has ended leaves nothing of its state to the next one,   *)
(* and the emergency window hears every screen there is.  A timer for the  *)
(* grace time is only there where neither option has decided otherwise,    *)
(* and a screen that was passed over is one that is there.                 *)
ProcessesStartAfresh ==
  /\ phase # "greeter" =>
       /\ Viewed = {} /\ skipped = {} /\ focus = {} /\ posted = <<>>
       /\ ~immediateLock /\ ~noLock /\ ~delayedLockTimer /\ ~graceLocked
  /\ phase = "emergency" => watched = Present
  /\ phase # "emergency" => covered = {} /\ watched = {}
  /\ delayedLockTimer => ~immediateLock /\ ~noLock
  /\ skipped \subseteq Present

(* The inductive invariant.  That the views agree on showing the lock      *)
(* needs that the timer runs for views that hide it alone; that a changed  *)
(* geometry is united again needs that the window listens to each screen.  *)
IInv ==
  /\ TypeOK
  /\ ProcessesStartAfresh
  /\ ViewsAgree
  /\ EveryScreenIsCovered

EventSet(screens) ==
  [event: {"authenticatorChanged", "mark", "getFocus"}, of: SUBSET screens]

-----------------------------------------------------------------------------
(* The operators the actions are built from.                               *)

(* Adding, changing and removing a screen leave a geometry for each one.   *)
LEMMA GeometryValues ==
  ASSUME NEW f \in Some(Screens, AllGeometries), NEW s \in Screens, NEW g \in AllGeometries
  PROVE  /\ With(f, s, g) \in Some(Screens, AllGeometries)
         /\ Without(f, s) \in Some(Screens, AllGeometries)
  <1>1. PICK R \in SUBSET Screens : f \in [R -> AllGeometries]
    BY DEF Some
  <1>2. /\ With(f, s, g) \in [R \cup {s} -> AllGeometries]
        /\ Without(f, s) \in [R \ {s} -> AllGeometries]
    BY <1>1 DEF With, Without
  <1>3. R \cup {s} \in SUBSET Screens /\ R \ {s} \in SUBSET Screens
    OBVIOUS
  <1>4. QED
    BY <1>1, <1>2, <1>3 DEF Some

(* The screens that have a geometry are screens.                           *)
LEMMA GeometryTypes ==
  ASSUME NEW f \in Some(Screens, AllGeometries)
  PROVE  DOMAIN f \subseteq Screens /\ \A t \in DOMAIN f : f[t] \in AllGeometries
  BY DEF Some

(* What is united are the screens that have a geometry, each with its own. *)
LEMMA UnitedValue ==
  ASSUME NEW f \in Some(Screens, AllGeometries)
  PROVE  /\ United(f) \subseteq Screens \X Geometries
         /\ United(f) = {<<s, f[s]>> : s \in {t \in DOMAIN f : f[t] # NullGeometry}}
  <1>1. \A t \in DOMAIN f : f[t] # NullGeometry <=> f[t] \in Geometries
    BY GeometryTypes, WindowsAssumption DEF AllGeometries
  <1>2. DOMAIN f \subseteq Screens
    BY GeometryTypes
  <1>3. QED
    BY <1>1, <1>2 DEF United

(* What is queued stays an event when there are more views.                *)
LEMMA QueueGrows ==
  ASSUME NEW V, NEW W, V \subseteq W, NEW q \in Seq(EventSet(V))
  PROVE  q \in Seq(EventSet(W))
  BY SeqMonotonic DEF EventSet

(* What is queued for a view that is deleted stays an event for no view.   *)
LEMMA QueueCut ==
  ASSUME NEW V, NEW s, NEW q \in Seq(EventSet(V))
  PROVE  [i \in DOMAIN q |-> [q[i] EXCEPT !.of = @ \ {s}]] \in Seq(EventSet(V \ {s}))
  <1> DEFINE Cut(i) == [q[i] EXCEPT !.of = @ \ {s}]
  <1>1. DOMAIN q = 1..Len(q) /\ Len(q) \in Nat
    BY LenProperties
  <1>2. \A i \in 1..Len(q) : q[i] \in EventSet(V)
    BY ElementOfSeq
  <1>3. \A i \in 1..Len(q) : Cut(i) \in EventSet(V \ {s})
    BY <1>2 DEF EventSet
  <1>4. [i \in 1..Len(q) |-> Cut(i)] \in [1..Len(q) -> EventSet(V \ {s})]
    BY <1>3
  <1>5. QED
    BY <1>1, <1>4, FunctionIsSequence

(* Taking the next event and queueing one more.                            *)
LEMMA QueueSteps ==
  ASSUME NEW V, NEW q \in Seq(EventSet(V)), NEW e \in EventSet(V)
  PROVE  /\ Append(q, e) \in Seq(EventSet(V))
         /\ q # <<>> => /\ Tail(q) \in Seq(EventSet(V))
                        /\ Append(Tail(q), e) \in Seq(EventSet(V))
  BY AppendProperties, HeadTailProperties

-----------------------------------------------------------------------------
(* Every step preserves the invariant.                                     *)

(* No view, no event and no option: what is left when the greeter is gone. *)
LEMMA NoView ==
  /\ DOMAIN <<>> = {}
  /\ <<>> \in Seq(EventSet(DOMAIN <<>>))
  BY EmptySeq

(* Before the session is locked nothing shows.                             *)
LEMMA InitIInv == Init => IInv
  BY NoView, Zenon
  DEF Init, IInv, TypeOK, ProcessesStartAfresh, ViewsAgree, EveryScreenIsCovered, Viewed,
      EventSet

(* The end of a greeter, and of the emergency window.                      *)
LEMMA EndsPreserve == ASSUME IInv, GreeterEnds \/ EmergencyEnds PROVE IInv'
  <1>1. CASE GreeterEnds
    <2>1. Viewed' = {} /\ posted' \in Seq(EventSet(Viewed'))
      BY <1>1, NoView DEF GreeterEnds, NoGreeter, Viewed
    <2>2. TypeOK'
      BY <1>1, <2>1 DEF GreeterEnds, NoGreeter, IInv, TypeOK, window, EventSet
    <2>3. QED
      BY <1>1, <2>1, <2>2
      DEF GreeterEnds, NoGreeter, IInv, window, ProcessesStartAfresh, ViewsAgree,
          EveryScreenIsCovered
  <1>2. CASE EmergencyEnds
    <2>1. Viewed' = Viewed
      BY <1>2 DEF EmergencyEnds, greeter, Viewed
    <2>2. QED
      BY <1>2, <2>1
      DEF EmergencyEnds, greeter, options, grace, IInv, TypeOK, ProcessesStartAfresh,
          ViewsAgree, EveryScreenIsCovered
  <1>3. QED
    BY <1>1, <1>2

(* A greeter that starts finds no view, and makes one for each screen that *)
(* has a geometry.                                                         *)
LEMMA StartPreserves == ASSUME IInv, StartGreeter PROVE IInv'
  <1> USE DEF StartGreeter, window
  <1>1. /\ Viewed' = Present \ skipped' /\ Present' = Present /\ Present \subseteq Screens
        /\ skipped' \subseteq Present
    <2>1. Present \subseteq Screens
      BY DEF IInv, TypeOK, Present, Some
    <2>2. QED
      BY <2>1 DEF Viewed, Present
  <1>2. \A s \in Present : geometry[s] \in AllGeometries
    BY DEF IInv, TypeOK, Present, Some
  <1>3. delayedLockTimer' \in BOOLEAN /\ graceLocked' = delayedLockTimer'
    BY DEF SetGraceTime
  <1>4. \A s \in Viewed' :
          /\ views'[s] \in ViewSet /\ views'[s].geometry = geometry'[s] /\ ~views'[s].active
          /\ views'[s].locked = (immediateLock' \/ (~noLock' /\ ~delayedLockTimer'))
    BY <1>1, <1>2, <1>3 DEF NewView, ShowsLock, ViewSet
  <1>5. posted' \in Seq(EventSet(Viewed'))
    BY AppendProperties, EmptySeq DEF AuthenticatorChanged, Event, EventSet
  <1>6. fallback' \in BOOLEAN
    <2>1. fallback' = fallback \/ fallback' \in {fallback, TRUE}
      BY Zenon DEF LoadsTheme
    <2>2. QED
      BY <2>1, Zenon DEF IInv, TypeOK
  <1>7. TypeOK'
    BY <1>1, <1>3, <1>4, <1>5, <1>6
    DEF IInv, TypeOK, ProcessesStartAfresh, EventSet
  <1>8. QED
    BY <1>1, <1>3, <1>4, <1>7
    DEF IInv, ProcessesStartAfresh, ViewsAgree, EveryScreenIsCovered, SetGraceTime, Coverable

(* A handler that leaves its views on their screens and shows the lock, or *)
(* not, as the options say.                                                *)
LEMMA HandlerPreserves ==
  ASSUME IInv,
         UNCHANGED <<geometry, phase, noLock, fallback, skipped, window>>,
         phase = "greeter",
         immediateLock' \in BOOLEAN, delayedLockTimer' \in BOOLEAN, graceLocked' \in BOOLEAN,
         Viewed' = Viewed,
         \A s \in Viewed : views'[s] \in ViewSet /\ views'[s].geometry = views[s].geometry,
         ViewsAgree',
         delayedLockTimer' => ~immediateLock' /\ ~noLock,
         focus' \subseteq Viewed,
         posted' \in Seq(EventSet(Viewed))
  PROVE  IInv'
  <1>1. TypeOK'
    BY Zenon DEF IInv, TypeOK, window, EventSet
  <1>2. QED
    BY <1>1 DEF IInv, ProcessesStartAfresh, EveryScreenIsCovered, window, Present, Coverable

(* What happens to views and queue in a handler happens to a greeter.      *)
LEMMA GreeterIsThere ==
  ASSUME IInv, Viewed # {} \/ posted # <<>> \/ delayedLockTimer
  PROVE  phase = "greeter"
  BY DEF IInv, ProcessesStartAfresh

(* The first frame, the events it leads to, and the entering pointer.      *)
LEMMA FramePreserves == ASSUME IInv, NEW s \in Screens, FrameSwapped(s) PROVE IInv'
  <1> USE DEF FrameSwapped
  <1>1. phase = "greeter"
    BY GreeterIsThere
  <1>2. posted' \in Seq(EventSet(Viewed))
    <2>1. Mark({s}) \in EventSet(Viewed)
      BY DEF Mark, Event, EventSet
    <2>2. QED
      BY <2>1, AppendProperties DEF IInv, TypeOK, EventSet
  <1>3. Viewed' = Viewed
    BY DEF Viewed
  <1>4. \A t \in Viewed :
          /\ views'[t] \in ViewSet /\ views'[t].geometry = views[t].geometry
          /\ views'[t].locked = views[t].locked /\ views'[t].active = views[t].active
    BY DEF Viewed, IInv, TypeOK, ViewSet
  <1>5. ViewsAgree'
    BY <1>3, <1>4 DEF IInv, ViewsAgree, options, grace
  <1>6. QED
    BY <1>1, <1>2, <1>3, <1>4, <1>5, HandlerPreserves
    DEF options, grace, IInv, TypeOK, ProcessesStartAfresh

(* onAuthenticatorChanged() ends the grace lock of the authenticators.     *)
LEMMA AuthenticatorPreserves == ASSUME IInv, AuthenticatorChanges PROVE IInv'
  <1> USE DEF AuthenticatorChanges, NextPosted
  <1>1. phase = "greeter"
    BY GreeterIsThere
  <1>2. posted' \in Seq(EventSet(Viewed))
    BY HeadTailProperties DEF IInv, TypeOK, EventSet
  <1>3. Viewed' = Viewed
    BY DEF Viewed
  <1>4. ViewsAgree'
    BY <1>3 DEF IInv, ViewsAgree, options
  <1>5. QED
    BY <1>1, <1>2, <1>3, <1>4, HandlerPreserves
    DEF options, IInv, TypeOK, ProcessesStartAfresh

(* markViewsAsVisible() changes nothing of a view but that it is visible.  *)
LEMMA MarkPreserves == ASSUME IInv, MarkViewsAsVisible PROVE IInv'
  <1> USE DEF MarkViewsAsVisible, NextPosted
  <1>1. phase = "greeter"
    BY GreeterIsThere
  <1>2. posted' \in Seq(EventSet(Viewed))
    <2>1. GetFocus \in EventSet(Viewed)
      BY DEF GetFocus, Event, EventSet
    <2>2. QED
      BY <2>1, QueueSteps DEF IInv, TypeOK, EventSet
  <1>3. Viewed' = Viewed
    BY DEF Viewed
  <1>4. \A t \in Viewed :
          /\ views'[t] \in ViewSet /\ views'[t].geometry = views[t].geometry
          /\ views'[t].locked = views[t].locked /\ views'[t].active = views[t].active
    BY DEF IInv, TypeOK, ViewSet
  <1>5. ViewsAgree'
    BY <1>3, <1>4 DEF IInv, ViewsAgree, options, grace
  <1>6. QED
    BY <1>1, <1>2, <1>3, <1>4, <1>5, HandlerPreserves
    DEF options, grace, IInv, TypeOK, ProcessesStartAfresh

(* The slot that runs for a deleted view may end the process.              *)
LEMMA MarkDeletedPreserves == ASSUME IInv, MarkDeletedView PROVE IInv'
  <1> USE DEF MarkDeletedView, NextPosted
  <1>1. phase = "greeter"
    BY GreeterIsThere
  <1>2. CASE phase' = "nothing" /\ NoGreeter
    BY <1>1, <1>2, EndsPreserve DEF GreeterEnds
  <1>3. CASE posted' = Append(Tail(posted), GetFocus)
             /\ UNCHANGED <<phase, options, grace, views, skipped, focus>>
    <2>1. posted' \in Seq(EventSet(Viewed))
      <3>1. GetFocus \in EventSet(Viewed)
        BY DEF GetFocus, Event, EventSet
      <3>2. QED
        BY <1>3, <3>1, QueueSteps DEF IInv, TypeOK, EventSet
    <2>2. Viewed' = Viewed
      BY <1>3 DEF Viewed
    <2>3. ViewsAgree'
      BY <1>3, <2>2 DEF IInv, ViewsAgree, options, grace
    <2>4. QED
      BY <1>1, <1>3, <2>1, <2>2, <2>3, HandlerPreserves
      DEF options, grace, IInv, TypeOK, ProcessesStartAfresh
  <1>4. QED
    BY <1>2, <1>3

(* getFocus() activates a view that there is.                              *)
LEMMA FocusPreserves == ASSUME IInv, GetsFocus PROVE IInv'
  <1> USE DEF GetsFocus, NextPosted
  <1>1. phase = "greeter"
    BY GreeterIsThere
  <1>2. posted' \in Seq(EventSet(Viewed))
    BY HeadTailProperties DEF IInv, TypeOK, EventSet
  <1>3. Viewed' = Viewed
    BY DEF Viewed
  <1>4. focus' \subseteq Viewed
    BY DEF ActiveScreens, IInv, TypeOK
  <1>5. \A t \in Viewed :
          /\ views'[t] \in ViewSet /\ views'[t].geometry = views[t].geometry
          /\ views'[t].locked = views[t].locked /\ views'[t].active = views[t].active
    BY DEF IInv, TypeOK, ViewSet
  <1>6. ViewsAgree'
    BY <1>3, <1>5 DEF IInv, ViewsAgree, options, grace
  <1>7. QED
    BY <1>1, <1>2, <1>3, <1>4, <1>5, <1>6, HandlerPreserves
    DEF options, grace, IInv, TypeOK, ProcessesStartAfresh

(* Of all views the one the pointer has entered alone is active.           *)
LEMMA EnteredPreserves == ASSUME IInv, NEW s \in Screens, ViewEntered(s) PROVE IInv'
  <1> USE DEF ViewEntered
  <1>1. phase = "greeter"
    BY GreeterIsThere
  <1>2. Viewed' = Viewed
    BY DEF Viewed
  <1>3. \A t \in Viewed :
          /\ views'[t] \in ViewSet /\ views'[t].geometry = views[t].geometry
          /\ views'[t].locked = views[t].locked /\ views'[t].active = (t = s)
    BY DEF IInv, TypeOK, ViewSet
  <1>4. ViewsAgree'
    <2>1. \A t, u \in Viewed' : views'[t].active /\ views'[u].active => t = u
      <3>1. \A t \in Viewed' : views'[t].active => t = s
        BY <1>2, <1>3
      <3>2. QED
        BY <3>1
    <2>2. \A t \in Viewed' :
            views'[t].locked = (immediateLock' \/ (~noLock' /\ ~delayedLockTimer'))
      BY <1>2, <1>3 DEF IInv, ViewsAgree, options, grace
    <2>3. graceLocked' => delayedLockTimer'
      BY DEF IInv, ViewsAgree, grace
    <2>4. QED
      BY <2>1, <2>2, <2>3 DEF ViewsAgree
  <1>5. posted' \in Seq(EventSet(Viewed))
    <2>1. posted' = posted
      OBVIOUS
    <2>2. QED
      BY <2>1, Zenon DEF IInv, TypeOK, EventSet
  <1>6. QED
    BY <1>1, <1>2, <1>3, <1>4, <1>5, HandlerPreserves
    DEF options, grace, IInv, TypeOK, ProcessesStartAfresh

(* The end of the grace time, by its timer or by SIGUSR1, shows the lock   *)
(* on every view; with the timer gone, and without --nolock or in spite of *)
(* it, that is what a later view shows too.                                *)
LEMMA GraceEndPreserves == ASSUME IInv, GraceTimeout \/ LockImmediately PROVE IInv'
  <1>1. phase = "greeter" /\ GraceLockEnded
    BY GreeterIsThere DEF GraceTimeout, LockImmediately
  <1>2. /\ Viewed' = Viewed
        /\ delayedLockTimer' = FALSE /\ graceLocked' = FALSE
        /\ \A t \in Viewed :
             /\ views'[t] \in ViewSet /\ views'[t].geometry = views[t].geometry
             /\ views'[t].locked = TRUE /\ views'[t].active = views[t].active
    BY <1>1 DEF GraceLockEnded, Viewed, IInv, TypeOK, ViewSet
  <1>3. /\ UNCHANGED <<geometry, phase, noLock, fallback, skipped, window>>
        /\ UNCHANGED <<focus, posted>>
        /\ immediateLock' \in BOOLEAN
        /\ immediateLock' = TRUE \/ noLock = FALSE
    BY DEF GraceTimeout, LockImmediately, options, IInv, TypeOK, ProcessesStartAfresh
  <1>4. ViewsAgree'
    BY <1>2, <1>3 DEF IInv, TypeOK, ViewsAgree
  <1>5. QED
    BY <1>1, <1>2, <1>3, <1>4, HandlerPreserves DEF IInv, TypeOK, EventSet

(* The screens.                                                            *)

(* A step that leaves the emergency window united for the screens it has   *)
(* and listening to each, and has no greeter.                              *)
LEMMA EmergencyPreserves ==
  ASSUME IInv, phase # "greeter", phase' = "emergency", UNCHANGED greeter, Viewed = {},
         geometry' \in Some(Screens, AllGeometries),
         covered' = United(geometry'), watched' = Present'
  PROVE  IInv'
  <1>1. Viewed' = Viewed
    BY DEF greeter, Viewed
  <1>2. /\ covered' \subseteq Screens \X Geometries /\ watched' \subseteq Screens
        /\ covered' = {<<s, geometry'[s]>> : s \in {t \in Present' : geometry'[t] # NullGeometry}}
    BY UnitedValue, GeometryTypes DEF Present
  <1>3. TypeOK'
    BY <1>1, <1>2 DEF greeter, options, grace, IInv, TypeOK
  <1>4. QED
    BY <1>1, <1>2, <1>3
    DEF greeter, options, grace, IInv, ProcessesStartAfresh, ViewsAgree, EveryScreenIsCovered

(* The emergency window is shown for the screens there are.                *)
LEMMA ShowEmergencyPreserves == ASSUME IInv, ShowEmergency PROVE IInv'
  BY EmergencyPreserves
  DEF ShowEmergency, Present, IInv, TypeOK, ProcessesStartAfresh

(* It is united again for each screen that comes, goes or changes.         *)
LEMMA EmergencyScreenPreserves ==
  ASSUME IInv, phase = "emergency", NEW s \in Screens, NEW g \in AllGeometries,
         ScreenAdded(s, g) \/ ScreenRemoved(s) \/ GeometryChanged(s, g)
  PROVE  IInv'
  <1>1. /\ geometry \in Some(Screens, AllGeometries) /\ watched = Present
        /\ Viewed = {}
    BY DEF IInv, TypeOK, ProcessesStartAfresh
  <1>2. phase' = "emergency" /\ UNCHANGED greeter
    BY <1>1
    DEF ScreenAdded, EmergencyScreenAdded, ScreenRemoved, GeometryChanged, greeter
  <1>3. geometry' \in Some(Screens, AllGeometries)
    BY <1>1, GeometryValues DEF ScreenAdded, ScreenRemoved, GeometryChanged
  <1>4. covered' = United(geometry') /\ watched' = Present'
    <2>1. CASE ScreenAdded(s, g)
      BY <1>1, <2>1 DEF ScreenAdded, EmergencyScreenAdded, With, Present
    <2>2. CASE ScreenRemoved(s)
      BY <1>1, <2>2 DEF ScreenRemoved, Without, Present
    <2>3. CASE GeometryChanged(s, g)
      BY <1>1, <2>3 DEF GeometryChanged, With, Present
    <2>4. QED
      BY <2>1, <2>2, <2>3
  <1>5. QED
    BY <1>1, <1>2, <1>3, <1>4, EmergencyPreserves

(* Without greeter and emergency window a screen is a screen, no more.     *)
LEMMA NothingShownPreserves ==
  ASSUME IInv, NEW s \in Screens, NEW g \in AllGeometries,
         phase = "nothing", phase' = "nothing",
         ScreenAdded(s, g) \/ ScreenRemoved(s) \/ GeometryChanged(s, g)
  PROVE  IInv'
  <1>1. geometry \in Some(Screens, AllGeometries) /\ Viewed = {} /\ covered = {} /\ watched = {}
    BY DEF IInv, TypeOK, ProcessesStartAfresh
  <1>2. UNCHANGED <<greeter, window>>
    BY <1>1 DEF ScreenAdded, ScreenRemoved, GeometryChanged, greeter, window
  <1>3. geometry' \in Some(Screens, AllGeometries)
    BY <1>1, GeometryValues DEF ScreenAdded, ScreenRemoved, GeometryChanged
  <1>4. Viewed' = Viewed
    BY <1>2 DEF greeter, Viewed
  <1>5. TypeOK'
    BY <1>2, <1>3, <1>4 DEF greeter, options, grace, window, IInv, TypeOK
  <1>6. QED
    BY <1>1, <1>2, <1>4, <1>5
    DEF greeter, options, grace, window, IInv, ProcessesStartAfresh, ViewsAgree,
        EveryScreenIsCovered

(* A view for a screen that is added is made as the others have become, on *)
(* the screen's own geometry and not active.                               *)
LEMMA ViewAddedPreserves ==
  ASSUME IInv, NEW s \in Screens, NEW g \in AllGeometries, phase = "greeter",
         ScreenAdded(s, g), g # NullGeometry
  PROVE  IInv'
  <1>1. HandleScreen(s, g) /\ geometry' = With(geometry, s, g) /\ phase' = "greeter"
    BY DEF ScreenAdded
  <1>2. /\ geometry \in Some(Screens, AllGeometries) /\ Viewed = Present \ skipped
        /\ skipped \subseteq Present /\ s \notin Present
    BY DEF IInv, TypeOK, EveryScreenIsCovered, ScreenAdded, Coverable, ProcessesStartAfresh
  <1>3. /\ Viewed' = Viewed \cup {s} /\ Present' = Present \cup {s} /\ skipped' = skipped
        /\ Viewed' = Coverable'
    <2>1. Viewed' = Viewed \cup {s} /\ Present' = Present \cup {s} /\ skipped' = skipped
      BY <1>1 DEF HandleScreen, With, Viewed, Present
    <2>2. QED
      BY <1>2, <2>1 DEF Coverable
  <1>4. /\ views'[s] = NewView(g, ShowsLock(immediateLock, noLock, delayedLockTimer))
        /\ \A t \in Viewed : views'[t] = views[t]
        /\ geometry'[s] = g /\ \A t \in Viewed : geometry'[t] = geometry[t]
    BY <1>1, <1>2 DEF HandleScreen, With, Viewed, Present
  <1>5. /\ UNCHANGED <<immediateLock, noLock, delayedLockTimer, graceLocked>>
        /\ UNCHANGED <<focus, posted, covered, watched>>
        /\ fallback' \in BOOLEAN
    <2>1. fallback' \in {fallback, TRUE}
      BY <1>1 DEF HandleScreen, LoadsTheme
    <2>2. fallback' \in BOOLEAN
      BY <2>1, Zenon DEF IInv, TypeOK
    <2>3. QED
      BY <1>1, <2>2 DEF HandleScreen, grace, window
  <1>6. ShowsLock(immediateLock, noLock, delayedLockTimer) \in BOOLEAN
    BY DEF ShowsLock
  <1>7. \A t \in Viewed' : views'[t] \in ViewSet /\ views'[t].geometry = geometry'[t]
    <2>1. NewView(g, ShowsLock(immediateLock, noLock, delayedLockTimer)) \in ViewSet
      BY <1>6 DEF NewView, ViewSet
    <2>2. \A t \in Viewed : views[t] \in ViewSet /\ views[t].geometry = geometry[t]
      BY DEF IInv, TypeOK, EveryScreenIsCovered
    <2>3. QED
      BY <1>3, <1>4, <2>1, <2>2 DEF NewView
  <1>8. posted' \in Seq(EventSet(Viewed'))
    BY <1>3, <1>5, QueueGrows DEF IInv, TypeOK, EventSet
  <1>9. geometry' \in Some(Screens, AllGeometries)
    BY <1>1, <1>2, GeometryValues
  <1>10. TypeOK'
    BY <1>1, <1>2, <1>3, <1>5, <1>7, <1>8, <1>9, Zenon DEF IInv, TypeOK, EventSet
  <1>11. ViewsAgree'
    BY <1>2, <1>3, <1>4, <1>5 DEF IInv, ViewsAgree, NewView, ShowsLock
  <1>12. QED
    BY <1>1, <1>2, <1>3, <1>5, <1>7, <1>10, <1>11
    DEF IInv, ProcessesStartAfresh, EveryScreenIsCovered

(* A screen that is added without a geometry is passed over.               *)
LEMMA SkippedPreserves ==
  ASSUME IInv, NEW s \in Screens, NEW g \in AllGeometries, phase = "greeter",
         ScreenAdded(s, g), g = NullGeometry
  PROVE  IInv'
  <1>1. /\ geometry' = With(geometry, s, g) /\ phase' = "greeter"
        /\ skipped' = skipped \cup {s} /\ s \notin Present
        /\ UNCHANGED <<fallback, views, immediateLock, noLock, delayedLockTimer, graceLocked>>
        /\ UNCHANGED <<focus, posted, covered, watched>>
    BY DEF ScreenAdded, HandleScreen, grace, window
  <1>2. /\ geometry \in Some(Screens, AllGeometries) /\ Viewed = Present \ skipped
        /\ skipped \subseteq Present
    BY DEF IInv, TypeOK, EveryScreenIsCovered, Coverable, ProcessesStartAfresh
  <1>3. /\ Viewed' = Viewed /\ Present' = Present \cup {s} /\ Viewed' = Coverable'
        /\ \A t \in Viewed : geometry'[t] = geometry[t]
    <2>1. Viewed' = Viewed /\ Present' = Present \cup {s}
      BY <1>1 DEF With, Viewed, Present
    <2>2. QED
      BY <1>1, <1>2, <2>1 DEF Coverable, With, Present
  <1>4. geometry' \in Some(Screens, AllGeometries)
    BY <1>1, <1>2, GeometryValues
  <1>5. TypeOK'
    BY <1>1, <1>2, <1>3, <1>4, Zenon DEF IInv, TypeOK
  <1>6. ViewsAgree'
    BY <1>1, <1>3 DEF IInv, ViewsAgree
  <1>7. QED
    BY <1>1, <1>2, <1>3, <1>5, <1>6 DEF IInv, ProcessesStartAfresh, EveryScreenIsCovered

(* With a screen its view goes, and what was queued for it is for nothing. *)
LEMMA RemovedPreserves ==
  ASSUME IInv, NEW s \in Screens, NEW g \in AllGeometries, phase = "greeter", ScreenRemoved(s)
  PROVE  IInv'
  <1>1. DeleteView(s) /\ geometry' = Without(geometry, s) /\ phase' = "greeter"
    BY DEF ScreenRemoved
  <1>2. geometry \in Some(Screens, AllGeometries) /\ Viewed = Present \ skipped
    BY DEF IInv, TypeOK, EveryScreenIsCovered, Coverable
  <1>3. /\ Viewed' = Viewed \ {s} /\ Present' = Present \ {s} /\ skipped' = skipped \ {s}
        /\ Viewed' = Coverable'
    <2>1. Viewed' = Viewed \ {s} /\ Present' = Present \ {s} /\ skipped' = skipped \ {s}
      BY <1>1 DEF DeleteView, Without, Viewed, Present
    <2>2. QED
      BY <1>2, <2>1 DEF Coverable
  <1>4. \A t \in Viewed' : views'[t] = views[t] /\ geometry'[t] = geometry[t]
    BY <1>1, <1>2, <1>3 DEF DeleteView, Without, Viewed, Present
  <1>5. /\ UNCHANGED <<immediateLock, noLock, fallback, delayedLockTimer, graceLocked>>
        /\ UNCHANGED <<covered, watched>>
        /\ focus' = focus \ {s}
    BY <1>1 DEF DeleteView, options, grace, window
  <1>6. posted' \in Seq(EventSet(Viewed'))
    <2>1. posted \in Seq(EventSet(Viewed))
      BY DEF IInv, TypeOK, EventSet
    <2>2. QED
      BY <1>1, <1>3, <2>1, QueueCut DEF DeleteView
  <1>7. geometry' \in Some(Screens, AllGeometries)
    BY <1>1, <1>2, GeometryValues
  <1>8. TypeOK'
    BY <1>1, <1>3, <1>4, <1>5, <1>6, <1>7 DEF IInv, TypeOK, EventSet
  <1>9. ViewsAgree'
    BY <1>3, <1>4, <1>5 DEF IInv, ViewsAgree
  <1>10. QED
    BY <1>1, <1>2, <1>3, <1>4, <1>5, <1>8, <1>9
    DEF IInv, ProcessesStartAfresh, EveryScreenIsCovered

(* A view follows the geometry of its screen.                              *)
LEMMA ChangedPreserves ==
  ASSUME IInv, NEW s \in Screens, NEW g \in AllGeometries, phase = "greeter",
         GeometryChanged(s, g)
  PROVE  IInv'
  <1>1. /\ geometry' = With(geometry, s, g) /\ s \in Present
        /\ UNCHANGED <<phase, options, grace, skipped, focus, posted, watched>>
    BY DEF GeometryChanged
  <1>2. /\ geometry \in Some(Screens, AllGeometries) /\ Viewed = Present \ skipped
        /\ watched = {} /\ covered = {}
    BY DEF IInv, TypeOK, EveryScreenIsCovered, ProcessesStartAfresh, Coverable
  <1>3. /\ views' = IF s \in Viewed THEN [views EXCEPT ![s].geometry = g] ELSE views
        /\ covered' = covered
    BY <1>1, <1>2 DEF GeometryChanged
  <1>4. Viewed' = Viewed /\ Present' = Present /\ Coverable' = Coverable
    <2>1. Viewed' = Viewed /\ Present' = Present
      BY <1>1, <1>3 DEF With, Viewed, Present
    <2>2. QED
      BY <1>1, <2>1 DEF Coverable
  <1>5. \A t \in Viewed : geometry'[t] = IF t = s THEN g ELSE geometry[t]
    BY <1>1, <1>2 DEF With, Present
  <1>6. \A t \in Viewed :
          /\ views'[t] \in ViewSet /\ views'[t].locked = views[t].locked
          /\ views'[t].active = views[t].active
          /\ views'[t].geometry = IF t = s THEN g ELSE views[t].geometry
    BY <1>3 DEF Viewed, IInv, TypeOK, ViewSet
  <1>7. geometry' \in Some(Screens, AllGeometries)
    BY <1>1, <1>2, GeometryValues
  <1>8. TypeOK'
    BY <1>1, <1>3, <1>4, <1>6, <1>7 DEF IInv, TypeOK, options, grace
  <1>9. ViewsAgree'
    BY <1>1, <1>4, <1>6 DEF IInv, ViewsAgree, options, grace
  <1>10. QED
    BY <1>1, <1>2, <1>3, <1>4, <1>5, <1>6, <1>8, <1>9
    DEF IInv, ProcessesStartAfresh, EveryScreenIsCovered, options, grace

-----------------------------------------------------------------------------
(* What holds in every state the windows can reach.                        *)

(* Every step preserves the invariant.                                     *)
LEMMA NextPreserves == ASSUME IInv, [Next]_vars PROVE IInv'
  <1>1. CASE StartGreeter \/ GreeterEnds \/ EmergencyEnds
    BY <1>1, StartPreserves, EndsPreserve
  <1>2. CASE ShowEmergency
    BY <1>2, ShowEmergencyPreserves
  <1>3. CASE Posted
    BY <1>3, AuthenticatorPreserves, MarkPreserves, MarkDeletedPreserves, FocusPreserves
    DEF Posted
  <1>4. CASE GraceTimeout \/ LockImmediately
    BY <1>4, GraceEndPreserves
  <1>5. CASE ScreenEvent
    <2>1. PICK s \in Screens :
            ScreenRemoved(s) \/ \E g \in AllGeometries : ScreenAdded(s, g) \/ GeometryChanged(s, g)
      BY <1>5 DEF ScreenEvent
    <2>2. PICK g \in AllGeometries : ScreenRemoved(s) \/ ScreenAdded(s, g) \/ GeometryChanged(s, g)
      <3>1. CASE ScreenRemoved(s)
        BY <3>1, GeometryTypes DEF ScreenRemoved, Present, IInv, TypeOK
      <3>2. QED
        BY <2>1, <3>1
    <2>3. phase' = phase /\ phase \in {"nothing", "greeter", "emergency"}
      BY <2>2 DEF ScreenRemoved, ScreenAdded, GeometryChanged, IInv, TypeOK
    <2>4. CASE phase = "nothing"
      BY <2>2, <2>3, <2>4, NothingShownPreserves
    <2>5. CASE phase = "greeter"
      BY <2>2, <2>5, ViewAddedPreserves, SkippedPreserves, RemovedPreserves,
         ChangedPreserves
    <2>6. CASE phase = "emergency"
      BY <2>2, <2>6, EmergencyScreenPreserves
    <2>7. QED
      BY <2>3, <2>4, <2>5, <2>6
  <1>6. CASE \E s \in Screens : FrameSwapped(s) \/ ViewEntered(s)
    BY <1>6, FramePreserves, EnteredPreserves
  <1>7. CASE UNCHANGED vars
    BY <1>7
    DEF vars, greeter, window, options, grace, IInv, TypeOK, ProcessesStartAfresh, ViewsAgree,
        EveryScreenIsCovered, Viewed, Present, Coverable
  <1>8. QED
    BY <1>1, <1>2, <1>3, <1>4, <1>5, <1>6, <1>7 DEF Next

(* The invariant holds in every reachable state.                           *)
THEOREM Inductive == Spec => []IInv
  <1>1. Init => IInv
    BY InitIInv
  <1>2. IInv /\ [Next]_vars => IInv'
    BY NextPreserves
  <1>3. QED
    BY <1>1, <1>2, PTL DEF Spec

(* Views, events and the emergency window stay what they are; what is      *)
(* queued and what has the focus belongs to views there are.               *)
THEOREM TypeCorrect == Spec => []TypeOK
  BY Inductive, PTL DEF IInv

(* However screens, signals, timer and crashes interleave: all views show  *)
(* the lock or none does, and the authenticators are not left locked       *)
(* without the timer that unlocks them.                                    *)
THEOREM ViewsAlwaysAgree == Spec => []ViewsAgree
  BY Inductive, PTL DEF IInv

(* No screen shows what is behind the lock, be it added, removed or moved  *)
(* while a greeter is there, unless it had no geometry when a view of the  *)
(* greeter was due; the emergency window covers every screen that has one. *)
THEOREM ScreensStayCovered == Spec => []EveryScreenIsCovered
  BY Inductive, PTL DEF IInv
=============================================================================
