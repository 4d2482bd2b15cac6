------------------------------ MODULE AutoLock ------------------------------
(***************************************************************************)
(* When the screen locks by itself: the idle timeout of class KSldApp      *)
(* (src/ksldapp.cpp) and those who inhibit it, the clients of the D-Bus    *)
(* interface (src/interface.cpp) and the power service, of which class     *)
(* PowerManagementInhibition (src/powermanagement_inhibition.cpp) keeps a  *)
(* copy of one bit.                                                        *)
(*                                                                         *)
(* The daemon handles one message at a time.  What the bus has for it      *)
(* waits in inbox, in the order of the bus; its calls to the power service *)
(* wait in outbox.  Init is the state after initialize().                  *)
(***************************************************************************)
EXTENDS Naturals, Sequences, FiniteSets

CONSTANTS
  Clients,     \* unique bus names of applications that inhibit
  Settings,    \* what the user may configure
  MaxCookies,  \* bound: how many inhibitions are ever asked for
  MaxInFlight  \* bound: the environment waits while so many messages wait

ASSUME SettingsAssumption == Settings \subseteq [autolock: BOOLEAN, timeout: Nat]
ASSUME MaxAssumption == MaxCookies \in Nat /\ MaxInFlight \in Nat

VARIABLES
  settings,        \* KScreenSaverSettings as last loaded
  idleTimeout,     \* the timeout behind m_idleId; 0 when m_idleId is 0
  inhibitCounter,  \* m_inhibitCounter
  requests,        \* Interface::m_requests
  nextCookie,      \* Interface::m_next_cookie, counted from 0
  watched,         \* the services m_serviceWatcher watches
  inhibitor,       \* the PowerInhibitor that belongs to each cookie
  powerInhibited,  \* PowerManagementInhibition::m_inhibited
  registered,      \* m_serviceRegistered; InhibitionsChanged is connected
  inbox,           \* what the bus has for the daemon
  outbox,          \* what the daemon has for the power service
  alive,           \* clients on the bus
  missed,          \* clients that left it while the daemon did not watch them
  serviceUp,       \* the power service is on the bus
  held,            \* inhibitions of the daemon the power service has granted
  others           \* the power service has inhibitions of others

timer   == <<settings, idleTimeout>>
iface   == <<inhibitCounter, requests, nextCookie, watched>>
power   == <<powerInhibited, registered>>
service == <<serviceUp, held, others>>
vars == <<timer, iface, inhibitor, power, inbox, outbox, alive, missed, service>>

Cookies  == 0 .. MaxCookies - 1
RequestSet == [cookie: Cookies, client: Clients]

InhibitorStates ==
  {"none",       \* not constructed yet
   "asking",     \* AddInhibition has not answered
   "abandoned",  \* as before, and release() has been called
   "granted",    \* m_cookie holds a cookie of the power service
   "refused",    \* m_cookie holds an error
   "deleted"}    \* has called deleteLater()

Messages ==
  ({"names", "has"} \X BOOLEAN)                   \* replies
    \cup ({"added", "failed"} \X Cookies)         \* replies to AddInhibition
    \cup ({"inhibit", "gone"} \X Clients)         \* a call, a client left
    \cup {<<"registered">>, <<"unregistered">>,   \* the power service came, left
          <<"changed">>}                          \* InhibitionsChanged

Calls == ({"add", "release"} \X Cookies) \cup {<<"has">>}

-----------------------------------------------------------------------------
(* The idle timeout.                                                       *)

(* timeout() if it is configured at all, else 0.                           *)
TimeoutOf(c) == IF c.autolock THEN c.timeout ELSE 0

(* isInhibited(), for a count of requests and a word of the power service. *)
IsInhibited(count, byPower) == count # 0 \/ byPower

Inhibited == IsInhibited(inhibitCounter, powerInhibited)

(* Mutant: a timeout that runs is never removed.                           *)
OnlyAddIdleTimeout(timeout, inhibited, c) ==
  idleTimeout' = IF timeout = 0 /\ ~inhibited THEN TimeoutOf(c) ELSE timeout

(* updateIdleTimeout(), for a timeout that runs, or 0, and settings c.     *)
UpdateIdleTimeout(timeout, inhibited, c) ==
  idleTimeout' = IF timeout # 0 /\ inhibited THEN 0
                 ELSE IF timeout = 0 /\ ~inhibited THEN TimeoutOf(c)
                 ELSE timeout

(* configure(): the timeout is removed and, unless inhibited, added again. *)
Configure ==
  /\ settings' \in Settings
  /\ UpdateIdleTimeout(0, Inhibited, settings')
  /\ UNCHANGED <<iface, inhibitor, power, inbox, outbox, alive, missed, service>>

-----------------------------------------------------------------------------
(* Requests to inhibit.                                                    *)

(* PowerInhibitor::release().                                              *)
Released(state) == IF state = "asking" THEN "abandoned" ELSE "deleted"

(* Mutant: the counter goes down whether a request was found or not.       *)
CountWithoutOne(closed) == inhibitCounter - 1

(* uninhibit(), once for each request.                                     *)
CountWithout(closed) == inhibitCounter - Cardinality(closed)

(* The requests closed are dropped, their inhibitors released in turn.     *)
(* Where there are none, nothing happens, to the idle timeout either.      *)
Close(closed) ==
  LET cookies == {r.cookie : r \in closed}
      granted == {k \in cookies : inhibitor[k] = "granted"}
  IN  /\ requests' = requests \ closed
      /\ inhibitor' = [k \in Cookies |-> IF k \in cookies THEN Released(inhibitor[k])
                                                          ELSE inhibitor[k]]
      /\ \E turn \in [1 .. Cardinality(granted) -> granted] :
           /\ \A i, j \in DOMAIN turn : i < j => turn[i] < turn[j]
           /\ outbox' = outbox \o [i \in DOMAIN turn |-> <<"release", turn[i]>>]
      /\ inhibitCounter' = CountWithout(closed)
      /\ IF closed = {}
         THEN UNCHANGED idleTimeout
         ELSE UpdateIdleTimeout(idleTimeout,
                                IsInhibited(CountWithout(closed), powerInhibited), settings)

(* Interface::UnInhibit(cookie), called by anybody, with any cookie.       *)
UnInhibit(cookie) ==
  /\ Close({r \in requests : r.cookie = cookie})
  /\ UNCHANGED <<settings, nextCookie, watched, power, inbox, alive, missed, service>>

(* Interface::Inhibit(); with one more request, the timeout is inhibited.  *)
Inhibit(client) ==
  /\ requests' = requests \cup {[cookie |-> nextCookie, client |-> client]}
  /\ nextCookie' = nextCookie + 1
  /\ watched' = watched \cup {client}
  /\ inhibitor' = [inhibitor EXCEPT ![nextCookie] = "asking"]
  /\ outbox' = Append(outbox, <<"add", nextCookie>>)
  /\ inhibitCounter' = inhibitCounter + 1
  /\ UpdateIdleTimeout(idleTimeout, TRUE, settings)
  /\ UNCHANGED <<settings, power, alive, missed, service>>

(* Interface::serviceUnregistered(): UnInhibit() for all of its requests.  *)
ServiceUnregistered(client) ==
  /\ watched' = watched \ {client}
  /\ Close({r \in requests : r.client = client})
  /\ UNCHANGED <<settings, nextCookie, power, alive, missed, service>>

(* Mutant: that the inhibition has been released is forgotten.             *)
InhibitionAddedLate(k) ==
  /\ inhibitor' =
       [inhibitor EXCEPT ![k] = IF @ = "abandoned" THEN "deleted" ELSE "granted"]
  /\ UNCHANGED <<timer, iface, power, outbox, alive, missed, service>>

(* AddInhibition has answered, or has failed.                              *)
InhibitionAdded(k) ==
  /\ IF inhibitor[k] = "abandoned"
     THEN /\ inhibitor' = [inhibitor EXCEPT ![k] = "deleted"]
          /\ outbox' = Append(outbox, <<"release", k>>)
     ELSE /\ inhibitor' = [inhibitor EXCEPT ![k] = "granted"]
          /\ UNCHANGED outbox
  /\ UNCHANGED <<timer, iface, power, alive, missed, service>>

InhibitionFailed(k) ==
  /\ inhibitor' =
       [inhibitor EXCEPT ![k] = IF @ = "abandoned" THEN "deleted" ELSE "refused"]
  /\ UNCHANGED <<timer, iface, power, outbox, alive, missed, service>>

-----------------------------------------------------------------------------
(* The word of the power service.                                          *)

(* update(): the service is there; connect to it, and ask.                 *)
Update ==
  /\ registered' = TRUE
  /\ outbox' = Append(outbox, <<"has">>)
  /\ UNCHANGED <<timer, iface, inhibitor, powerInhibited, alive, missed, service>>

(* The service has left.  That m_inhibited changes is told to nobody.      *)
PowerServiceUnregistered ==
  /\ registered' = FALSE
  /\ powerInhibited' = FALSE
  /\ UNCHANGED <<timer, iface, inhibitor, outbox, alive, missed, service>>

(* inhibitionsChanged(), if it is still connected: ask again.              *)
InhibitionsChanged ==
  /\ outbox' = IF registered THEN Append(outbox, <<"has">>) ELSE outbox
  /\ UNCHANGED <<timer, iface, inhibitor, power, alive, missed, service>>

(* Mutant: only an inhibition counts as a change.                          *)
OnlyInhibitionNoticed(value) ==
  /\ powerInhibited' = (powerInhibited \/ value)
  /\ IF powerInhibited # powerInhibited'
     THEN UpdateIdleTimeout(idleTimeout, IsInhibited(inhibitCounter, value), settings)
     ELSE UNCHANGED idleTimeout
  /\ UNCHANGED <<settings, iface, inhibitor, registered, outbox, alive, missed, service>>

(* Mutant: inhibitedChanged is emitted before m_inhibited changes.         *)
EmitBeforeChange(value) ==
  /\ powerInhibited' = value
  /\ IF powerInhibited # value
     THEN UpdateIdleTimeout(idleTimeout, IsInhibited(inhibitCounter, powerInhibited), settings)
     ELSE UNCHANGED idleTimeout
  /\ UNCHANGED <<settings, iface, inhibitor, registered, outbox, alive, missed, service>>

(* HasInhibition has answered; inhibitedChanged updates the idle timeout.  *)
HasInhibitionReplied(value) ==
  /\ powerInhibited' = value
  /\ IF powerInhibited # value
     THEN UpdateIdleTimeout(idleTimeout, IsInhibited(inhibitCounter, value), settings)
     ELSE UNCHANGED idleTimeout
  /\ UNCHANGED <<settings, iface, inhibitor, registered, outbox, alive, missed, service>>

(* The constructor asked whether the service is there.                     *)
NamesListed(present) ==
  IF present
  THEN Update
  ELSE UNCHANGED <<timer, iface, inhibitor, power, outbox, alive, missed, service>>

(* The event loop delivers one message.                                    *)
Handle(m) ==
  \/ m[1] = "names"        /\ NamesListed(m[2])
  \/ m[1] = "has"          /\ HasInhibitionReplied(m[2])
  \/ m[1] = "added"        /\ InhibitionAdded(m[2])
  \/ m[1] = "failed"       /\ InhibitionFailed(m[2])
  \/ m[1] = "inhibit"      /\ Inhibit(m[2])
  \/ m[1] = "gone"         /\ ServiceUnregistered(m[2])
  \/ m[1] = "registered"   /\ Update
  \/ m[1] = "unregistered" /\ PowerServiceUnregistered
  \/ m[1] = "changed"      /\ InhibitionsChanged

Deliver ==
  /\ inbox # <<>>
  /\ inbox' = Tail(inbox)
  /\ Handle(Head(inbox))

-----------------------------------------------------------------------------
(* The bus and those on it.                                                *)

Room == Len(inbox) + Len(outbox) < MaxInFlight

(* A signal InhibitionsChanged goes to those who have connected to it.     *)
Announced(queue) == IF registered THEN Append(queue, <<"changed">>) ELSE queue

(* The power service serves one call of the daemon; without a service the  *)
(* bus itself answers, with an error.  Errors that the daemon ignores, of  *)
(* HasInhibition and ReleaseInhibition, are left out.                      *)
Serve(call) ==
  \/ /\ call[1] = "add" /\ serviceUp
     /\ held' = held \cup {call[2]}
     /\ inbox' = Append(Announced(inbox), <<"added", call[2]>>)
  \/ /\ call[1] = "add" /\ ~serviceUp
     /\ inbox' = Append(inbox, <<"failed", call[2]>>)
     /\ UNCHANGED held
  \/ /\ call[1] = "release"
     /\ held' = held \ {call[2]}
     /\ inbox' = IF call[2] \in held THEN Announced(inbox) ELSE inbox
  \/ /\ call[1] = "has"
     /\ inbox' = IF serviceUp THEN Append(inbox, <<"has", held # {} \/ others>>) ELSE inbox
     /\ UNCHANGED held

Answer ==
  /\ outbox # <<>>
  /\ outbox' = Tail(outbox)
  /\ Serve(Head(outbox))
  /\ UNCHANGED <<timer, iface, inhibitor, power, alive, missed, serviceUp, others>>

(* Another application inhibits, or the last one stops.                    *)
OthersChange ==
  /\ Room /\ serviceUp
  /\ others' = ~others
  /\ inbox' = Announced(inbox)
  /\ UNCHANGED <<timer, iface, inhibitor, power, outbox, alive, missed, serviceUp, held>>

PowerServiceLeaves ==
  /\ Room /\ serviceUp
  /\ serviceUp' = FALSE /\ held' = {} /\ others' = FALSE
  /\ inbox' = Append(inbox, <<"unregistered">>)
  /\ UNCHANGED <<timer, iface, inhibitor, power, outbox, alive, missed>>

PowerServiceComes ==
  /\ Room /\ ~serviceUp
  /\ serviceUp' = TRUE
  /\ others' \in BOOLEAN
  /\ inbox' = Append(inbox, <<"registered">>)
  /\ UNCHANGED <<timer, iface, inhibitor, power, outbox, alive, missed, held>>

(* How many inhibitions have been asked for and not been handled.          *)
InFlight == Cardinality({i \in 1 .. Len(inbox) : inbox[i][1] = "inhibit"})

ClientInhibits(client) ==
  /\ Room /\ client \in alive /\ nextCookie + InFlight < MaxCookies
  /\ inbox' = Append(inbox, <<"inhibit", client>>)
  /\ UNCHANGED <<timer, iface, inhibitor, power, outbox, alive, missed, service>>

(* The bus tells the daemon only if the daemon watches the client by then. *)
ClientExits(client) ==
  /\ Room /\ client \in alive
  /\ alive' = alive \ {client}
  /\ IF client \in watched
     THEN inbox' = Append(inbox, <<"gone", client>>) /\ UNCHANGED missed
     ELSE missed' = missed \cup {client} /\ UNCHANGED inbox
  /\ UNCHANGED <<timer, iface, inhibitor, power, outbox, service>>

-----------------------------------------------------------------------------
Init ==
  /\ settings \in Settings
  /\ idleTimeout = TimeoutOf(settings)
  /\ inhibitCounter = 0
  /\ requests = {} /\ nextCookie = 0 /\ watched = {}
  /\ inhibitor = [k \in Cookies |-> "none"]
  /\ powerInhibited = FALSE /\ registered = FALSE
  /\ serviceUp \in BOOLEAN /\ held = {}
  /\ others \in BOOLEAN /\ (others => serviceUp)
  /\ inbox = <<<<"names", serviceUp>>>>
  /\ outbox = <<>>
  /\ alive = Clients /\ missed = {}

Daemon == Configure \/ Deliver \/ \E k \in Cookies : UnInhibit(k)

Environment ==
  \/ Answer \/ OthersChange \/ PowerServiceLeaves \/ PowerServiceComes
  \/ \E c \in Clients : ClientInhibits(c) \/ ClientExits(c)

Next == Daemon \/ Environment

Spec == Init /\ [][Next]_vars

(* The event loop runs, and the bus and the power service answer.          *)
FairSpec == Spec /\ WF_vars(Deliver) /\ WF_vars(Answer)

-----------------------------------------------------------------------------
(* Type and safety.                                                        *)

(* Every variable keeps its type.                                          *)
TypeOK ==
  /\ settings \in Settings
  /\ idleTimeout \in Nat
  /\ inhibitCounter \in Nat
  /\ requests \subseteq RequestSet
  /\ nextCookie \in 0 .. MaxCookies
  /\ watched \subseteq Clients
  /\ inhibitor \in [Cookies -> InhibitorStates]
  /\ powerInhibited \in BOOLEAN
  /\ registered \in BOOLEAN
  /\ inbox \in Seq(Messages)
  /\ outbox \in Seq(Calls)
  /\ alive \subseteq Clients
  /\ missed \subseteq Clients
  /\ serviceUp \in BOOLEAN
  /\ held \subseteq Cookies
  /\ others \in BOOLEAN

(* Each request has one inhibitor at the power service that has not been   *)
(* released, and a client that the daemon watches.                         *)
Accounted ==
  /\ inhibitCounter = Cardinality(requests)
  /\ \A k \in Cookies :
       (inhibitor[k] \in {"asking", "granted", "refused"})
         <=> \E r \in requests : r.cookie = k
  /\ \A r \in requests : r.client \in watched

(* The client is there, or the daemon is about to hear that it is not.     *)
EndIsSeen(client) ==
  client \in alive \/ \E i \in DOMAIN inbox : inbox[i] = <<"gone", client>>

(* The counter of KSldApp counts the requests of Interface, in step with   *)
(* the inhibitors and the watched clients, and a request ends with its     *)
(* client ("until UnInhibit is called or the calling process exits"): that *)
(* of a client that has left the bus is about to be dropped.  The only one *)
(* that stays for good is that of a client that left before the daemon     *)
(* watched it, as Inhibit() does not ask whether its caller is there.      *)
RequestsAreCounted ==
  Accounted /\ \A r \in requests : EndIsSeen(r.client) \/ r.client \in missed

(* The idle timeout never runs while somebody inhibits it, so that the     *)
(* test of isInhibited() in its handler is never the one that matters; and *)
(* one that runs is the one the user has configured last.                  *)
TimeoutIsRightful ==
  idleTimeout # 0 => ~Inhibited /\ idleTimeout = TimeoutOf(settings)

(* The screen would not lock although it is configured to and nobody       *)
(* inhibits it.                                                            *)
Missing == TimeoutOf(settings) # 0 /\ ~Inhibited /\ idleTimeout = 0

(* A configured timeout runs whenever nobody inhibits it.                  *)
TimeoutRuns == ~Missing

(* It gets lost in one way only: when the power service leaves the bus     *)
(* while it inhibits.                                                      *)
OnlyServiceLossDisarms ==
  [][Missing' => Missing \/ (powerInhibited /\ registered' = FALSE)]_vars

-----------------------------------------------------------------------------
(* Liveness.                                                               *)

(* The power service gets rid of every inhibition that is released, also   *)
(* of one that it grants only after the release.                           *)
ReleaseReachesService ==
  \A k \in Cookies :
    (inhibitor[k] \in {"abandoned", "deleted"}) ~> [](k \notin held)

(* While the power service is there and its word stays the same, the       *)
(* daemon comes to know it, whatever replies are on their way.             *)
PowerInhibitionFollows ==
  \A value \in BOOLEAN :
    <>[](serviceUp /\ (held # {} \/ others) = value) => <>[](powerInhibited = value)
=============================================================================
