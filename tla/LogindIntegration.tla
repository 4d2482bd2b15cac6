-------------------------- MODULE LogindIntegration ---------------------------
(***************************************************************************)
(* How the daemon keeps in touch with logind, or with ConsoleKit where     *)
(* there is no logind: class LogindIntegration of src/logind.cpp, and the  *)
(* system bus with the two services as autotests/logindtest.cpp and        *)
(* autotests/fakelogind.cpp let them come, answer, signal and go.          *)
(*                                                                         *)
(* The daemon has one connection to the bus, so what it sends arrives in   *)
(* order and what it gets, replies and signals of all services, is handled *)
(* in the order in which the bus dispatched it.                            *)
(*                                                                         *)
(* A session path is named after the service that gave it out; logind's is *)
(* the same for all its instances.  Left out: inhibit() and uninhibit(),   *)
(* which nothing calls.                                                    *)
(***************************************************************************)
EXTENDS Naturals, Sequences

CONSTANTS
  Available,   \* the services that the system has
  Restarting,  \* those among them that come and go
  MaxInFlight  \* bound: how many messages may be under way

Services == {"logind", "consolekit"}

ASSUME ServicesAssumption ==
  Restarting \subseteq Available /\ Available \subseteq Services /\ MaxInFlight \in Nat \ {0}

VARIABLES
  connected,    \* m_connected
  service,      \* m_service, with which m_path and the interfaces change
  sessionPath,  \* m_sessionPath
  rules,        \* the match rules added: <<service, object>>
  owners,       \* the services that are on the bus
  outbox,       \* calls of the daemon that have not arrived
  inbox,        \* messages for the daemon that it has not handled
  hint,         \* the LockedHint that logind keeps for the session
  lost,         \* the last setLocked() did not come to stay with logind
  refused       \* the last answer was an error of somebody who was there

client == <<connected, service, sessionPath, rules>>
bus    == <<owners, hint, lost, refused>>

ListNames == [call |-> "ListNames", to |-> {}, path |-> {}, value |-> FALSE]
GetSession(s) == [ListNames EXCEPT !.call = "GetSession", !.to = {s}]
SetLockedHint(s, p, v) ==
  [call |-> "SetLockedHint", to |-> {s}, path |-> {p}, value |-> v]

SetLockedCalls ==
  {SetLockedHint(s, p, v) : s \in Services, p \in Services, v \in BOOLEAN}

(* of: the services that are meant, none for the reply that is an error.   *)
Messages ==
  [kind: {"names", "registered", "unregistered", "session", "Lock", "Unlock", "Sleep"},
   of: SUBSET Services]

Message(kind, of) == [kind |-> kind, of |-> of]

Objects == Services \cup {"manager"}

LogindTypeOK ==
  /\ connected \in BOOLEAN
  /\ service \in Services \cup {"none"}
  /\ sessionPath \in Services \cup {"none"}
  /\ rules \subseteq Services \X Objects
  /\ owners \subseteq Available
  /\ outbox \in Seq({ListNames} \cup {GetSession(s) : s \in Services} \cup SetLockedCalls)
  /\ inbox \in Seq(Messages)
  /\ hint \in BOOLEAN /\ lost \in BOOLEAN /\ refused \in BOOLEAN

(* The constructor asks who is there.  The hint may be left by a daemon    *)
(* that died on a locked screen.                                           *)
LogindInit ==
  /\ connected = FALSE /\ service = "none" /\ sessionPath = "none" /\ rules = {}
  /\ owners \in SUBSET Available
  /\ outbox = <<ListNames>> /\ inbox = <<>>
  /\ hint \in BOOLEAN /\ lost = hint /\ refused = FALSE

-----------------------------------------------------------------------------
(* The handlers of the daemon.  more: the calls that the slots connected   *)
(* to a signal add to outbox, from within the handler.                     *)

Arrived(kind) == inbox # <<>> /\ Head(inbox).kind = kind

(* setLocked(value) with m_connected and m_sessionPath as given.           *)
SetLocked(isConnected, path, value) ==
  IF isConnected /\ path # "none"
  THEN <<SetLockedHint(service, path, value)>> ELSE <<>>

(* What isLocked() of a session that is connected gets: the call blocks    *)
(* until it is answered, which is after all that was sent before has       *)
(* arrived.  Where nobody is asked, or ConsoleKit, which keeps no hint,    *)
(* the error is FALSE; so is any other, see Connected in SessionServices.  *)
IsLocked(path) ==
  /\ service = "logind" /\ path = "logind" /\ "logind" \in owners
  /\ hint

(* logindServiceRegistered(), consolekitServiceRegistered() and            *)
(* commonServiceRegistered().                                              *)
ServiceRegistered(s) ==
  /\ service' = s
  /\ rules' = rules \cup {<<s, "manager">>}
  /\ outbox' = Append(outbox, GetSession(s))

(* The reply to ListNames; logind is preferred, and an error is as good as *)
(* nobody.                                                                 *)
NamesReplied ==
  LET names == Head(inbox).of IN
    /\ Arrived("names")
    /\ inbox' = Tail(inbox)
    /\ \/ "logind" \in names /\ ServiceRegistered("logind")
       \/ names = {"consolekit"} /\ ~connected /\ ServiceRegistered("consolekit")
       \/ /\ names = {} \/ (names = {"consolekit"} /\ connected)
          /\ UNCHANGED <<service, rules, outbox>>
    /\ UNCHANGED <<connected, sessionPath, bus>>

(* Only logind is watched.                                                 *)
LogindRegistered ==
  /\ Arrived("registered")
  /\ inbox' = Tail(inbox)
  /\ ServiceRegistered("logind")
  /\ UNCHANGED <<connected, sessionPath, bus>>

(* Mutant: m_connected is not reset.                                       *)
StaysConnected ==
  /\ Arrived("unregistered")
  /\ inbox' = Tail(inbox)
  /\ sessionPath' = "none"
  /\ UNCHANGED <<connected, service, rules, outbox, bus>>

LogindUnregistered ==
  /\ Arrived("unregistered")
  /\ inbox' = Tail(inbox)
  /\ connected' = FALSE /\ sessionPath' = "none"
  /\ UNCHANGED <<service, rules, outbox, bus>>

(* The reply to GetSession does nothing when the daemon is connected or    *)
(* the reply is an error.                                                  *)
SessionIgnored ==
  /\ Arrived("session")
  /\ connected \/ Head(inbox).of = {}
  /\ inbox' = Tail(inbox)
  /\ UNCHANGED <<client, outbox, bus>>

(* Otherwise the path is the one replied, the service the one asked last.  *)
(* connectedChanged() calls isLocked().                                    *)
SessionReplied(path, more) ==
  /\ Arrived("session")
  /\ outbox = <<>>
  /\ ~connected /\ Head(inbox).of = {path}
  /\ inbox' = Tail(inbox)
  /\ connected' = TRUE /\ sessionPath' = path
  /\ rules' = rules \cup {<<service, path>>}
  /\ outbox' = more
  /\ UNCHANGED <<service, owners, hint, refused>>

(* A signal is passed on, connected or not: a rule is never removed.       *)
Signalled(kind, more) ==
  /\ Arrived(kind)
  /\ inbox' = Tail(inbox)
  /\ outbox' = outbox \o more
  /\ UNCHANGED <<client, owners, hint, refused>>

-----------------------------------------------------------------------------
(* The bus and the services.                                               *)

HasRoom == Len(inbox) + Len(outbox) < MaxInFlight

(* Any answer may be an error.                                             *)
AnswerListNames ==
  /\ Head(outbox).call = "ListNames"
  /\ \/ inbox' = Append(inbox, Message("names", owners)) /\ UNCHANGED refused
     \/ inbox' = Append(inbox, Message("names", {})) /\ refused' = TRUE
  /\ UNCHANGED <<hint, lost>>

(* To call a service that is not there is an error; one that is there may  *)
(* hold the session not to be registered.                                  *)
AnswerGetSession ==
  LET there == Head(outbox).to \cap owners IN
    /\ Head(outbox).call = "GetSession"
    /\ \/ /\ inbox' = Append(inbox, Message("session", there))
          /\ refused' = (refused /\ there = {})
       \/ /\ there # {}
          /\ inbox' = Append(inbox, Message("session", {}))
          /\ refused' = TRUE
    /\ UNCHANGED <<hint, lost>>

(* Nobody waits for the answer to SetLockedHint, so an error goes unseen.  *)
TakeSetLockedHint ==
  LET c == Head(outbox) IN
    /\ c.call = "SetLockedHint"
    /\ IF c.to = {"logind"} /\ c.path = {"logind"} /\ "logind" \in owners
       THEN hint' = c.value /\ UNCHANGED lost
       ELSE lost' = TRUE /\ UNCHANGED hint
    /\ UNCHANGED <<inbox, refused>>

CallArrives ==
  /\ outbox # <<>>
  /\ outbox' = Tail(outbox)
  /\ AnswerListNames \/ AnswerGetSession \/ TakeSetLockedHint
  /\ UNCHANGED <<client, owners>>

(* The bus tells the daemon of logind only.  A new instance of logind has  *)
(* kept the hint or has not.                                               *)
Start(s) ==
  /\ HasRoom
  /\ s \in Restarting \ owners
  /\ owners' = owners \cup {s}
  /\ IF s = "logind"
     THEN /\ inbox' = Append(inbox, Message("registered", {s}))
          /\ hint' \in {hint, FALSE}
          /\ lost' = (lost \/ hint' # hint)
     ELSE UNCHANGED <<inbox, hint, lost>>
  /\ UNCHANGED <<client, outbox, refused>>

Stop(s) ==
  /\ HasRoom
  /\ s \in Restarting \cap owners
  /\ owners' = owners \ {s}
  /\ IF s = "logind" THEN inbox' = Append(inbox, Message("unregistered", {s}))
     ELSE UNCHANGED inbox
  /\ UNCHANGED <<client, outbox, hint, lost, refused>>

(* The services signal Lock and Unlock for the session and PrepareForSleep *)
(* for the manager; only what a rule asks for gets to the daemon.          *)
Emit(s) ==
  /\ HasRoom
  /\ s \in owners
  /\ \E kind \in {"Lock", "Unlock", "Sleep"} :
       /\ <<s, IF kind = "Sleep" THEN "manager" ELSE s>> \in rules
       /\ inbox' = Append(inbox, Message(kind, {s}))
  /\ UNCHANGED <<client, outbox, bus>>

Environment == \E s \in Available : Start(s) \/ Stop(s) \/ Emit(s)
=============================================================================
