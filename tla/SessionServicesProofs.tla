----------------------- MODULE SessionServicesProofs -------------------------
(***************************************************************************)
(* Proofs about SessionServices, and so about LogindIntegration and        *)
(* GlobalAccel as the daemon uses them: for every set of components, for   *)
(* every choice of services that come and go, and however many messages    *)
(* are under way.                                                          *)
(***************************************************************************)
EXTENDS SessionServices, QueueTheorems, TLAPS

-----------------------------------------------------------------------------
(* The invariant of the shortcuts.                                         *)

(* A call that is under way.                                               *)
UnderWay(queue, call) == \E i \in 1 .. Len(queue) : queue[i] = call

(* A call that will lead to the shortcuts of c, if it is active.           *)
WillLeadTo(queue, c) ==
  \/ UnderWay(queue, AllComponents)
  \/ UnderWay(queue, IsActive(c))
  \/ UnderWay(queue, AllInfos(c))

(* A lock that fetches for itself asks no component for shortcuts that is  *)
(* not active, and has of each active one the shortcuts, or a call that    *)
(* will lead to them.                                                      *)
FetchIsOfThisLock ==
  locked /\ fetch # "raced" =>
    /\ shortcuts \subseteq active
    /\ \A c \in Whitelist : UnderWay(calls, AllInfos(c)) => c \in active
    /\ fetch = "own" => \A c \in active : c \in shortcuts \/ WillLeadTo(calls, c)

AccelIInv ==
  /\ AccelTypeOK /\ locked \in BOOLEAN /\ fetch \in Fetches
  /\ CounterIsCalls /\ FetchIsOfThisLock

-----------------------------------------------------------------------------
(* The invariant of the hint.                                              *)

(* A notification that logind can take, and one that nobody can.           *)
ForLogind(call) ==
  call.call = "SetLockedHint" /\ call.to = {"logind"} /\ call.path = {"logind"}
ForNobody(call) == call.call = "SetLockedHint" /\ ~ForLogind(call)

(* The hint is v after the calls out, given that it is now.                *)
HintBecomes(out, now, v) ==
  \/ now = v /\ \A i \in 1 .. Len(out) : ~ForLogind(out[i])
  \/ \E i \in 1 .. Len(out) :
       /\ ForLogind(out[i]) /\ out[i].value = v
       /\ \A j \in i + 1 .. Len(out) : ~ForLogind(out[j])

NoneForNobody(out) == \A i \in 1 .. Len(out) : ~ForNobody(out[i])

(* A call that asks logind for the session.                                *)
AsksForSession(call) == call.call = "GetSession" /\ "logind" \in call.to
AsksLogind(out)      == \E i \in 1 .. Len(out) : AsksForSession(out[i])

(* A message after which the daemon holds to logind, one after which it    *)
(* may not, and a reply that gives the session of logind.                 *)
TurnsToLogind(m)  == m.kind = "registered" \/ (m.kind = "names" /\ "logind" \in m.of)
TurnsElsewhere(m) == m.kind = "names" /\ m.of = {"consolekit"}
LogindSession(m)  == m.kind = "session" /\ m.of = {"logind"}

(* After the first n of the messages in, the service is logind, given that *)
(* it is s now.                                                            *)
LogindAfter(in, s, n) ==
  \/ s = "logind" /\ \A i \in 1 .. n : ~TurnsElsewhere(in[i])
  \/ \E i \in 1 .. n : /\ TurnsToLogind(in[i])
                       /\ \A j \in i + 1 .. n : ~TurnsElsewhere(in[j])

(* It is after all of them, and when the session of logind comes.          *)
LogindInTheEnd(in, s) == LogindAfter(in, s, Len(in))
LogindAtSession(in, s) ==
  \A i \in 1 .. Len(in) : LogindSession(in[i]) => LogindAfter(in, s, i)

(* The daemon will hear that logind has left, and so after any session.    *)
Leaving(in) == \E i \in 1 .. Len(in) : in[i].kind = "unregistered"
LeavingAfterSession(in) ==
  \A i \in 1 .. Len(in) : LogindSession(in[i]) =>
    \E j \in i + 1 .. Len(in) : in[j].kind = "unregistered"

AtLogind == connected /\ sessionPath = "logind"

(* Until the daemon knows of a service it has asked for no session.        *)
OnlyListNames(out) == \A i \in 1 .. Len(out) : out[i].call = "ListNames"
NoSession(in)      == \A i \in 1 .. Len(in) : in[i].kind # "session"

ServiceIsKnown ==
  service = "none" => sessionPath = "none" /\ OnlyListNames(outbox) /\ NoSession(inbox)

(* From a logind that is there, nothing that is to come turns the daemon   *)
(* away for good.  So it comes to hold to one that it asks for a session,  *)
(* and holds to it by the time it gets the session.                        *)
ServiceIsLogind ==
  /\ "logind" \in owners => LogindInTheEnd(inbox, "logind")
  /\ "logind" \in owners /\ AsksLogind(outbox) => LogindInTheEnd(inbox, service)
  /\ LogindAtSession(inbox, service)
  /\ AtLogind => service = "logind"

(* Of a logind that has left, the daemon will hear so after any session.   *)
LeavingIsHeard ==
  "logind" \notin owners => /\ AtLogind => Leaving(inbox)
                            /\ LeavingAfterSession(inbox)

(* What the calls under way make of the hint.  lock() and doUnlock() have  *)
(* announced a lock last if the screen is locked or the last lock failed.  *)
HintIsToBeRight ==
  /\ AtLogind /\ ~Leaving(inbox) /\ HintBecomes(outbox, hint, TRUE) => locked \/ failed \/ unread
  /\ ~lost /\ NoneForNobody(outbox)
       => IF locked \/ failed THEN HintBecomes(outbox, hint, TRUE)
                             ELSE HintBecomes(outbox, hint, FALSE)

LogindIInv ==
  /\ LogindTypeOK /\ locked \in BOOLEAN /\ failed \in BOOLEAN /\ unread \in BOOLEAN
  /\ ServiceIsKnown /\ ServiceIsLogind /\ LeavingIsHeard /\ HintIsToBeRight

(* The inductive invariant.                                                *)
IInv == AccelIInv /\ LogindIInv

-----------------------------------------------------------------------------
(* Queues of calls.                                                        *)

LogindCalls == {ListNames} \cup {GetSession(s) : s \in Services} \cup SetLockedCalls

(* What a call that is added makes of the queue.                           *)
LEMMA CallAdded ==
  ASSUME NEW out \in Seq(LogindCalls), NEW c \in LogindCalls
  PROVE  /\ Append(out, c) \in Seq(LogindCalls)
         /\ AsksLogind(Append(out, c)) => AsksLogind(out) \/ AsksForSession(c)
         /\ NoneForNobody(Append(out, c)) => NoneForNobody(out) /\ ~ForNobody(c)
         /\ \A now, v : ~ForLogind(c) =>
              (HintBecomes(Append(out, c), now, v) <=> HintBecomes(out, now, v))
         /\ \A now, v : ForLogind(c) => (HintBecomes(Append(out, c), now, v) <=> c.value = v)
  <1> DEFINE new == Append(out, c)
  <1>1. /\ new \in Seq(LogindCalls) /\ Len(new) = Len(out) + 1 /\ Len(out) \in Nat
        /\ \A i \in 1 .. Len(out) : new[i] = out[i]
        /\ new[Len(out) + 1] = c
    BY AppendProperties, LenProperties
  <1> HIDE DEF new
  <1>2. /\ 1 .. Len(new) = 1 .. Len(out) \cup {Len(out) + 1}
        /\ \A i \in 1 .. Len(out) : i + 1 .. Len(new) = (i + 1 .. Len(out)) \cup {Len(out) + 1}
        /\ \A i \in 1 .. Len(out) : i + 1 .. Len(out) \subseteq 1 .. Len(out)
    BY <1>1
  <1>3. AsksLogind(new) => AsksLogind(out) \/ AsksForSession(c)
    BY <1>1, <1>2 DEF AsksLogind
  <1>4. NoneForNobody(new) => NoneForNobody(out) /\ ~ForNobody(c)
    BY <1>1, <1>2 DEF NoneForNobody
  <1>5. ASSUME NEW now, NEW v, ~ForLogind(c)
        PROVE  HintBecomes(new, now, v) <=> HintBecomes(out, now, v)
    <2>1. (\A i \in 1 .. Len(new) : ~ForLogind(new[i]))
            <=> \A i \in 1 .. Len(out) : ~ForLogind(out[i])
      BY <1>1, <1>2, <1>5
    <2>2. ASSUME NEW i \in 1 .. Len(out)
          PROVE  (\A j \in i + 1 .. Len(new) : ~ForLogind(new[j]))
                   <=> \A j \in i + 1 .. Len(out) : ~ForLogind(out[j])
      BY <1>1, <1>2, <1>5
    <2>3. ~ForLogind(new[Len(out) + 1])
      BY <1>1, <1>5
    <2>4. ASSUME HintBecomes(out, now, v) PROVE HintBecomes(new, now, v)
      <3>1. CASE now = v /\ \A i \in 1 .. Len(out) : ~ForLogind(out[i])
        BY <2>1, <3>1 DEF HintBecomes
      <3>2. ASSUME NEW i \in 1 .. Len(out), ForLogind(out[i]), out[i].value = v,
                   \A j \in i + 1 .. Len(out) : ~ForLogind(out[j])
            PROVE  HintBecomes(new, now, v)
        <4>1. i \in 1 .. Len(new) /\ new[i] = out[i]
          BY <1>1, <1>2
        <4>2. QED
          BY <2>2, <3>2, <4>1 DEF HintBecomes
      <3>3. QED
        BY <2>4, <3>1, <3>2 DEF HintBecomes
    <2>5. ASSUME HintBecomes(new, now, v) PROVE HintBecomes(out, now, v)
      <3>1. CASE now = v /\ \A i \in 1 .. Len(new) : ~ForLogind(new[i])
        BY <2>1, <3>1 DEF HintBecomes
      <3>2. ASSUME NEW i \in 1 .. Len(new), ForLogind(new[i]), new[i].value = v,
                   \A j \in i + 1 .. Len(new) : ~ForLogind(new[j])
            PROVE  HintBecomes(out, now, v)
        <4>1. i \in 1 .. Len(out) /\ new[i] = out[i]
          BY <1>1, <1>2, <2>3, <3>2
        <4>2. QED
          BY <2>2, <3>2, <4>1 DEF HintBecomes
      <3>3. QED
        BY <2>5, <3>1, <3>2 DEF HintBecomes
    <2>6. QED
      BY <2>4, <2>5
  <1>6. ASSUME NEW now, NEW v, ForLogind(c)
        PROVE  HintBecomes(new, now, v) <=> c.value = v
    <2>1. Len(out) + 1 + 1 .. Len(new) = {}
      BY <1>1
    <2>2. QED
      BY <1>1, <1>2, <1>6, <2>1 DEF HintBecomes
  <1>7. QED
    BY <1>1, <1>3, <1>4, <1>5, <1>6 DEF new

(* What the oldest one makes of it when it is taken.                       *)
LEMMA CallGone ==
  ASSUME NEW out \in Seq(LogindCalls), out # <<>>
  PROVE  /\ Head(out) \in LogindCalls
         /\ Tail(out) \in Seq(LogindCalls)
         /\ OnlyListNames(out) => Head(out).call = "ListNames" /\ OnlyListNames(Tail(out))
         /\ AsksLogind(Tail(out)) \/ AsksForSession(Head(out)) => AsksLogind(out)
         /\ NoneForNobody(Tail(out)) /\ ~ForNobody(Head(out)) => NoneForNobody(out)
         /\ \A now, v : ~ForLogind(Head(out)) =>
              (HintBecomes(Tail(out), now, v) <=> HintBecomes(out, now, v))
         /\ \A now, v : ForLogind(Head(out)) =>
              (HintBecomes(Tail(out), Head(out).value, v) <=> HintBecomes(out, now, v))
  <1> DEFINE new == Tail(out)
             h   == Head(out)
  <1>1. /\ new \in Seq(LogindCalls) /\ Len(new) = Len(out) - 1 /\ Len(out) \in Nat \ {0}
        /\ \A i \in 1 .. Len(new) : new[i] = out[i + 1]
        /\ out[1] = h /\ h \in LogindCalls
    BY HeadTailProperties, EmptySeq
  <1> HIDE DEF new, h
  <1>2. /\ 1 \in 1 .. Len(out)
        /\ \A i \in 1 .. Len(new) : i + 1 \in 1 .. Len(out) /\ i + 1 # 1
        /\ \A i \in 1 .. Len(out) : i # 1 => i - 1 \in 1 .. Len(new) /\ (i - 1) + 1 = i
    BY <1>1
  <1>3. \A i \in 1 .. Len(out) : i # 1 => new[i - 1] = out[i]
    BY <1>1, <1>2
  <1>4. /\ OnlyListNames(out) => h.call = "ListNames" /\ OnlyListNames(new)
        /\ AsksLogind(new) \/ AsksForSession(h) => AsksLogind(out)
    <2>1. OnlyListNames(out) => h.call = "ListNames" /\ OnlyListNames(new)
      BY <1>1, <1>2 DEF OnlyListNames
    <2>2. AsksLogind(new) \/ AsksForSession(h) => AsksLogind(out)
      BY <1>1, <1>2 DEF AsksLogind
    <2>3. QED
      BY <2>1, <2>2
  <1>5. NoneForNobody(new) /\ ~ForNobody(h) => NoneForNobody(out)
    BY <1>1, <1>2, <1>3 DEF NoneForNobody
  <1>6. ASSUME NEW i \in 1 .. Len(new)
        PROVE  (\A j \in i + 1 .. Len(new) : ~ForLogind(new[j]))
                 <=> \A j \in (i + 1) + 1 .. Len(out) : ~ForLogind(out[j])
    <2>1. \A j \in i + 1 .. Len(new) : j + 1 \in (i + 1) + 1 .. Len(out) /\ new[j] = out[j + 1]
      BY <1>1
    <2>2. \A j \in (i + 1) + 1 .. Len(out) : j - 1 \in i + 1 .. Len(new) /\ new[j - 1] = out[j]
      BY <1>1, <1>3
    <2>3. QED
      BY <2>1, <2>2
  <1>7. (\A j \in 1 .. Len(new) : ~ForLogind(new[j]))
          <=> \A j \in 1 + 1 .. Len(out) : ~ForLogind(out[j])
    <2>1. \A j \in 1 .. Len(new) : j + 1 \in 1 + 1 .. Len(out) /\ new[j] = out[j + 1]
      BY <1>1
    <2>2. \A j \in 1 + 1 .. Len(out) : j - 1 \in 1 .. Len(new) /\ new[j - 1] = out[j]
      BY <1>1, <1>3
    <2>3. QED
      BY <2>1, <2>2
  <1>8. 1 .. Len(out) = {1} \cup (1 + 1 .. Len(out))
    BY <1>1
  <1> DEFINE last(q, v) == \E i \in 1 .. Len(q) :
                             /\ ForLogind(q[i]) /\ q[i].value = v
                             /\ \A j \in i + 1 .. Len(q) : ~ForLogind(q[j])
  <1>9. ASSUME NEW v
        PROVE  last(out, v) <=> \/ last(new, v)
                                \/ /\ ForLogind(h) /\ h.value = v
                                   /\ \A j \in 1 .. Len(new) : ~ForLogind(new[j])
    <2>1. ASSUME last(out, v)
          PROVE  \/ last(new, v)
                 \/ /\ ForLogind(h) /\ h.value = v
                    /\ \A j \in 1 .. Len(new) : ~ForLogind(new[j])
      <3>1. PICK i \in 1 .. Len(out) : /\ ForLogind(out[i]) /\ out[i].value = v
                                       /\ \A j \in i + 1 .. Len(out) : ~ForLogind(out[j])
        BY <2>1
      <3>2. CASE i = 1
        BY <1>1, <1>7, <3>1, <3>2
      <3>3. CASE i # 1
        <4>1. i - 1 \in 1 .. Len(new) /\ (i - 1) + 1 = i /\ new[i - 1] = out[i]
          BY <1>2, <1>3, <3>3
        <4>2. \A j \in (i - 1) + 1 .. Len(new) : ~ForLogind(new[j])
          BY <1>6, <3>1, <4>1
        <4>3. QED
          BY <3>1, <4>1, <4>2
      <3>4. QED
        BY <3>2, <3>3
    <2>2. ASSUME last(new, v)
          PROVE  last(out, v)
      <3>1. PICK i \in 1 .. Len(new) : /\ ForLogind(new[i]) /\ new[i].value = v
                                       /\ \A j \in i + 1 .. Len(new) : ~ForLogind(new[j])
        BY <2>2
      <3>2. i + 1 \in 1 .. Len(out) /\ new[i] = out[i + 1]
        BY <1>1, <1>2
      <3>3. \A j \in (i + 1) + 1 .. Len(out) : ~ForLogind(out[j])
        BY <1>6, <3>1
      <3>4. QED
        BY <3>1, <3>2, <3>3
    <2>3. ASSUME ForLogind(h), h.value = v, \A j \in 1 .. Len(new) : ~ForLogind(new[j])
          PROVE  last(out, v)
      BY <1>1, <1>2, <1>7, <2>3
    <2>4. QED
      BY <2>1, <2>2, <2>3
  <1>10. \A q, now, v : HintBecomes(q, now, v) <=>
           \/ now = v /\ \A i \in 1 .. Len(q) : ~ForLogind(q[i])
           \/ last(q, v)
    BY DEF HintBecomes
  <1> HIDE DEF last
  <1>11. (\A i \in 1 .. Len(out) : ~ForLogind(out[i]))
           <=> ~ForLogind(h) /\ \A i \in 1 .. Len(new) : ~ForLogind(new[i])
    BY <1>1, <1>7, <1>8
  <1>12. ASSUME NEW now, NEW v, ~ForLogind(h)
         PROVE  HintBecomes(new, now, v) <=> HintBecomes(out, now, v)
    BY <1>9, <1>10, <1>11, <1>12
  <1>13. ASSUME NEW now, NEW v, ForLogind(h)
         PROVE  HintBecomes(new, h.value, v) <=> HintBecomes(out, now, v)
    BY <1>9, <1>10, <1>11, <1>13
  <1>14. QED
    BY <1>1, <1>4, <1>5, <1>12, <1>13 DEF new, h

(* No call makes the hint what it is not; to forget it makes it FALSE.     *)
LEMMA NoCall ==
  /\ <<>> \in Seq(LogindCalls)
  /\ ~AsksLogind(<<>>) /\ NoneForNobody(<<>>)
  /\ \A now, v : HintBecomes(<<>>, now, v) <=> now = v
  /\ \A out, now : HintBecomes(out, FALSE, TRUE) => HintBecomes(out, now, TRUE)
  BY DEF AsksLogind, NoneForNobody, HintBecomes

-----------------------------------------------------------------------------
(* Queues of messages.                                                     *)

(* What a message that is added makes of the queue.                        *)
LEMMA MessageAdded ==
  ASSUME NEW in \in Seq(Messages), NEW m \in Messages
  PROVE  /\ Append(in, m) \in Seq(Messages)
         /\ \A s : /\ LogindInTheEnd(in, s) /\ ~TurnsElsewhere(m)
                     => LogindInTheEnd(Append(in, m), s)
                   /\ TurnsToLogind(m) => LogindInTheEnd(Append(in, m), s)
                   /\ /\ LogindAtSession(in, s)
                      /\ LogindSession(m) => LogindInTheEnd(in, s)
                      => LogindAtSession(Append(in, m), s)
         /\ Leaving(Append(in, m)) <=> (Leaving(in) \/ m.kind = "unregistered")
         /\ m.kind = "unregistered" => LeavingAfterSession(Append(in, m))
         /\ LeavingAfterSession(in) /\ ~LogindSession(m) => LeavingAfterSession(Append(in, m))
         /\ NoSession(in) /\ m.kind # "session" => NoSession(Append(in, m))
  <1> DEFINE new == Append(in, m)
             n   == Len(in) + 1
  <1>1. /\ new \in Seq(Messages) /\ Len(new) = n /\ Len(in) \in Nat
        /\ \A i \in 1 .. Len(in) : new[i] = in[i]
        /\ new[n] = m
    BY AppendProperties, LenProperties
  <1>2. /\ 1 .. n = 1 .. Len(in) \cup {n} /\ n + 1 .. n = {} /\ n \in 1 .. n
        /\ \A i \in 1 .. Len(in) : i + 1 .. n = (i + 1 .. Len(in)) \cup {n} /\ i # n
        /\ \A i \in 1 .. Len(in) : i + 1 .. Len(in) \subseteq 1 .. Len(in)
    BY <1>1
  <1> HIDE DEF new, n
  <1>3. ASSUME NEW s, LogindInTheEnd(in, s), ~TurnsElsewhere(m)
        PROVE  LogindAfter(new, s, n)
    <2>1. LogindAfter(in, s, Len(in))
      BY <1>3 DEF LogindInTheEnd
    <2>2. CASE s = "logind" /\ \A i \in 1 .. Len(in) : ~TurnsElsewhere(in[i])
      BY <1>1, <1>2, <1>3, <2>2 DEF LogindAfter
    <2>3. CASE \E i \in 1 .. Len(in) : /\ TurnsToLogind(in[i])
                                       /\ \A j \in i + 1 .. Len(in) : ~TurnsElsewhere(in[j])
      <3>1. PICK i \in 1 .. Len(in) : /\ TurnsToLogind(in[i])
                                      /\ \A j \in i + 1 .. Len(in) : ~TurnsElsewhere(in[j])
        BY <2>3
      <3>2. \A j \in i + 1 .. n : ~TurnsElsewhere(new[j])
        BY <1>1, <1>2, <1>3, <3>1
      <3>3. i \in 1 .. n /\ TurnsToLogind(new[i])
        BY <1>1, <1>2, <3>1
      <3>4. QED
        BY <3>2, <3>3 DEF LogindAfter
    <2>4. QED
      BY <2>1, <2>2, <2>3 DEF LogindAfter
  <1>4. ASSUME NEW s, TurnsToLogind(m)
        PROVE  LogindAfter(new, s, n)
    BY <1>1, <1>2, <1>4 DEF LogindAfter
  <1>5. ASSUME NEW s, LogindAtSession(in, s), LogindSession(m) => LogindInTheEnd(in, s)
        PROVE  LogindAtSession(new, s)
    <2>1. ASSUME NEW i \in 1 .. Len(in), LogindSession(new[i])
          PROVE  LogindAfter(new, s, i)
      <3>1. LogindAfter(in, s, i)
        BY <1>1, <1>5, <2>1 DEF LogindAtSession
      <3>2. /\ \A j \in 1 .. i : j \in 1 .. Len(in)
            /\ \A k \in 1 .. i : \A j \in k + 1 .. i : j \in 1 .. Len(in)
        BY <1>1
      <3>3. QED
        BY <1>1, <3>1, <3>2 DEF LogindAfter
    <2>2. ASSUME LogindSession(m)
          PROVE  LogindAfter(new, s, n)
      <3>1. ~TurnsElsewhere(m)
        BY <2>2 DEF LogindSession, TurnsElsewhere
      <3>2. QED
        BY <1>3, <1>5, <2>2, <3>1
    <2>3. QED
      BY <1>1, <1>2, <2>1, <2>2 DEF LogindAtSession
  <1>6. Leaving(new) <=> (Leaving(in) \/ m.kind = "unregistered")
    BY <1>1, <1>2 DEF Leaving
  <1>7. m.kind = "unregistered" => LeavingAfterSession(new)
    BY <1>1, <1>2 DEF LeavingAfterSession, LogindSession
  <1>8. LeavingAfterSession(in) /\ ~LogindSession(m) => LeavingAfterSession(new)
    <2>1. SUFFICES ASSUME LeavingAfterSession(in), ~LogindSession(m),
                          NEW i \in 1 .. n, LogindSession(new[i])
                   PROVE  \E j \in i + 1 .. n : new[j].kind = "unregistered"
      BY <1>1 DEF LeavingAfterSession
    <2>2. i \in 1 .. Len(in) /\ LogindSession(in[i])
      BY <1>1, <1>2, <2>1
    <2>3. PICK j \in i + 1 .. Len(in) : in[j].kind = "unregistered"
      BY <2>1, <2>2 DEF LeavingAfterSession
    <2>4. j \in i + 1 .. n /\ new[j] = in[j]
      BY <1>1, <1>2, <2>2, <2>3
    <2>5. QED
      BY <2>3, <2>4
  <1>9. NoSession(in) /\ m.kind # "session" => NoSession(new)
    BY <1>1, <1>2 DEF NoSession
  <1>10. QED
    BY <1>1, <1>3, <1>4, <1>5, <1>6, <1>7, <1>8, <1>9 DEF LogindInTheEnd, new

(* What the oldest one makes of it when it is handled: t is the service    *)
(* then.                                                                   *)
LEMMA MessageGone ==
  ASSUME NEW in \in Seq(Messages), in # <<>>
  PROVE  /\ Head(in) \in Messages
         /\ Tail(in) \in Seq(Messages)
         /\ \A s, t :
              \/ TurnsToLogind(Head(in)) /\ t = "logind"
              \/ TurnsElsewhere(Head(in))
              \/ ~TurnsToLogind(Head(in)) /\ t = s
              => /\ LogindInTheEnd(in, s) => LogindInTheEnd(Tail(in), t)
                 /\ LogindAtSession(in, s) => LogindAtSession(Tail(in), t)
         /\ \A s : LogindAtSession(in, s) /\ LogindSession(Head(in)) => s = "logind"
         /\ NoSession(in) => Head(in).kind # "session" /\ NoSession(Tail(in))
         /\ Head(in).kind # "unregistered" => (Leaving(Tail(in)) <=> Leaving(in))
         /\ LeavingAfterSession(in) => LeavingAfterSession(Tail(in))
         /\ LeavingAfterSession(in) /\ LogindSession(Head(in)) => Leaving(Tail(in))
  <1> DEFINE new == Tail(in)
             h   == Head(in)
  <1>1. /\ new \in Seq(Messages) /\ Len(new) = Len(in) - 1 /\ Len(in) \in Nat \ {0}
        /\ \A i \in 1 .. Len(new) : new[i] = in[i + 1]
        /\ in[1] = h /\ h \in Messages
    BY HeadTailProperties, EmptySeq
  <1> HIDE DEF new, h
  <1>2. /\ 1 \in 1 .. Len(in)
        /\ \A i \in 1 .. Len(new) : i + 1 \in 1 .. Len(in) /\ i + 1 # 1
        /\ \A i \in 1 .. Len(in) : i # 1 => i - 1 \in 1 .. Len(new) /\ (i - 1) + 1 = i
    BY <1>1
  <1>3. \A i \in 1 .. Len(in) : i # 1 => new[i - 1] = in[i]
    BY <1>1, <1>2
  <1>4. ASSUME NEW n \in 1 .. Len(in), NEW s, NEW t,
               \/ TurnsToLogind(h) /\ t = "logind"
               \/ TurnsElsewhere(h)
               \/ ~TurnsToLogind(h) /\ t = s,
               LogindAfter(in, s, n)
        PROVE  LogindAfter(new, t, n - 1)
    <2>1. \A j \in 1 .. n - 1 : j + 1 \in 1 .. n /\ j + 1 \in 1 + 1 .. n /\ new[j] = in[j + 1]
      BY <1>1
    <2>2. CASE s = "logind" /\ \A i \in 1 .. n : ~TurnsElsewhere(in[i])
      <3>1. ~TurnsElsewhere(h) /\ \A j \in 1 .. n - 1 : ~TurnsElsewhere(new[j])
        BY <1>1, <2>1, <2>2
      <3>2. QED
        BY <1>4, <2>2, <3>1 DEF LogindAfter
    <2>3. CASE \E i \in 1 .. n : /\ TurnsToLogind(in[i])
                                 /\ \A j \in i + 1 .. n : ~TurnsElsewhere(in[j])
      <3>1. PICK i \in 1 .. n : /\ TurnsToLogind(in[i])
                                /\ \A j \in i + 1 .. n : ~TurnsElsewhere(in[j])
        BY <2>3
      <3>2. CASE i = 1
        <4>1. TurnsToLogind(h) /\ \A j \in 1 .. n - 1 : ~TurnsElsewhere(new[j])
          BY <1>1, <2>1, <3>1, <3>2
        <4>2. t = "logind"
          BY <1>4, <4>1 DEF TurnsToLogind, TurnsElsewhere
        <4>3. QED
          BY <4>1, <4>2 DEF LogindAfter
      <3>3. CASE i # 1
        <4>1. i - 1 \in 1 .. n - 1 /\ new[i - 1] = in[i]
          BY <1>1, <1>3, <3>3
        <4>2. \A j \in (i - 1) + 1 .. n - 1 : j + 1 \in i + 1 .. n /\ new[j] = in[j + 1]
          BY <1>1, <3>3
        <4>3. QED
          BY <3>1, <4>1, <4>2 DEF LogindAfter
      <3>4. QED
        BY <3>2, <3>3
    <2>4. QED
      BY <1>4, <2>2, <2>3 DEF LogindAfter
  <1>5. ASSUME NEW s, NEW t,
               \/ TurnsToLogind(h) /\ t = "logind"
               \/ TurnsElsewhere(h)
               \/ ~TurnsToLogind(h) /\ t = s
        PROVE  /\ LogindInTheEnd(in, s) => LogindInTheEnd(new, t)
               /\ LogindAtSession(in, s) => LogindAtSession(new, t)
    <2>1. LogindInTheEnd(in, s) => LogindInTheEnd(new, t)
      <3>1. Len(in) \in 1 .. Len(in) /\ Len(new) = Len(in) - 1
        BY <1>1
      <3>2. QED
        BY <1>4, <1>5, <3>1 DEF LogindInTheEnd
    <2>2. ASSUME LogindAtSession(in, s), NEW i \in 1 .. Len(new), LogindSession(new[i])
          PROVE  LogindAfter(new, t, i)
      <3>1. i + 1 \in 1 .. Len(in) /\ LogindSession(in[i + 1]) /\ (i + 1) - 1 = i
        BY <1>1, <1>2, <2>2
      <3>2. LogindAfter(in, s, i + 1)
        BY <2>2, <3>1 DEF LogindAtSession
      <3>3. LogindAfter(new, t, (i + 1) - 1)
        BY <1>4, <1>5, <3>1, <3>2
      <3>4. QED
        BY <3>1, <3>3
    <2>3. QED
      BY <2>1, <2>2 DEF LogindAtSession
  <1>6. ASSUME NEW s, LogindAtSession(in, s), LogindSession(h)
        PROVE  s = "logind"
    <2>1. LogindAfter(in, s, 1)
      BY <1>1, <1>2, <1>6 DEF LogindAtSession
    <2>2. ~TurnsToLogind(in[1])
      BY <1>1, <1>6 DEF LogindSession, TurnsToLogind
    <2>3. QED
      BY <2>1, <2>2 DEF LogindAfter
  <1>7. h.kind # "unregistered" => (Leaving(new) <=> Leaving(in))
    BY <1>1, <1>2, <1>3 DEF Leaving
  <1>8. LeavingAfterSession(in) => LeavingAfterSession(new)
    <2>1. SUFFICES ASSUME LeavingAfterSession(in), NEW i \in 1 .. Len(new), LogindSession(new[i])
                   PROVE  \E j \in i + 1 .. Len(new) : new[j].kind = "unregistered"
      BY DEF LeavingAfterSession
    <2>2. PICK j \in (i + 1) + 1 .. Len(in) : in[j].kind = "unregistered"
      BY <1>1, <1>2, <2>1 DEF LeavingAfterSession
    <2>3. j - 1 \in i + 1 .. Len(new) /\ new[j - 1] = in[j]
      BY <1>1, <1>3
    <2>4. QED
      BY <2>2, <2>3
  <1>9. LeavingAfterSession(in) /\ LogindSession(h) => Leaving(new)
    <2>1. SUFFICES ASSUME LeavingAfterSession(in), LogindSession(h)
                   PROVE  Leaving(new)
      OBVIOUS
    <2>2. PICK j \in 1 + 1 .. Len(in) : in[j].kind = "unregistered"
      BY <1>1, <1>2, <2>1 DEF LeavingAfterSession
    <2>3. j - 1 \in 1 .. Len(new) /\ new[j - 1] = in[j]
      BY <1>1, <1>3
    <2>4. QED
      BY <2>2, <2>3 DEF Leaving
  <1>10. NoSession(in) => h.kind # "session" /\ NoSession(new)
    BY <1>1, <1>2 DEF NoSession
  <1>11. QED
    BY <1>1, <1>5, <1>6, <1>7, <1>8, <1>9, <1>10 DEF new, h

-----------------------------------------------------------------------------
(* The steps of the daemon, as far as logind is concerned.                 *)

(* The calls of the daemon and what their fields are.                      *)
LEMMA CallsOfDaemon ==
  /\ LogindTypeOK => outbox \in Seq(LogindCalls)
  /\ ListNames \in LogindCalls /\ ListNames.call = "ListNames"
  /\ \A s \in Services :
       /\ GetSession(s) \in LogindCalls
       /\ AsksForSession(GetSession(s)) => s = "logind"
       /\ ~ForLogind(GetSession(s)) /\ ~ForNobody(GetSession(s))
  /\ \A s, p \in Services, v \in BOOLEAN :
       /\ SetLockedHint(s, p, v) \in LogindCalls
       /\ ~AsksForSession(SetLockedHint(s, p, v))
       /\ SetLockedHint(s, p, v).value = v
       /\ ForLogind(SetLockedHint(s, p, v)) <=> s = "logind" /\ p = "logind"
       /\ ForNobody(SetLockedHint(s, p, v)) <=> ~(s = "logind" /\ p = "logind")
  /\ \A c \in LogindCalls :
       /\ c.call \in {"ListNames", "GetSession", "SetLockedHint"}
       /\ c.to \subseteq Services /\ c.value \in BOOLEAN
  <1>1. LogindTypeOK => outbox \in Seq(LogindCalls)
    BY DEF LogindTypeOK, LogindCalls
  <1>2. ListNames \in LogindCalls /\ ListNames.call = "ListNames"
    BY DEF LogindCalls, ListNames
  <1>3. ASSUME NEW s \in Services
        PROVE  /\ GetSession(s) \in LogindCalls
               /\ AsksForSession(GetSession(s)) => s = "logind"
               /\ ~ForLogind(GetSession(s)) /\ ~ForNobody(GetSession(s))
    BY DEF LogindCalls, GetSession, ListNames, AsksForSession, ForLogind, ForNobody
  <1>4. ASSUME NEW s \in Services, NEW p \in Services, NEW v \in BOOLEAN
        PROVE  /\ SetLockedHint(s, p, v) \in LogindCalls
               /\ ~AsksForSession(SetLockedHint(s, p, v))
               /\ SetLockedHint(s, p, v).value = v
               /\ ForLogind(SetLockedHint(s, p, v)) <=> s = "logind" /\ p = "logind"
               /\ ForNobody(SetLockedHint(s, p, v)) <=> ~(s = "logind" /\ p = "logind")
    <2>1. SetLockedHint(s, p, v) \in LogindCalls
      BY DEF LogindCalls, SetLockedCalls
    <2>2. QED
      BY <2>1 DEF SetLockedHint, AsksForSession, ForLogind, ForNobody
  <1>5. ASSUME NEW c \in LogindCalls
        PROVE  /\ c.call \in {"ListNames", "GetSession", "SetLockedHint"}
               /\ c.to \subseteq Services /\ c.value \in BOOLEAN
    <2>1. CASE c = ListNames
      BY <2>1 DEF ListNames
    <2>2. CASE \E s \in Services : c = GetSession(s)
      BY <2>2 DEF GetSession, ListNames
    <2>3. CASE \E s, p \in Services, v \in BOOLEAN : c = SetLockedHint(s, p, v)
      BY <2>3 DEF SetLockedHint
    <2>4. QED
      BY <2>1, <2>2, <2>3 DEF LogindCalls, SetLockedCalls
  <1>6. QED
    BY <1>1, <1>2, <1>3, <1>4, <1>5

(* What setLocked(v) makes of the calls out: on the session of logind it   *)
(* is for logind, and then v will be the hint.                             *)
LEMMA Notified ==
  ASSUME LogindIInv, NEW out \in Seq(LogindCalls), NEW v \in BOOLEAN
  PROVE  LET told == SetLocked(connected, sessionPath, v)
             new  == out \o told
         IN  /\ told \in Seq(LogindCalls) /\ new \in Seq(LogindCalls)
             /\ AsksLogind(new) => AsksLogind(out)
             /\ told = <<>> => new = out /\ ~AtLogind
             /\ told # <<>> => /\ service # "none"
                               /\ NoneForNobody(new) => HintBecomes(new, hint, v)
             /\ AtLogind /\ HintBecomes(new, hint, TRUE) => v = TRUE
  <1> DEFINE told == SetLocked(connected, sessionPath, v)
             new  == out \o told
  <1>1. LogindTypeOK
    BY DEF LogindIInv
  <1>2. CASE connected /\ sessionPath # "none"
    <2> DEFINE c == SetLockedHint(service, sessionPath, v)
    <2>1. service \in Services /\ sessionPath \in Services
      BY <1>1, <1>2 DEF LogindIInv, ServiceIsKnown, LogindTypeOK
    <2>2. told = <<c>> /\ new = out \o <<c>>
      BY <1>2 DEF SetLocked
    <2> HIDE DEF told, new
    <2>3. /\ c \in LogindCalls /\ ~AsksForSession(c) /\ c.value = v
          /\ ForLogind(c) <=> service = "logind" /\ sessionPath = "logind"
          /\ ForNobody(c) <=> ~(service = "logind" /\ sessionPath = "logind")
      BY <2>1, CallsOfDaemon
    <2>4. AtLogind => ForLogind(c)
      BY <2>3 DEF LogindIInv, ServiceIsLogind, AtLogind
    <2> HIDE DEF c
    <2>5. new = Append(out, c)
      BY <2>2, <2>3, AppendIsConcat
    <2>6. /\ new \in Seq(LogindCalls)
          /\ AsksLogind(new) => AsksLogind(out)
          /\ NoneForNobody(new) => ~ForNobody(c)
          /\ ForLogind(c) => \A now, w : HintBecomes(new, now, w) <=> c.value = w
      BY <2>3, <2>5, CallAdded
    <2>7. told # <<>> /\ service # "none"
      <3>1. Len(<<c>>) = 1 /\ Len(<<>>) = 0
        OBVIOUS
      <3>2. <<c>> # <<>>
        BY <3>1
      <3>3. QED
        BY <2>1, <2>2, <3>2 DEF Services
    <2>8. told \in Seq(LogindCalls)
      BY <2>2, <2>3
    <2>9. QED
      BY <2>3, <2>4, <2>6, <2>7, <2>8 DEF told, new
  <1>3. CASE ~(connected /\ sessionPath # "none")
    <2>1. told = <<>> /\ ~AtLogind
      BY <1>3 DEF SetLocked, AtLogind
    <2> HIDE DEF told
    <2>2. told \in Seq(LogindCalls) /\ new = out
      BY <2>1, ConcatEmptySeq
    <2> HIDE DEF new
    <2>3. QED
      BY <2>1, <2>2 DEF told, new
  <1>4. QED
    BY <1>2, <1>3

(* All that lock() or doUnlock() may tell, of which v is the last.         *)
Telling(told, v) ==
  \/ told = SetLocked(connected, sessionPath, v)
  \/ told = SetLocked(connected, sessionPath, FALSE) \o SetLocked(connected, sessionPath, v)

(* What setLocked(v) makes of the calls under way holds of all of that.    *)
LEMMA AllNotified ==
  ASSUME LogindIInv, NEW v \in BOOLEAN, NEW told, Telling(told, v)
  PROVE  LET new == outbox \o told
         IN  /\ new \in Seq(LogindCalls)
             /\ AsksLogind(new) => AsksLogind(outbox)
             /\ told = <<>> => new = outbox /\ ~AtLogind
             /\ told # <<>> => /\ service # "none"
                               /\ NoneForNobody(new) => HintBecomes(new, hint, v)
             /\ AtLogind /\ HintBecomes(new, hint, TRUE) => v = TRUE
  <1> DEFINE new == outbox \o told
             first == SetLocked(connected, sessionPath, FALSE)
             last  == SetLocked(connected, sessionPath, v)
             out   == outbox \o first
  <1>1. outbox \in Seq(LogindCalls)
    BY CallsOfDaemon DEF LogindIInv
  <1>2. CASE told = last
    BY <1>1, <1>2, Notified
  <1>3. CASE told = first \o last
    <2>1. /\ first \in Seq(LogindCalls) /\ out \in Seq(LogindCalls)
          /\ AsksLogind(out) => AsksLogind(outbox)
      BY <1>1, Notified
    <2>2. last \in Seq(LogindCalls)
      BY <1>1, Notified
    <2>3. first = <<>> <=> last = <<>>
      <3>1. \A c : Len(<<c>>) = 1 /\ Len(<<>>) = 0
        OBVIOUS
      <3>2. \A c : <<c>> # <<>>
        BY <3>1
      <3>3. CASE connected /\ sessionPath # "none"
        BY <3>2, <3>3 DEF SetLocked
      <3>4. CASE ~(connected /\ sessionPath # "none")
        BY <3>4 DEF SetLocked
      <3>5. QED
        BY <3>3, <3>4
    <2> HIDE DEF first, last
    <2>4. (last = <<>> => told = <<>>) /\ (last # <<>> => told # <<>>)
      <3>1. first \o last = <<>> <=> first = <<>> /\ last = <<>>
        BY <2>1, <2>2, ConcatEqualIffEmpty
      <3>2. QED
        BY <1>3, <2>3, <3>1
    <2>5. new = out \o last
      <3>1. outbox \o (first \o last) = (outbox \o first) \o last
        BY <1>1, <2>1, <2>2, ConcatAssociative
      <3>2. QED
        BY <1>3, <3>1
    <2> HIDE DEF out, new
    <2>6. /\ new \in Seq(LogindCalls)
          /\ AsksLogind(new) => AsksLogind(out)
          /\ last = <<>> => ~AtLogind
          /\ last # <<>> => /\ service # "none"
                            /\ NoneForNobody(new) => HintBecomes(new, hint, v)
          /\ AtLogind /\ HintBecomes(new, hint, TRUE) => v = TRUE
      <3>1. /\ out \o last \in Seq(LogindCalls)
            /\ AsksLogind(out \o last) => AsksLogind(out)
            /\ last = <<>> => ~AtLogind
            /\ last # <<>> => /\ service # "none"
                              /\ NoneForNobody(out \o last) => HintBecomes(out \o last, hint, v)
            /\ AtLogind /\ HintBecomes(out \o last, hint, TRUE) => v = TRUE
        BY <2>1, Notified DEF last
      <3>2. QED
        BY <2>5, <3>1
    <2>7. told = <<>> => new = outbox
      BY <1>1, ConcatEmptySeq DEF new
    <2>8. QED
      BY <2>1, <2>4, <2>6, <2>7 DEF new
  <1>4. QED
    BY <1>2, <1>3 DEF Telling

(* The calls of lock() end with that of the lock, whether it fails or not. *)
LEMMA LockTells ==
  ASSUME LogindIInv, NEW starts \in BOOLEAN
  PROVE  Telling(LockCalls(connected, sessionPath, starts), TRUE)
  <1> DEFINE last == SetLocked(connected, sessionPath, TRUE)
  <1>1. last \in Seq(LogindCalls)
    <2>1. outbox \in Seq(LogindCalls)
      BY CallsOfDaemon DEF LogindIInv
    <2>2. QED
      BY <2>1, Notified
  <1>2. <<>> \o last = last
    BY <1>1, ConcatEmptySeq
  <1>3. QED
    BY <1>2 DEF LockCalls, Telling

(* A message that is taken and does not turn the daemon to another service *)
(* leaves what is said about the rest of the queue as it is.               *)
LEMMA Undisturbed ==
  ASSUME LogindIInv,
         \/ UNCHANGED inbox
         \/ /\ inbox # <<>> /\ Head(inbox).kind \in {"session", "Lock", "Unlock", "Sleep"}
            /\ inbox' = Tail(inbox)
  PROVE  /\ inbox' \in Seq(Messages)
         /\ NoSession(inbox) => NoSession(inbox')
         /\ \A s : LogindInTheEnd(inbox, s) => LogindInTheEnd(inbox', s)
         /\ LogindAtSession(inbox', service)
         /\ Leaving(inbox') <=> Leaving(inbox)
         /\ LeavingAfterSession(inbox) => LeavingAfterSession(inbox')
  <1>1. inbox \in Seq(Messages) /\ LogindAtSession(inbox, service)
    BY DEF LogindIInv, LogindTypeOK, ServiceIsLogind
  <1>2. CASE UNCHANGED inbox
    BY <1>1, <1>2
  <1>3. CASE /\ inbox # <<>> /\ Head(inbox).kind \in {"session", "Lock", "Unlock", "Sleep"}
             /\ inbox' = Tail(inbox)
    <2>1. ~TurnsToLogind(Head(inbox)) /\ Head(inbox).kind # "unregistered"
      BY <1>3 DEF TurnsToLogind
    <2>2. QED
      BY <1>1, <1>3, <2>1, MessageGone
  <1>4. QED
    BY <1>2, <1>3

(* The screen is locked or unlocked, be it on a signal, and logind is told.*)
LEMMA SetLockedPreserves ==
  ASSUME LogindIInv, NEW v \in BOOLEAN, NEW told, Telling(told, v),
         outbox' = outbox \o told, lost' = (told = <<>>), unread' = FALSE,
         locked' \in BOOLEAN, failed' \in BOOLEAN, locked' \/ failed' <=> v,
         UNCHANGED <<client, owners, hint, refused>>,
         \/ UNCHANGED inbox
         \/ /\ inbox # <<>> /\ Head(inbox).kind \in {"session", "Lock", "Unlock", "Sleep"}
            /\ inbox' = Tail(inbox)
  PROVE  LogindIInv'
  <1>1. /\ LogindTypeOK /\ ServiceIsKnown /\ ServiceIsLogind /\ LeavingIsHeard
    BY DEF LogindIInv
  <1>2. /\ outbox' \in Seq(LogindCalls)
        /\ AsksLogind(outbox') => AsksLogind(outbox)
        /\ told = <<>> => outbox' = outbox
        /\ told # <<>> => /\ service # "none"
                          /\ NoneForNobody(outbox') => HintBecomes(outbox', hint, v)
        /\ AtLogind /\ HintBecomes(outbox', hint, TRUE) => v = TRUE
    BY AllNotified
  <1>3. UNCHANGED <<connected, service, sessionPath, rules, owners, hint>>
    BY DEF client
  <1>4. /\ inbox' \in Seq(Messages)
        /\ NoSession(inbox) => NoSession(inbox')
        /\ \A s : LogindInTheEnd(inbox, s) => LogindInTheEnd(inbox', s)
        /\ LogindAtSession(inbox', service)
        /\ Leaving(inbox') <=> Leaving(inbox)
        /\ LeavingAfterSession(inbox) => LeavingAfterSession(inbox')
    BY Undisturbed
  <1>5. LogindTypeOK'
    BY <1>1, <1>2, <1>3, <1>4 DEF LogindTypeOK, LogindCalls
  <1>6. ServiceIsKnown'
    BY <1>1, <1>2, <1>3, <1>4 DEF ServiceIsKnown
  <1>7. ServiceIsLogind'
    BY <1>1, <1>2, <1>3, <1>4 DEF ServiceIsLogind, AtLogind
  <1>8. LeavingIsHeard'
    BY <1>1, <1>3, <1>4 DEF LeavingIsHeard, AtLogind
  <1>9. HintIsToBeRight'
    BY <1>2, <1>3 DEF HintIsToBeRight, AtLogind
  <1>10. QED
    BY <1>5, <1>6, <1>7, <1>8, <1>9 DEF LogindIInv

(* A step that leaves the screen as it is announces nothing.  The values   *)
(* are the same, and so is what they say.                                  *)
SameAsBefore ==
  /\ UNCHANGED <<locked, failed, unread>>
  /\ (locked' <=> locked) /\ (failed' <=> failed) /\ (unread' <=> unread)

(* A step that leaves the screen and the reading of the hint alone.        *)
LEMMA SameScreen ==
  ASSUME UNCHANGED <<screen, unread>>
  PROVE  SameAsBefore
  BY DEF screen, SameAsBefore

(* A signal, or a reply to GetSession, of which nothing comes.             *)
LEMMA NothingToldPreserves ==
  ASSUME LogindIInv,
         inbox # <<>>, Head(inbox).kind \in {"session", "Lock", "Unlock", "Sleep"},
         inbox' = Tail(inbox), UNCHANGED <<client, bus, outbox>>,
         UNCHANGED <<screen, unread>>
  PROVE  LogindIInv'
  <1>1. /\ LogindTypeOK /\ ServiceIsKnown /\ ServiceIsLogind /\ LeavingIsHeard
        /\ HintIsToBeRight
    BY DEF LogindIInv
  <1>2. /\ UNCHANGED <<connected, service, sessionPath, rules>>
        /\ UNCHANGED <<owners, hint, lost, refused, outbox>>
        /\ SameAsBefore
    BY SameScreen DEF client, bus
  <1>3. /\ inbox' \in Seq(Messages)
        /\ NoSession(inbox) => NoSession(inbox')
        /\ \A s : LogindInTheEnd(inbox, s) => LogindInTheEnd(inbox', s)
        /\ LogindAtSession(inbox', service)
        /\ Leaving(inbox') <=> Leaving(inbox)
        /\ LeavingAfterSession(inbox) => LeavingAfterSession(inbox')
    BY Undisturbed
  <1>4. LogindTypeOK'
    BY <1>1, <1>2, <1>3 DEF LogindTypeOK
  <1>5. ServiceIsKnown'
    BY <1>1, <1>2, <1>3 DEF ServiceIsKnown
  <1>6. ServiceIsLogind'
    BY <1>1, <1>2, <1>3 DEF ServiceIsLogind, AtLogind
  <1>7. LeavingIsHeard'
    BY <1>1, <1>2, <1>3 DEF LeavingIsHeard, AtLogind
  <1>8. HintIsToBeRight'
    BY <1>1, <1>2, <1>3 DEF HintIsToBeRight, AtLogind, SameAsBefore
  <1>9. QED
    BY <1>2, <1>4, <1>5, <1>6, <1>7, <1>8 DEF LogindIInv, SameAsBefore

(* The daemon turns to a service, or finds none it does not hold to.       *)
LEMMA NamesPreserves ==
  ASSUME LogindIInv, NamesReplied \/ LogindRegistered, UNCHANGED <<screen, unread>>
  PROVE  LogindIInv'
  <1> DEFINE h == Head(inbox)
  <1>1. /\ LogindTypeOK /\ ServiceIsKnown /\ ServiceIsLogind /\ LeavingIsHeard
        /\ HintIsToBeRight
    BY DEF LogindIInv
  <1>2. /\ inbox # <<>> /\ inbox \in Seq(Messages) /\ inbox' = Tail(inbox)
        /\ h.kind \in {"names", "registered"}
        /\ UNCHANGED <<connected, sessionPath, owners, hint, lost, refused>>
        /\ SameAsBefore
    BY <1>1, SameScreen DEF NamesReplied, LogindRegistered, Arrived, LogindTypeOK, bus
  <1>3. \/ \E s \in Services : /\ service' = s
                               /\ rules' = rules \cup {<<s, "manager">>}
                               /\ outbox' = Append(outbox, GetSession(s))
                               /\ \/ TurnsToLogind(h) /\ s = "logind"
                                  \/ TurnsElsewhere(h) /\ s # "logind" /\ ~connected
        \/ ~TurnsToLogind(h) /\ UNCHANGED <<service, rules, outbox>>
    <2>1. CASE LogindRegistered
      BY <1>2, <2>1 DEF LogindRegistered, ServiceRegistered, Arrived, TurnsToLogind, Services
    <2>2. CASE NamesReplied
      BY <1>2, <2>2
         DEF NamesReplied, ServiceRegistered, Arrived, TurnsToLogind, TurnsElsewhere, Services
    <2>3. QED
      BY <2>1, <2>2
  <1> HIDE DEF h
  <1>4. /\ outbox' \in Seq(LogindCalls)
        /\ AsksLogind(outbox') => AsksLogind(outbox) \/ (service' = "logind" /\ TurnsToLogind(h))
        /\ NoneForNobody(outbox') => NoneForNobody(outbox)
        /\ \A v : HintBecomes(outbox', hint, v) <=> HintBecomes(outbox, hint, v)
    <2>1. outbox \in Seq(LogindCalls) 
      BY <1>1, CallsOfDaemon
    <2>2. CASE UNCHANGED outbox
      BY <2>1, <2>2
    <2>3. CASE \E s \in Services : outbox' = Append(outbox, GetSession(s))
      <3>1. PICK s \in Services : /\ outbox' = Append(outbox, GetSession(s)) /\ service' = s
                                  /\ TurnsToLogind(h) \/ s # "logind"
        BY <1>3, <2>3
      <3>2. QED
        BY <2>1, <3>1, CallsOfDaemon, CallAdded
    <2>4. QED
      BY <1>3, <2>2, <2>3
  <1>5. /\ inbox' \in Seq(Messages)
        /\ NoSession(inbox) => NoSession(inbox')
        /\ LogindInTheEnd(inbox, service) => LogindInTheEnd(inbox', service')
        /\ LogindInTheEnd(inbox, "logind") => LogindInTheEnd(inbox', "logind")
        /\ LogindAtSession(inbox', service')
        /\ Leaving(inbox') <=> Leaving(inbox)
        /\ LeavingAfterSession(inbox) => LeavingAfterSession(inbox')
    <2>1. \/ TurnsToLogind(h) /\ service' = "logind"
          \/ TurnsElsewhere(h)
          \/ ~TurnsToLogind(h) /\ UNCHANGED service
      BY <1>3
    <2>2. h.kind # "unregistered"
      BY <1>2
    <2>3. LogindAtSession(inbox, service)
      BY <1>1 DEF ServiceIsLogind
    <2>4. QED
      BY <1>2, <2>1, <2>2, <2>3, MessageGone DEF h
  <1>6. LogindTypeOK'
    <2>1. service' \in Services \cup {"none"} /\ rules' \subseteq Services \X Objects
      BY <1>1, <1>3 DEF LogindTypeOK, Objects
    <2>2. QED
      BY <1>1, <1>2, <1>4, <1>5, <2>1 DEF LogindTypeOK, LogindCalls
  <1>7. ServiceIsKnown'
    <2>1. service' = "none" => service = "none" /\ UNCHANGED outbox
      BY <1>3 DEF Services
    <2>2. QED
      BY <1>1, <1>2, <1>5, <2>1 DEF ServiceIsKnown
  <1>8. ServiceIsLogind'
    <2>1. (AtLogind => service = "logind")'
      BY <1>1, <1>2, <1>3 DEF ServiceIsLogind, AtLogind
    <2>2. QED
      BY <1>1, <1>2, <1>4, <1>5, <2>1 DEF ServiceIsLogind
  <1>9. LeavingIsHeard'
    BY <1>1, <1>2, <1>5 DEF LeavingIsHeard, AtLogind
  <1>10. HintIsToBeRight'
    BY <1>1, <1>2, <1>4, <1>5 DEF HintIsToBeRight, AtLogind, SameAsBefore
  <1>11. QED
    BY <1>2, <1>6, <1>7, <1>8, <1>9, <1>10 DEF LogindIInv, SameAsBefore

(* The daemon hears that logind has left.                                  *)
LEMMA UnregisteredPreserves ==
  ASSUME LogindIInv, LogindUnregistered, UNCHANGED <<screen, unread>>
  PROVE  LogindIInv'
  <1>1. /\ LogindTypeOK /\ ServiceIsKnown /\ ServiceIsLogind /\ LeavingIsHeard
        /\ HintIsToBeRight
    BY DEF LogindIInv
  <1>2. /\ inbox # <<>> /\ inbox \in Seq(Messages) /\ inbox' = Tail(inbox)
        /\ Head(inbox).kind = "unregistered"
        /\ connected' = FALSE /\ sessionPath' = "none"
        /\ UNCHANGED <<service, rules, outbox, owners, hint, lost, refused>>
        /\ SameAsBefore
    BY <1>1, SameScreen DEF LogindUnregistered, Arrived, LogindTypeOK, bus
  <1>3. /\ inbox' \in Seq(Messages)
        /\ NoSession(inbox) => NoSession(inbox')
        /\ \A s : LogindInTheEnd(inbox, s) => LogindInTheEnd(inbox', s)
        /\ LogindAtSession(inbox, service) => LogindAtSession(inbox', service)
        /\ LeavingAfterSession(inbox) => LeavingAfterSession(inbox')
    <2>1. ~TurnsToLogind(Head(inbox))
      BY <1>2 DEF TurnsToLogind
    <2>2. QED
      BY <1>2, <2>1, MessageGone
  <1>4. LogindTypeOK'
    BY <1>1, <1>2, <1>3 DEF LogindTypeOK
  <1>5. ServiceIsKnown'
    BY <1>1, <1>2, <1>3 DEF ServiceIsKnown
  <1>6. ServiceIsLogind'
    BY <1>1, <1>2, <1>3 DEF ServiceIsLogind, AtLogind
  <1>7. LeavingIsHeard'
    BY <1>1, <1>2, <1>3 DEF LeavingIsHeard, AtLogind
  <1>8. HintIsToBeRight'
    BY <1>1, <1>2 DEF HintIsToBeRight, AtLogind, SameAsBefore
  <1>9. QED
    BY <1>2, <1>4, <1>5, <1>6, <1>7, <1>8 DEF LogindIInv, SameAsBefore

(* The daemon connects to the session, and locks one that is locked.       *)
LEMMA ConnectedPreserves ==
  ASSUME LogindIInv, Connected
  PROVE  LogindIInv'
  <1>1. /\ LogindTypeOK /\ ServiceIsKnown /\ ServiceIsLogind /\ LeavingIsHeard
        /\ HintIsToBeRight
        /\ locked \in BOOLEAN /\ failed \in BOOLEAN /\ unread \in BOOLEAN
    BY DEF LogindIInv
  <1>2. PICK path \in Services :
          \/ \E starts \in BOOLEAN :
               LET told == LockCalls(TRUE, path, starts) IN
                 IsLocked(path) /\ Establish(starts, told) /\ SessionReplied(path, told)
          \/ IsLocked(path) /\ EnsureLocked /\ SessionReplied(path, <<>>) /\ unread' = FALSE
          \/ StayAsIs /\ SessionReplied(path, <<>>) /\ unread' = IsLocked(path)
    BY DEF Connected
  <1>3. \E more : SessionReplied(path, more)
    BY <1>2
  <1>4. /\ inbox # <<>> /\ inbox \in Seq(Messages) /\ inbox' = Tail(inbox)
        /\ Head(inbox).kind = "session" /\ Head(inbox).of = {path}
        /\ outbox = <<>> /\ connected' = TRUE /\ sessionPath' = path
        /\ rules' = rules \cup {<<service, path>>}
        /\ UNCHANGED <<service, owners, hint, refused>>
    BY <1>1, <1>3 DEF SessionReplied, Arrived, LogindTypeOK
  <1>5. /\ inbox' \in Seq(Messages)
        /\ \A s : LogindInTheEnd(inbox, s) => LogindInTheEnd(inbox', s)
        /\ LogindAtSession(inbox', service)
        /\ LeavingAfterSession(inbox) => LeavingAfterSession(inbox')
    BY <1>4, Undisturbed
  <1>6. /\ service \in Services
        /\ path = "logind" => service = "logind"
        /\ path = "logind" /\ LeavingAfterSession(inbox) => Leaving(inbox')
    <2>1. ~NoSession(inbox)
      BY <1>4, MessageGone
    <2>2. path = "logind" => LogindSession(Head(inbox))
      BY <1>4 DEF LogindSession
    <2>3. QED
      BY <1>1, <1>4, <2>1, <2>2, MessageGone
         DEF ServiceIsKnown, ServiceIsLogind, LogindTypeOK
  <1>7. /\ outbox' \in Seq(LogindCalls) /\ ~AsksLogind(outbox')
        /\ locked' \in BOOLEAN /\ failed' \in BOOLEAN /\ unread' \in BOOLEAN
        /\ lost' \in BOOLEAN
        /\ path = "logind" /\ "logind" \in owners /\ HintBecomes(outbox', hint, TRUE)
             => locked' \/ failed' \/ unread'
        /\ ~lost' /\ NoneForNobody(outbox') 
             => IF locked' \/ failed' THEN HintBecomes(outbox', hint, TRUE)
                                     ELSE HintBecomes(outbox', hint, FALSE)
    <2>1. ASSUME NEW starts \in BOOLEAN, NEW told, told = LockCalls(TRUE, path, starts),
                 IsLocked(path), Establish(starts, told), SessionReplied(path, told)
          PROVE  <1>7!:
      <3> DEFINE cT == SetLockedHint(service, path, TRUE)
                 cF == SetLockedHint(service, path, FALSE)
      <3>1. /\ outbox' = told /\ locked' = starts /\ failed' = ~starts /\ unread' = FALSE
            /\ lost' = (told = <<>>)
        BY <2>1 DEF SessionReplied, Establish
      <3>2. told = <<>> \o <<cT>> \/ told = <<cF>> \o <<cT>>
        BY <2>1 DEF LockCalls, SetLocked, Services
      <3>3. /\ cT \in LogindCalls /\ cT.value = TRUE /\ ForLogind(cT)
            /\ cF \in LogindCalls /\ ~AsksForSession(cT) /\ ~AsksForSession(cF)
        BY <1>6, <2>1, CallsOfDaemon DEF IsLocked
      <3> HIDE DEF cT, cF
      <3>4. PICK out \in Seq(LogindCalls) : told = Append(out, cT) /\ ~AsksLogind(out)
        <4>1. /\ <<>> \in Seq(LogindCalls) /\ <<cF>> \in Seq(LogindCalls)
              /\ Len(<<cF>>) = 1 /\ <<cF>>[1] = cF
          BY <3>3
        <4>2. ~AsksLogind(<<>>) /\ ~AsksLogind(<<cF>>)
          BY <3>3, <4>1, NoCall DEF AsksLogind
        <4>3. <<>> \o <<cT>> = Append(<<>>, cT)
          BY <3>3, <4>1, AppendIsConcat
        <4>4. <<cF>> \o <<cT>> = Append(<<cF>>, cT)
          BY <3>3, <4>1, AppendIsConcat
        <4>5. CASE told = <<>> \o <<cT>>
          BY <4>1, <4>2, <4>3, <4>5
        <4>6. CASE told = <<cF>> \o <<cT>>
          BY <4>1, <4>2, <4>4, <4>6
        <4>7. QED
          BY <3>2, <4>5, <4>6
      <3>5. /\ told \in Seq(LogindCalls) /\ ~AsksLogind(told)
            /\ HintBecomes(told, hint, TRUE)
        BY <3>3, <3>4, CallAdded
      <3>6. locked' \/ failed'
        BY <2>1, <3>1
      <3>7. locked' \in BOOLEAN /\ failed' \in BOOLEAN /\ unread' \in BOOLEAN
        BY <2>1, <3>1
      <3>8. lost' \in BOOLEAN
        BY <3>1
      <3>9. QED
        BY <3>1, <3>5, <3>6, <3>7, <3>8
    <2>2. CASE IsLocked(path) /\ EnsureLocked /\ SessionReplied(path, <<>>) /\ unread' = FALSE
      <3>1. /\ outbox' = <<>> /\ locked /\ UNCHANGED <<locked, failed, lost>>
        BY <2>2 DEF SessionReplied, EnsureLocked, StayAsIs, screen
      <3>2. QED
        BY <1>1, <1>4, <2>2, <3>1, NoCall DEF HintIsToBeRight, LogindTypeOK
    <2>3. CASE StayAsIs /\ SessionReplied(path, <<>>) /\ unread' = IsLocked(path)
      <3>1. outbox' = <<>> /\ UNCHANGED <<locked, failed, lost>>
        BY <2>3 DEF SessionReplied, StayAsIs, screen
      <3>2. path = "logind" /\ "logind" \in owners /\ hint = TRUE => unread'
        BY <1>6, <2>3 DEF IsLocked
      <3>3. unread' \in BOOLEAN
        <4>1. hint \in BOOLEAN
          BY <1>1 DEF LogindTypeOK
        <4>2. QED
          BY <2>3, <4>1 DEF IsLocked
      <3>4. QED
        BY <1>1, <1>4, <3>1, <3>2, <3>3, NoCall DEF HintIsToBeRight, LogindTypeOK
    <2>4. CASE \E starts \in BOOLEAN :
                 LET told == LockCalls(TRUE, path, starts) IN
                   IsLocked(path) /\ Establish(starts, told) /\ SessionReplied(path, told)
      <3>1. PICK starts \in BOOLEAN :
              LET told == LockCalls(TRUE, path, starts) IN
                IsLocked(path) /\ Establish(starts, told) /\ SessionReplied(path, told)
        BY <2>4
      <3> DEFINE told == LockCalls(TRUE, path, starts)
      <3>2. /\ told = LockCalls(TRUE, path, starts) /\ IsLocked(path)
            /\ Establish(starts, told) /\ SessionReplied(path, told)
        BY <3>1
      <3> HIDE DEF told
      <3>3. QED
        BY <2>1, <3>2
    <2>5. QED
      BY <1>2, <2>2, <2>3, <2>4
  <1>8. LogindTypeOK'
    <2>1. refused' = refused /\ refused \in BOOLEAN /\ hint' = hint /\ hint \in BOOLEAN
      BY <1>1, <1>4 DEF LogindTypeOK
    <2>2. refused' \in BOOLEAN /\ hint' \in BOOLEAN /\ lost' \in BOOLEAN /\ connected' \in BOOLEAN
      BY <1>4, <1>7, <2>1, Zenon
    <2>3. QED
      BY <1>1, <1>4, <1>5, <1>6, <1>7, <2>2 DEF LogindTypeOK, LogindCalls, Objects
  <1>9. ServiceIsKnown'
    BY <1>4, <1>6 DEF ServiceIsKnown, Services
  <1>10. ServiceIsLogind'
    BY <1>1, <1>4, <1>5, <1>6, <1>7 DEF ServiceIsLogind, AtLogind
  <1>11. LeavingIsHeard'
    BY <1>1, <1>4, <1>5, <1>6 DEF LeavingIsHeard, AtLogind
  <1>12. HintIsToBeRight'
    <2>1. path = "logind" /\ "logind" \notin owners => Leaving(inbox')
      BY <1>1, <1>6 DEF LeavingIsHeard
    <2>2. QED
      BY <1>4, <1>7, <2>1 DEF HintIsToBeRight, AtLogind
  <1>13. QED
    BY <1>7, <1>8, <1>9, <1>10, <1>11, <1>12 DEF LogindIInv

(* A call of the daemon arrives: it is answered, or it is the hint.        *)
LEMMA ArrivalPreserves ==
  ASSUME LogindIInv, CallArrives, UNCHANGED <<screen, unread>>
  PROVE  LogindIInv'
  <1> DEFINE c == Head(outbox)
  <1>1. /\ LogindTypeOK /\ ServiceIsKnown /\ ServiceIsLogind /\ LeavingIsHeard
        /\ HintIsToBeRight
    BY DEF LogindIInv
  <1>2. /\ outbox # <<>> /\ outbox \in Seq(LogindCalls) /\ outbox' = Tail(outbox)
        /\ UNCHANGED <<connected, service, sessionPath, rules, owners>>
        /\ SameAsBefore
    BY <1>1, CallsOfDaemon, SameScreen DEF CallArrives, client
  <1>3. /\ c \in LogindCalls
        /\ outbox' \in Seq(LogindCalls)
        /\ OnlyListNames(outbox) => c.call = "ListNames" /\ OnlyListNames(outbox')
        /\ AsksLogind(outbox') \/ AsksForSession(c) => AsksLogind(outbox)
        /\ NoneForNobody(outbox') /\ ~ForNobody(c) => NoneForNobody(outbox)
        /\ \A v : ~ForLogind(c) =>
             (HintBecomes(outbox', hint, v) <=> HintBecomes(outbox, hint, v))
        /\ \A v : ForLogind(c) =>
             (HintBecomes(outbox', c.value, v) <=> HintBecomes(outbox, hint, v))
    BY <1>1, <1>2, CallGone DEF ServiceIsLogind
  <1>4. /\ c.call \in {"ListNames", "GetSession", "SetLockedHint"}
        /\ c.to \subseteq Services /\ c.value \in BOOLEAN
    BY <1>3, CallsOfDaemon
  <1>5. inbox \in Seq(Messages) /\ owners \subseteq Services
    BY <1>1, ServicesAssumption DEF LogindTypeOK
  <1>6. CASE AnswerListNames \/ AnswerGetSession
    <2>1. PICK msg \in Messages :
            /\ inbox' = Append(inbox, msg) /\ refused' \in BOOLEAN
            /\ UNCHANGED <<hint, lost>> /\ c.call # "SetLockedHint"
            /\ \/ c.call = "ListNames" /\ msg.kind = "names" /\ msg.of \in {owners, {}}
               \/ /\ c.call = "GetSession" /\ msg.kind = "session"
                  /\ msg.of \in {c.to \cap owners, {}}
      <3>1. CASE AnswerListNames
        <4>1. Message("names", owners) \in Messages /\ Message("names", {}) \in Messages
          BY <1>5 DEF Message, Messages
        <4>2. refused' \in BOOLEAN
          BY <1>1, <3>1 DEF AnswerListNames, LogindTypeOK
        <4>3. QED
          BY <3>1, <4>1, <4>2 DEF AnswerListNames, Message
      <3>2. CASE AnswerGetSession
        <4>1. /\ Message("session", c.to \cap owners) \in Messages
              /\ Message("session", {}) \in Messages
          BY <1>5 DEF Message, Messages
        <4>2. refused' \in BOOLEAN
          BY <1>1, <3>2 DEF AnswerGetSession, LogindTypeOK
        <4>3. QED
          BY <3>2, <4>1, <4>2 DEF AnswerGetSession, Message
      <3>3. QED
        BY <1>6, <3>1, <3>2
    <2> HIDE DEF c
    <2>2. LogindSession(msg) => LogindInTheEnd(inbox, service) /\ "logind" \in owners
      <3>1. LogindSession(msg) => AsksForSession(c) /\ "logind" \in owners
        BY <2>1 DEF LogindSession, AsksForSession
      <3>2. QED
        BY <1>1, <1>3, <3>1 DEF ServiceIsLogind
    <2>3. TurnsToLogind(msg) \/ "logind" \notin owners \/ ~TurnsElsewhere(msg)
      BY <2>1 DEF TurnsToLogind, TurnsElsewhere
    <2>4. /\ inbox' \in Seq(Messages)
          /\ \A s : /\ LogindInTheEnd(inbox, s) /\ ~TurnsElsewhere(msg)
                       => LogindInTheEnd(inbox', s)
                    /\ TurnsToLogind(msg) => LogindInTheEnd(inbox', s)
          /\ LogindAtSession(inbox', service)
          /\ Leaving(inbox') <=> Leaving(inbox)
          /\ LeavingAfterSession(inbox) /\ ~LogindSession(msg) => LeavingAfterSession(inbox')
          /\ NoSession(inbox) /\ msg.kind # "session" => NoSession(inbox')
      BY <1>1, <1>5, <2>1, <2>2, MessageAdded DEF ServiceIsLogind
    <2>5. ~ForLogind(c) /\ ~ForNobody(c)
      BY <2>1 DEF ForLogind, ForNobody
    <2>6. LogindTypeOK'
      BY <1>1, <1>2, <1>3, <2>1, <2>4 DEF LogindTypeOK, LogindCalls
    <2>7. ServiceIsKnown'
      BY <1>1, <1>2, <1>3, <2>1, <2>4 DEF ServiceIsKnown
    <2>8. ServiceIsLogind'
      BY <1>1, <1>2, <1>3, <2>1, <2>3, <2>4 DEF ServiceIsLogind, AtLogind
    <2>9. LeavingIsHeard'
      BY <1>1, <1>2, <2>2, <2>4 DEF LeavingIsHeard, AtLogind
    <2>10. HintIsToBeRight'
      BY <1>1, <1>2, <1>3, <2>1, <2>4, <2>5 DEF HintIsToBeRight, AtLogind, SameAsBefore
    <2>11. QED
      BY <1>1, <1>2, <2>6, <2>7, <2>8, <2>9, <2>10 DEF LogindIInv, SameAsBefore
  <1>7. CASE TakeSetLockedHint
    <2>1. /\ UNCHANGED <<inbox, refused>> /\ c.call = "SetLockedHint"
          /\ IF ForLogind(c) /\ "logind" \in owners
             THEN hint' = c.value /\ UNCHANGED lost
             ELSE lost' = TRUE /\ UNCHANGED hint
      BY <1>7 DEF TakeSetLockedHint, ForLogind
    <2>2. ForNobody(c) <=> ~ForLogind(c)
      BY <2>1 DEF ForNobody
    <2> HIDE DEF c
    <2>3. LogindTypeOK'
      BY <1>1, <1>2, <1>3, <1>4, <2>1 DEF LogindTypeOK, LogindCalls
    <2>4. ServiceIsKnown'
      BY <1>1, <1>2, <1>3, <2>1 DEF ServiceIsKnown
    <2>5. ServiceIsLogind'
      BY <1>1, <1>2, <1>3, <2>1 DEF ServiceIsLogind, AtLogind
    <2>6. LeavingIsHeard'
      BY <1>1, <1>2, <2>1 DEF LeavingIsHeard, AtLogind
    <2>7. HintIsToBeRight'
      <3>1. CASE ForLogind(c) /\ "logind" \in owners
        BY <1>1, <1>2, <1>3, <2>1, <2>2, <3>1 DEF HintIsToBeRight, AtLogind, SameAsBefore
      <3>2. CASE ForLogind(c) /\ "logind" \notin owners
        BY <1>1, <1>2, <2>1, <3>2 DEF HintIsToBeRight, LeavingIsHeard, AtLogind
      <3>3. CASE ~ForLogind(c)
        BY <1>1, <1>2, <1>3, <2>1, <3>3 DEF HintIsToBeRight, AtLogind, SameAsBefore
      <3>4. QED
        BY <3>1, <3>2, <3>3
    <2>8. QED
      BY <1>1, <1>2, <2>3, <2>4, <2>5, <2>6, <2>7 DEF LogindIInv, SameAsBefore
  <1>8. QED
    BY <1>6, <1>7 DEF CallArrives

(* The daemon is told that logind has come.                                *)
LEMMA StartPreserves ==
  ASSUME LogindIInv, NEW s \in Available, Start(s), UNCHANGED <<screen, unread>>
  PROVE  LogindIInv'
  <1>1. /\ LogindTypeOK /\ ServiceIsKnown /\ ServiceIsLogind /\ LeavingIsHeard
        /\ HintIsToBeRight /\ inbox \in Seq(Messages)
    BY DEF LogindIInv, LogindTypeOK
  <1>2. /\ owners' = owners \cup {s} /\ s \notin owners
        /\ UNCHANGED <<connected, service, sessionPath, rules, outbox, refused>>
        /\ SameAsBefore
    BY SameScreen DEF Start, client
  <1>3. CASE s = "logind"
    <2> DEFINE m == Message("registered", {s})
    <2>1. /\ inbox' = Append(inbox, m) /\ "logind" \notin owners
          /\ hint' \in {hint, FALSE} /\ lost' = (lost \/ hint' # hint)
      BY <1>2, <1>3 DEF Start
    <2>2. /\ m \in Messages
          /\ TurnsToLogind(m) /\ ~LogindSession(m) /\ ~TurnsElsewhere(m)
          /\ m.kind # "unregistered" /\ m.kind # "session"
      BY <1>3 DEF Message, Messages, Services, TurnsToLogind, LogindSession, TurnsElsewhere
    <2> HIDE DEF m
    <2>3. /\ inbox' \in Seq(Messages)
          /\ \A t : LogindInTheEnd(inbox', t)
          /\ LogindAtSession(inbox', service)
          /\ Leaving(inbox') <=> Leaving(inbox)
          /\ LeavingAfterSession(inbox) => LeavingAfterSession(inbox')
          /\ NoSession(inbox) => NoSession(inbox')
      BY <1>1, <2>1, <2>2, MessageAdded DEF ServiceIsLogind
    <2>4. LogindTypeOK'
      BY <1>1, <1>2, <2>1, <2>3 DEF LogindTypeOK
    <2>5. ServiceIsKnown'
      BY <1>1, <1>2, <2>3 DEF ServiceIsKnown
    <2>6. ServiceIsLogind'
      BY <1>1, <1>2, <2>3 DEF ServiceIsLogind, AtLogind
    <2>7. LeavingIsHeard'
      BY <1>2, <1>3 DEF LeavingIsHeard
    <2>8. HintIsToBeRight'
      <3>1. HintBecomes(outbox, hint', TRUE) => HintBecomes(outbox, hint, TRUE)
        BY <2>1, NoCall
      <3>2. ~lost' => ~lost /\ hint' = hint
        BY <1>1, <2>1 DEF LogindTypeOK
      <3>3. QED
        BY <1>1, <1>2, <2>3, <3>1, <3>2 DEF HintIsToBeRight, AtLogind, SameAsBefore
    <2>9. QED
      BY <1>1, <1>2, <2>4, <2>5, <2>6, <2>7, <2>8 DEF LogindIInv, SameAsBefore
  <1>4. CASE s # "logind"
    <2>1. UNCHANGED <<inbox, hint, lost>>
      BY <1>4 DEF Start
    <2>2. "logind" \in owners' <=> "logind" \in owners
      BY <1>2, <1>4
    <2>3. LogindTypeOK'
      BY <1>1, <1>2, <2>1 DEF LogindTypeOK
    <2>4. (ServiceIsKnown /\ ServiceIsLogind /\ LeavingIsHeard /\ HintIsToBeRight)'
      BY <1>1, <1>2, <2>1, <2>2
         DEF ServiceIsKnown, ServiceIsLogind, LeavingIsHeard, HintIsToBeRight, AtLogind,
             SameAsBefore
    <2>5. QED
      BY <1>1, <1>2, <2>3, <2>4 DEF LogindIInv, SameAsBefore
  <1>5. QED
    BY <1>3, <1>4

(* The daemon is told that logind has left.                                *)
LEMMA StopPreserves ==
  ASSUME LogindIInv, NEW s \in Available, Stop(s), UNCHANGED <<screen, unread>>
  PROVE  LogindIInv'
  <1>1. /\ LogindTypeOK /\ ServiceIsKnown /\ ServiceIsLogind /\ LeavingIsHeard
        /\ HintIsToBeRight /\ inbox \in Seq(Messages)
    BY DEF LogindIInv, LogindTypeOK
  <1>2. /\ owners' = owners \ {s}
        /\ UNCHANGED <<connected, service, sessionPath, rules, outbox, hint, lost, refused>>
        /\ SameAsBefore
    BY SameScreen DEF Stop, client
  <1>3. CASE s = "logind"
    <2> DEFINE m == Message("unregistered", {s})
    <2>1. inbox' = Append(inbox, m)
      BY <1>3 DEF Stop
    <2>2. /\ m \in Messages /\ ~LogindSession(m)
          /\ m.kind = "unregistered" /\ m.kind # "session"
      BY <1>3 DEF Message, Messages, Services, LogindSession
    <2> HIDE DEF m
    <2>3. /\ inbox' \in Seq(Messages)
          /\ LogindAtSession(inbox', service)
          /\ Leaving(inbox') /\ LeavingAfterSession(inbox')
          /\ NoSession(inbox) => NoSession(inbox')
      BY <1>1, <2>1, <2>2, MessageAdded DEF ServiceIsLogind
    <2>4. LogindTypeOK'
      BY <1>1, <1>2, <2>3 DEF LogindTypeOK
    <2>5. ServiceIsKnown'
      BY <1>1, <1>2, <2>3 DEF ServiceIsKnown
    <2>6. ServiceIsLogind'
      BY <1>1, <1>2, <1>3, <2>3 DEF ServiceIsLogind, AtLogind
    <2>7. LeavingIsHeard'
      BY <2>3 DEF LeavingIsHeard
    <2>8. HintIsToBeRight'
      <3>1. /\ UNCHANGED <<outbox, hint, lost>> /\ SameAsBefore
            /\ HintIsToBeRight /\ Leaving(inbox')
        BY <1>1, <1>2, <2>3
      <3>2. QED
        BY <3>1 DEF HintIsToBeRight, SameAsBefore
    <2>9. QED
      BY <1>1, <1>2, <2>4, <2>5, <2>6, <2>7, <2>8 DEF LogindIInv, SameAsBefore
  <1>4. CASE s # "logind"
    <2>1. UNCHANGED inbox
      BY <1>4 DEF Stop
    <2>2. "logind" \in owners' <=> "logind" \in owners
      BY <1>2, <1>4
    <2>3. LogindTypeOK'
      BY <1>1, <1>2, <2>1 DEF LogindTypeOK
    <2>4. (ServiceIsKnown /\ ServiceIsLogind /\ LeavingIsHeard)'
      BY <1>1, <1>2, <2>1, <2>2 DEF ServiceIsKnown, ServiceIsLogind, LeavingIsHeard, AtLogind
    <2>5. HintIsToBeRight'
      <3>1. /\ UNCHANGED <<connected, sessionPath, outbox, inbox, hint, lost>>
            /\ SameAsBefore /\ HintIsToBeRight
        BY <1>1, <1>2, <2>1
      <3>2. QED
        BY <3>1 DEF HintIsToBeRight, AtLogind, SameAsBefore
    <2>6. QED
      BY <1>1, <1>2, <2>3, <2>4, <2>5 DEF LogindIInv, SameAsBefore
  <1>5. QED
    BY <1>3, <1>4

(* A service signals.                                                      *)
LEMMA EmitPreserves ==
  ASSUME LogindIInv, NEW s \in Available, Emit(s), UNCHANGED <<screen, unread>>
  PROVE  LogindIInv'
  <1>1. /\ LogindTypeOK /\ ServiceIsKnown /\ ServiceIsLogind /\ LeavingIsHeard
        /\ HintIsToBeRight /\ inbox \in Seq(Messages)
    BY DEF LogindIInv, LogindTypeOK
  <1>2. /\ UNCHANGED <<connected, service, sessionPath, rules, outbox>>
        /\ UNCHANGED <<owners, hint, lost, refused>>
        /\ SameAsBefore
    BY SameScreen DEF Emit, client, bus
  <1>3. PICK kind \in {"Lock", "Unlock", "Sleep"} : inbox' = Append(inbox, Message(kind, {s}))
    BY DEF Emit
  <1> DEFINE m == Message(kind, {s})
  <1>4. /\ m \in Messages
        /\ ~LogindSession(m) /\ ~TurnsElsewhere(m)
        /\ m.kind # "unregistered" /\ m.kind # "session"
    BY ServicesAssumption DEF Message, Messages, LogindSession, TurnsElsewhere
  <1> HIDE DEF m
  <1>5. /\ inbox' \in Seq(Messages)
        /\ \A t : LogindInTheEnd(inbox, t) => LogindInTheEnd(inbox', t)
        /\ LogindAtSession(inbox', service)
        /\ Leaving(inbox') <=> Leaving(inbox)
        /\ LeavingAfterSession(inbox) => LeavingAfterSession(inbox')
        /\ NoSession(inbox) => NoSession(inbox')
    BY <1>1, <1>3, <1>4, MessageAdded DEF ServiceIsLogind, m
  <1>6. LogindTypeOK'
    BY <1>1, <1>2, <1>5 DEF LogindTypeOK
  <1>7. (ServiceIsKnown /\ ServiceIsLogind /\ LeavingIsHeard /\ HintIsToBeRight)'
    BY <1>1, <1>2, <1>5
       DEF ServiceIsKnown, ServiceIsLogind, LeavingIsHeard, HintIsToBeRight, AtLogind,
             SameAsBefore
  <1>8. QED
    BY <1>1, <1>2, <1>6, <1>7 DEF LogindIInv, SameAsBefore

-----------------------------------------------------------------------------
(* The fetching of shortcuts.                                              *)

(* Which calls are under way when one is added, taken, or others are.      *)
LEMMA UnderWayThen ==
  ASSUME NEW q \in Seq(Calls)
  PROVE  /\ \A x \in Calls : \A call :
              UnderWay(Append(q, x), call) <=> UnderWay(q, call) \/ call = x
         /\ \A more \in Seq(Calls) : \A call :
              UnderWay(q \o more, call) <=> UnderWay(q, call) \/ UnderWay(more, call)
         /\ q # <<>> => \A call :
              UnderWay(q, call) <=> call = Head(q) \/ UnderWay(Tail(q), call)
  <1>1. ASSUME NEW x \in Calls, NEW call
        PROVE  UnderWay(Append(q, x), call) <=> UnderWay(q, call) \/ call = x
    <2> DEFINE new == Append(q, x)
    <2>1. /\ Len(new) = Len(q) + 1 /\ Len(q) \in Nat
          /\ \A i \in 1 .. Len(q) : new[i] = q[i]
          /\ new[Len(q) + 1] = x
      BY AppendProperties, LenProperties
    <2> HIDE DEF new
    <2>2. 1 .. Len(new) = 1 .. Len(q) \cup {Len(q) + 1}
      BY <2>1
    <2>3. QED
      BY <2>1, <2>2 DEF UnderWay, new
  <1>2. ASSUME NEW more \in Seq(Calls), NEW call
        PROVE  UnderWay(q \o more, call) <=> UnderWay(q, call) \/ UnderWay(more, call)
    <2> DEFINE new == q \o more
    <2>1. /\ Len(new) = Len(q) + Len(more) /\ Len(q) \in Nat /\ Len(more) \in Nat
          /\ \A i \in 1 .. Len(new) : new[i] = IF i <= Len(q) THEN q[i] ELSE more[i - Len(q)]
      BY ConcatProperties, LenProperties
    <2> HIDE DEF new
    <2>2. \A i \in 1 .. Len(q) : i \in 1 .. Len(new) /\ new[i] = q[i]
      BY <2>1
    <2>3. \A i \in 1 .. Len(more) :
            i + Len(q) \in 1 .. Len(new) /\ new[i + Len(q)] = more[i]
      BY <2>1
    <2>4. \A i \in 1 .. Len(new) : i \in 1 .. Len(q) \/ i - Len(q) \in 1 .. Len(more)
      BY <2>1
    <2>5. \A i \in 1 .. Len(new) : i \notin 1 .. Len(q) => new[i] = more[i - Len(q)]
      BY <2>1
    <2>6. QED
      BY <2>2, <2>3, <2>4, <2>5 DEF UnderWay, new
  <1>3. ASSUME q # <<>>, NEW call
        PROVE  UnderWay(q, call) <=> call = Head(q) \/ UnderWay(Tail(q), call)
    <2> DEFINE new == Tail(q)
    <2>1. /\ Len(new) = Len(q) - 1 /\ Len(q) \in Nat \ {0}
          /\ \A i \in 1 .. Len(new) : new[i] = q[i + 1]
          /\ Head(q) = q[1]
      BY <1>3, HeadTailProperties, EmptySeq
    <2> HIDE DEF new
    <2>2. \A i \in 1 .. Len(new) : i + 1 \in 1 .. Len(q)
      BY <2>1
    <2>3. \A i \in 1 .. Len(q) : i # 1 => i - 1 \in 1 .. Len(new) /\ new[i - 1] = q[i]
      BY <2>1
    <2>4. 1 \in 1 .. Len(q)
      BY <2>1
    <2>5. QED
      BY <2>1, <2>2, <2>3, <2>4 DEF UnderWay, new
  <1>4. QED
    BY <1>1, <1>2, <1>3

(* The calls are of three kinds, each of one component.                    *)
LEMMA CallsOfAccel ==
  /\ AllComponents \in Calls /\ AllComponents.call = "allComponents"
  /\ \A c \in Whitelist :
       /\ IsActive(c) \in Calls /\ AllInfos(c) \in Calls
       /\ IsActive(c).call = "isActive" /\ AllInfos(c).call = "allShortcutInfos"
       /\ IsActive(c).components = {c} /\ AllInfos(c).components = {c}
  /\ \A call \in Calls :
       /\ call.call = "allComponents" => call = AllComponents
       /\ call.call = "isActive" => \E c \in Whitelist : call = IsActive(c)
       /\ call.call = "allShortcutInfos" => \E c \in Whitelist : call = AllInfos(c)
       /\ call.call \in {"allComponents", "isActive", "allShortcutInfos"}
  /\ \A c, d : IsActive(c) = IsActive(d) \/ AllInfos(c) = AllInfos(d) => c = d
  /\ \A c, d : /\ IsActive(c) # AllInfos(d)
               /\ IsActive(c) # AllComponents /\ AllInfos(c) # AllComponents
  <1>1. AllComponents.call = "allComponents"
    BY DEF AllComponents
  <1>2. ASSUME NEW c
        PROVE  /\ IsActive(c).call = "isActive" /\ AllInfos(c).call = "allShortcutInfos"
               /\ IsActive(c).components = {c} /\ AllInfos(c).components = {c}
    BY DEF IsActive, AllInfos
  <1>3. /\ \A c, d : IsActive(c) = IsActive(d) \/ AllInfos(c) = AllInfos(d) => {c} = {d}
        /\ \A c, d : /\ IsActive(c) # AllInfos(d)
                     /\ IsActive(c) # AllComponents /\ AllInfos(c) # AllComponents
    <2>1. "isActive" # "allShortcutInfos" /\ "isActive" # "allComponents"
          /\ "allShortcutInfos" # "allComponents"
      OBVIOUS
    <2>2. QED
      BY <1>1, <1>2, <2>1
  <1>4. \A c, d : {c} = {d} => c = d
    OBVIOUS
  <1>5. ASSUME NEW call \in Calls
        PROVE  /\ call.call = "allComponents" => call = AllComponents
               /\ call.call = "isActive" => \E c \in Whitelist : call = IsActive(c)
               /\ call.call = "allShortcutInfos" => \E c \in Whitelist : call = AllInfos(c)
               /\ call.call \in {"allComponents", "isActive", "allShortcutInfos"}
    <2>1. CASE call = AllComponents
      BY <1>1, <2>1
    <2>2. CASE \E c \in Whitelist : call = IsActive(c)
      BY <1>2, <2>2
    <2>3. CASE \E c \in Whitelist : call = AllInfos(c)
      BY <1>2, <2>3
    <2>4. QED
      BY <2>1, <2>2, <2>3 DEF Calls
  <1>6. /\ AllComponents \in Calls
        /\ \A c \in Whitelist : IsActive(c) \in Calls /\ AllInfos(c) \in Calls
    BY DEF Calls
  <1>7. \A c, d : IsActive(c) = IsActive(d) \/ AllInfos(c) = AllInfos(d) => c = d
    BY <1>3, <1>4
  <1>8. QED
    BY <1>1, <1>2, <1>3, <1>5, <1>6, <1>7

(* The component of a call is the one it is of.                            *)
LEMMA ComponentOf ==
  ASSUME NEW c, calls # <<>>, Head(calls).components = {c}
  PROVE  Component = c
  BY DEF Component

(* Each whitelisted component is asked, and asked once.                    *)
LEMMA ComponentsAsked ==
  ASSUME NEW asked, asked = SetToSeq(Components \cap Whitelist),
         NEW more, more = [i \in DOMAIN asked |-> IsActive(asked[i])]
  PROVE  /\ more \in Seq(Calls) /\ Len(more) = Len(asked) /\ Len(asked) \in Nat
         /\ \A c \in Whitelist : UnderWay(more, IsActive(c))
         /\ \A call : UnderWay(more, call) => \E c \in Whitelist : call = IsActive(c)
  <1> DEFINE n == Cardinality(Whitelist)
  <1>1. Components \cap Whitelist = Whitelist /\ IsFiniteSet(Whitelist)
    BY WhitelistAssumption
  <1>2. n \in Nat /\ \E f : f \in Bijection(1 .. n, Whitelist)
    BY <1>1, FS_CardinalityType DEF ExistsBijection
  <1> HIDE DEF n
  <1>3. PICK f : f \in Bijection(1 .. n, Whitelist)
    BY <1>2
  <1>4. asked \in [1 .. n -> Whitelist] /\ IsInjective(asked)
    <2>1. f \in [1 .. n -> Whitelist] /\ IsInjective(f)
      BY <1>3 DEF Bijection, Injection
    <2>2. QED
      BY <1>1, <2>1 DEF SetToSeq, n
  <1>5. \A c \in Whitelist : \E i \in 1 .. n : asked[i] = c
    <2>1. Cardinality(1 .. n) = Cardinality(Whitelist)
      BY <1>2, FS_Interval DEF n
    <2>2. asked \in Injection(1 .. n, Whitelist)
      BY <1>4 DEF Injection
    <2>3. asked \in Surjection(1 .. n, Whitelist)
      BY <1>1, <2>1, <2>2, FS_Injection
    <2>4. QED
      BY <2>3 DEF Surjection
  <1>6. asked \in Seq(Whitelist) /\ Len(asked) = n
    BY <1>2, <1>4, FunctionIsSequence
  <1>7. more \in [1 .. n -> Calls] /\ \A i \in 1 .. n : more[i] = IsActive(asked[i])
    BY <1>4, CallsOfAccel
  <1>8. more \in Seq(Calls) /\ Len(more) = n
    BY <1>2, <1>7, FunctionIsSequence
  <1>9. QED
    BY <1>2, <1>4, <1>5, <1>6, <1>7, <1>8 DEF UnderWay

(* A lock fetches anew, whether it fails or not, unless the fetch of an    *)
(* earlier one is under way.                                               *)
LEMMA EstablishPreserves ==
  ASSUME AccelIInv, NEW starts \in BOOLEAN, NEW told, Establish(starts, told)
  PROVE  AccelIInv'
  <1>1. /\ AccelTypeOK /\ CounterIsCalls /\ calls \in Seq(Calls) /\ active \subseteq Whitelist
    BY DEF AccelIInv, AccelTypeOK
  <1>2. /\ locked' = starts /\ locked' \in BOOLEAN /\ UNCHANGED active
        /\ fetch' = IF starts /\ updatingInformation # 0 THEN "raced" ELSE "own"
    BY DEF Establish
  <1>3. CASE updatingInformation # 0
    <2>1. /\ UNCHANGED <<updatingInformation, calls>>
          /\ UNCHANGED shortcuts \/ shortcuts' = {}
      BY <1>3 DEF Establish, Prepare, Release, accel
    <2>2. fetch' \in Fetches /\ (locked' => fetch' = "raced")
      BY <1>2, <1>3 DEF Fetches
    <2>3. AccelTypeOK' /\ CounterIsCalls'
      BY <1>1, <1>2, <2>1 DEF AccelTypeOK, CounterIsCalls
    <2>4. QED
      BY <1>2, <2>2, <2>3 DEF AccelIInv, FetchIsOfThisLock
  <1>4. CASE updatingInformation = 0
    <2>1. /\ fetch' = "own" /\ shortcuts' = {} /\ updatingInformation' = 1
          /\ calls' = Append(calls, AllComponents) /\ calls = <<>>
      BY <1>1, <1>2, <1>4, EmptySeq DEF Establish, Prepare, CounterIsCalls
    <2>2. calls' \in Seq(Calls) /\ Len(calls') = 1
      BY <1>1, <2>1, CallsOfAccel, AppendProperties
    <2>3. \A call : UnderWay(calls', call) <=> UnderWay(calls, call) \/ call = AllComponents
      BY <1>1, <2>1, CallsOfAccel, UnderWayThen
    <2>4. \A call : ~UnderWay(calls, call)
      BY <2>1 DEF UnderWay
    <2>5. FetchIsOfThisLock'
      BY <2>1, <2>3, <2>4, CallsOfAccel DEF FetchIsOfThisLock, WillLeadTo
    <2>6. AccelTypeOK' /\ CounterIsCalls'
      BY <1>1, <1>2, <2>1, <2>2 DEF AccelTypeOK, CounterIsCalls
    <2>7. QED
      BY <1>2, <2>1, <2>5, <2>6 DEF AccelIInv, Fetches
  <1>5. QED
    BY <1>3, <1>4

(* An unlock leaves nothing of the fetch but the calls under way.          *)
LEMMA DoUnlockPreserves ==
  ASSUME AccelIInv, NEW told, DoUnlock(told)
  PROVE  AccelIInv'
  BY DEF DoUnlock, Release, AccelIInv, AccelTypeOK, CounterIsCalls, FetchIsOfThisLock, Fetches

(* A reply that starts nothing is one call less.                           *)
LEMMA CallCountedOff ==
  ASSUME AccelIInv, calls # <<>>, calls' = Tail(calls),
         updatingInformation' = updatingInformation - 1
  PROVE  /\ calls' \in Seq(Calls) /\ updatingInformation' \in Nat /\ CounterIsCalls'
         /\ Head(calls) \in Calls
         /\ \A call : UnderWay(calls, call) <=> call = Head(calls) \/ UnderWay(calls', call)
  <1>1. calls \in Seq(Calls) /\ updatingInformation = Len(calls)
    BY DEF AccelIInv, AccelTypeOK, CounterIsCalls
  <1>2. /\ Tail(calls) \in Seq(Calls) /\ Len(Tail(calls)) = Len(calls) - 1
        /\ Len(calls) \in Nat \ {0} /\ Head(calls) \in Calls
    BY <1>1, HeadTailProperties, EmptySeq
  <1>3. QED
    BY <1>1, <1>2, UnderWayThen DEF CounterIsCalls

(* Each handler of a reply, and the error that any reply may be.           *)
LEMMA ReplyPreserves ==
  ASSUME AccelIInv, Reply, UNCHANGED <<locked, fetch>>
  PROVE  AccelIInv'
  <1>1. /\ AccelTypeOK /\ CounterIsCalls /\ FetchIsOfThisLock
        /\ calls \in Seq(Calls) /\ active \subseteq Whitelist /\ shortcuts \subseteq Whitelist
        /\ updatingInformation = Len(calls)
    BY DEF AccelIInv, AccelTypeOK, CounterIsCalls
  <1>2. calls # <<>> /\ UNCHANGED active
    BY DEF Reply, ComponentsReplied, InactiveReplied, ActiveReplied, InfosReplied, Replied
  <1>3. /\ Tail(calls) \in Seq(Calls) /\ Len(Tail(calls)) = Len(calls) - 1
        /\ Len(calls) \in Nat \ {0} /\ Head(calls) \in Calls
    BY <1>1, <1>2, HeadTailProperties, EmptySeq
  <1>4. \A call : UnderWay(calls, call) <=> call = Head(calls) \/ UnderWay(Tail(calls), call)
    BY <1>1, <1>2, UnderWayThen
  <1>5. CASE ComponentsReplied
    <2> DEFINE asked == SetToSeq(Components \cap Whitelist)
               more  == [i \in DOMAIN asked |-> IsActive(asked[i])]
    <2>1. /\ calls' = Tail(calls) \o more
          /\ updatingInformation' = (updatingInformation + Len(asked)) - 1
          /\ UNCHANGED shortcuts /\ Head(calls).call = "allComponents"
      BY <1>5 DEF ComponentsReplied, Replied
    <2>2. /\ more \in Seq(Calls) /\ Len(more) = Len(asked) /\ Len(asked) \in Nat
          /\ \A c \in Whitelist : UnderWay(more, IsActive(c))
          /\ \A call : UnderWay(more, call) => \E c \in Whitelist : call = IsActive(c)
      BY ComponentsAsked
    <2> HIDE DEF asked, more
    <2>3. /\ calls' \in Seq(Calls) /\ Len(calls') = Len(Tail(calls)) + Len(more)
      BY <1>3, <2>1, <2>2, ConcatProperties
    <2>4. \A call : UnderWay(calls', call) <=> UnderWay(Tail(calls), call) \/ UnderWay(more, call)
      BY <1>3, <2>1, <2>2, UnderWayThen
    <2>5. Head(calls) = AllComponents
      BY <1>3, <2>1, CallsOfAccel
    <2>6. FetchIsOfThisLock'
      BY <1>1, <1>2, <1>4, <2>1, <2>2, <2>4, <2>5, CallsOfAccel DEF FetchIsOfThisLock, WillLeadTo
    <2>7. updatingInformation' \in Nat /\ CounterIsCalls'
      BY <1>1, <1>3, <2>1, <2>2, <2>3 DEF CounterIsCalls
    <2>8. AccelTypeOK'
      BY <1>1, <1>2, <2>1, <2>3, <2>7 DEF AccelTypeOK
    <2>9. QED
      BY <2>6, <2>7, <2>8 DEF AccelIInv
  <1>6. CASE InactiveReplied
    <2>1. /\ calls' = Tail(calls) /\ updatingInformation' = updatingInformation - 1
          /\ UNCHANGED shortcuts /\ Head(calls).call = "isActive" /\ Component \notin active
      BY <1>6 DEF InactiveReplied, Replied
    <2>2. PICK d \in Whitelist : Head(calls) = IsActive(d)
      BY <1>3, <2>1, CallsOfAccel
    <2>3. d \notin active
      <3>1. Component = d
        BY <1>2, <2>2, CallsOfAccel, ComponentOf
      <3>2. QED
        BY <2>1, <3>1
    <2>4. FetchIsOfThisLock'
      BY <1>1, <1>2, <1>4, <2>1, <2>2, <2>3, CallsOfAccel DEF FetchIsOfThisLock, WillLeadTo
    <2>5. QED
      BY <1>1, <1>2, <2>1, <2>4, CallCountedOff DEF AccelIInv, AccelTypeOK
  <1>7. CASE ActiveReplied
    <2>1. /\ calls' = Append(Tail(calls), AllInfos(Component))
          /\ UNCHANGED <<updatingInformation, shortcuts>>
          /\ Head(calls).call = "isActive" /\ Component \in active
      BY <1>7 DEF ActiveReplied, Replied
    <2>2. PICK d \in Whitelist : Head(calls) = IsActive(d)
      BY <1>3, <2>1, CallsOfAccel
    <2>3. Component = d /\ d \in active
      <3>1. Component = d
        BY <1>2, <2>2, CallsOfAccel, ComponentOf
      <3>2. QED
        BY <2>1, <3>1
    <2>4. /\ calls' \in Seq(Calls) /\ Len(calls') = Len(calls)
          /\ \A call : UnderWay(calls', call) <=> UnderWay(Tail(calls), call) \/ call = AllInfos(d)
      <3>1. calls' = Append(Tail(calls), AllInfos(d)) /\ AllInfos(d) \in Calls
        BY <2>1, <2>3, CallsOfAccel
      <3>2. calls' \in Seq(Calls) /\ Len(calls') = Len(Tail(calls)) + 1
        BY <1>3, <3>1, AppendProperties
      <3>3. \A call : UnderWay(calls', call) <=> UnderWay(Tail(calls), call) \/ call = AllInfos(d)
        BY <1>3, <3>1, UnderWayThen
      <3>4. QED
        BY <1>3, <3>2, <3>3
    <2>5. FetchIsOfThisLock'
      BY <1>1, <1>2, <1>4, <2>1, <2>2, <2>3, <2>4, CallsOfAccel DEF FetchIsOfThisLock, WillLeadTo
    <2>6. QED
      BY <1>1, <1>2, <2>1, <2>4, <2>5 DEF AccelIInv, AccelTypeOK, CounterIsCalls
  <1>8. CASE InfosReplied
    <2>1. /\ calls' = Tail(calls) /\ updatingInformation' = updatingInformation - 1
          /\ shortcuts' = shortcuts \cup {Component} /\ Head(calls).call = "allShortcutInfos"
      BY <1>8 DEF InfosReplied, Replied
    <2>2. PICK d \in Whitelist : Head(calls) = AllInfos(d)
      BY <1>3, <2>1, CallsOfAccel
    <2>3. Component = d
      BY <1>2, <2>2, CallsOfAccel, ComponentOf
    <2>4. FetchIsOfThisLock'
      BY <1>1, <1>2, <1>4, <2>1, <2>2, <2>3, CallsOfAccel DEF FetchIsOfThisLock, WillLeadTo
    <2>5. QED
      BY <1>1, <1>2, <2>1, <2>2, <2>3, <2>4, CallCountedOff DEF AccelIInv, AccelTypeOK
  <1>9. QED
    BY <1>5, <1>6, <1>7, <1>8 DEF Reply

(* Of a call that fails, a lock that fetches for itself takes note.        *)
LEMMA ErrorPreserves ==
  ASSUME AccelIInv, ErrorReplied, UNCHANGED locked,
         fetch' = IF locked /\ fetch = "own" THEN "failed" ELSE fetch
  PROVE  AccelIInv'
  <1>1. /\ calls # <<>> /\ calls' = Tail(calls) /\ UNCHANGED <<shortcuts, active>>
        /\ updatingInformation' = updatingInformation - 1
    BY DEF ErrorReplied
  <1>2. /\ calls' \in Seq(Calls) /\ updatingInformation' \in Nat /\ CounterIsCalls'
        /\ \A call : UnderWay(calls', call) => UnderWay(calls, call)
    BY <1>1, CallCountedOff
  <1>3. FetchIsOfThisLock'
    BY <1>1, <1>2 DEF AccelIInv, FetchIsOfThisLock
  <1>4. AccelTypeOK'
    BY <1>1, <1>2 DEF AccelIInv, AccelTypeOK
  <1>5. QED
    BY <1>2, <1>3, <1>4 DEF AccelIInv, Fetches

(* Components come and go only while the screen is unlocked.               *)
LEMMA ComponentsChangePreserves ==
  ASSUME AccelIInv, ComponentsChange
  PROVE  AccelIInv'
  BY DEF ComponentsChange, screen, accel, AccelIInv, AccelTypeOK, CounterIsCalls, FetchIsOfThisLock

-----------------------------------------------------------------------------
(* The specification.                                                      *)

(* The daemon starts with nothing but the question who is there.           *)
LEMMA InitEstablishes ==
  ASSUME Init
  PROVE  IInv
  <1>1. AccelIInv
    <2>1. calls = <<>> /\ updatingInformation = 0 /\ shortcuts = {} /\ ~locked /\ fetch = "own"
      BY DEF Init, AccelInit
    <2>2. AccelTypeOK
      BY <2>1 DEF Init, AccelInit, AccelTypeOK
    <2>3. QED
      BY <2>1, <2>2 DEF Init, AccelIInv, CounterIsCalls, FetchIsOfThisLock, Fetches
  <1>2. /\ connected = FALSE /\ service = "none" /\ sessionPath = "none" /\ rules = {}
        /\ owners \in SUBSET Available /\ outbox = <<ListNames>> /\ inbox = <<>>
        /\ hint \in BOOLEAN /\ lost = hint /\ refused = FALSE
        /\ locked = FALSE /\ failed = FALSE /\ unread = FALSE
    BY DEF Init, LogindInit
  <1>3. outbox \in Seq(LogindCalls) /\ Len(outbox) = 1 /\ outbox[1] = ListNames
    BY <1>2, CallsOfDaemon
  <1>4. LogindTypeOK
    <2>1. inbox \in Seq(Messages) /\ rules \subseteq Services \X Objects
      BY <1>2
    <2>2. outbox \in Seq({ListNames} \cup {GetSession(s) : s \in Services} \cup SetLockedCalls)
      BY <1>3 DEF LogindCalls
    <2>3. QED
      BY <1>2, <2>1, <2>2 DEF LogindTypeOK
  <1>5. ServiceIsKnown
    BY <1>2, <1>3, CallsOfDaemon DEF ServiceIsKnown, OnlyListNames, NoSession
  <1>6. ServiceIsLogind
    <2>1. ~AsksLogind(outbox)
      BY <1>3, CallsOfDaemon DEF AsksLogind, AsksForSession
    <2>2. LogindAtSession(inbox, service) /\ LogindInTheEnd(inbox, "logind")
      BY <1>2 DEF LogindAtSession, LogindInTheEnd, LogindAfter
    <2>3. QED
      BY <1>2, <2>1, <2>2 DEF ServiceIsLogind, AtLogind
  <1>7. LeavingIsHeard
    BY <1>2 DEF LeavingIsHeard, AtLogind, LeavingAfterSession
  <1>8. HintIsToBeRight
    <2>1. ~ForLogind(outbox[1])
      BY <1>3, CallsOfDaemon DEF ForLogind
    <2>2. ~hint => HintBecomes(outbox, hint, FALSE)
      BY <1>2, <1>3, <2>1 DEF HintBecomes
    <2>3. QED
      BY <1>2, <2>2 DEF HintIsToBeRight, AtLogind
  <1>9. QED
    BY <1>1, <1>2, <1>4, <1>5, <1>6, <1>7, <1>8 DEF IInv, LogindIInv

(* Every step of the shortcuts, and none of them is one of another module. *)
LEMMA NextPreservesAccel ==
  ASSUME AccelIInv, [Next]_vars
  PROVE  AccelIInv'
  <1>1. CASE UNCHANGED <<accelVars, screen, fetch>>
    BY <1>1 DEF accelVars, screen, accel, AccelIInv, AccelTypeOK, CounterIsCalls, FetchIsOfThisLock
  <1>2. CASE \E told : DoUnlock(told) \/ \E starts \in BOOLEAN : Establish(starts, told)
    BY <1>2, EstablishPreserves, DoUnlockPreserves
  <1>3. CASE AccelReplied
    BY <1>3, ReplyPreserves, ErrorPreserves DEF AccelReplied, screen
  <1>4. CASE ComponentsChange
    BY <1>4, ComponentsChangePreserves
  <1>5. UserLocks \/ UserUnlocks =>
          \E told : DoUnlock(told) \/ \E starts \in BOOLEAN : Establish(starts, told)
    BY DEF UserLocks, UserUnlocks
  <1>6. BusReplied \/ Bus \/ UNCHANGED vars => UNCHANGED <<accelVars, screen, fetch>>
    BY DEF BusReplied, Bus, vars
  <1>7. Connected \/ LockRequested \/ UnlockRequested =>
          \/ \E told : DoUnlock(told) \/ \E starts \in BOOLEAN : Establish(starts, told)
          \/ UNCHANGED <<accelVars, screen, fetch>>
    BY DEF Connected, LockRequested, UnlockRequested, EnsureLocked, StayAsIs
  <1>8. QED
    BY <1>1, <1>2, <1>3, <1>4, <1>5, <1>6, <1>7 DEF Next, Deliver

(* What lock() and doUnlock() make of what has been announced.             *)
LEMMA LockAnnounced ==
  ASSUME NEW starts \in BOOLEAN, NEW told, Establish(starts, told)
  PROVE  /\ lost' = (told = <<>>) /\ unread' = FALSE
         /\ locked' \in BOOLEAN /\ failed' \in BOOLEAN /\ (locked' \/ failed')
  BY DEF Establish

(* And what doUnlock() makes of it.                                        *)
LEMMA UnlockAnnounced ==
  ASSUME NEW told, DoUnlock(told)
  PROVE  /\ lost' = (told = <<>>) /\ unread' = FALSE
         /\ locked' \in BOOLEAN /\ failed' \in BOOLEAN /\ ~(locked' \/ failed')
  BY DEF DoUnlock

(* A signal that is passed on, whatever the daemon makes of it.            *)
LEMMA SignalledPreserves ==
  ASSUME LogindIInv, LockRequested \/ UnlockRequested
  PROVE  LogindIInv'
  <1>1. outbox \in Seq(LogindCalls)
    BY CallsOfDaemon DEF LogindIInv
  <1>2. \A kind, more : Signalled(kind, more) =>
          /\ inbox # <<>> /\ Head(inbox).kind = kind /\ inbox' = Tail(inbox)
          /\ outbox' = outbox \o more /\ UNCHANGED <<client, owners, hint, refused>>
    BY DEF Signalled, Arrived
  <1> DEFINE kinds == {"Lock", "Unlock", "Sleep"}
  <1>3. \/ \E starts \in BOOLEAN, kind \in kinds : \E told :
             /\ told = LockCalls(connected, sessionPath, starts)
             /\ Establish(starts, told) /\ Signalled(kind, told)
        \/ \E kind \in kinds : \E told :
             /\ told = SetLocked(connected, sessionPath, FALSE)
             /\ DoUnlock(told) /\ Signalled(kind, told)
        \/ \E kind \in kinds : Signalled(kind, <<>>) /\ StayAsIs /\ UNCHANGED unread
    BY DEF LockRequested, UnlockRequested, EnsureLocked
  <1>4. ASSUME NEW kind \in kinds, NEW v \in BOOLEAN, NEW told, Telling(told, v),
               Signalled(kind, told), lost' = (told = <<>>), unread' = FALSE,
               locked' \in BOOLEAN, failed' \in BOOLEAN, locked' \/ failed' <=> v
        PROVE  LogindIInv'
    <2>1. /\ inbox # <<>> /\ Head(inbox).kind = kind /\ inbox' = Tail(inbox)
          /\ outbox' = outbox \o told /\ UNCHANGED <<client, owners, hint, refused>>
      BY <1>2, <1>4
    <2>2. Head(inbox).kind \in {"session", "Lock", "Unlock", "Sleep"}
      BY <2>1
    <2>3. QED
      BY <1>4, <2>1, <2>2, SetLockedPreserves
  <1>5. ASSUME NEW kind \in kinds, Signalled(kind, <<>>), StayAsIs, UNCHANGED unread
        PROVE  LogindIInv'
    <2>1. UNCHANGED outbox
      BY <1>1, <1>2, <1>5
    <2>2. UNCHANGED <<client, bus, outbox>> /\ UNCHANGED <<screen, unread>>
      BY <1>2, <1>5, <2>1 DEF StayAsIs, bus
    <2>3. QED
      BY <1>2, <1>5, <2>2, NothingToldPreserves
  <1>6. QED
    BY <1>3, <1>4, <1>5, LockTells, LockAnnounced, UnlockAnnounced DEF Telling

(* Every step of the daemon and of the bus.                                *)
LEMMA NextPreservesLogind ==
  ASSUME LogindIInv, [Next]_vars
  PROVE  LogindIInv'
  <1>1. CASE UserLocks
    <2>1. PICK starts \in BOOLEAN :
            LET told == LockCalls(connected, sessionPath, starts) IN
              /\ Establish(starts, told) /\ outbox' = outbox \o told
              /\ UNCHANGED <<client, owners, hint, refused, inbox>>
      BY <1>1 DEF UserLocks
    <2>2. QED
      BY <2>1, LockTells, LockAnnounced, SetLockedPreserves
  <1>2. CASE UserUnlocks
    BY <1>2, UnlockAnnounced, SetLockedPreserves DEF UserUnlocks, Telling
  <1>3. CASE BusReplied
    <2>1. CASE NamesReplied \/ LogindRegistered
      BY <1>3, <2>1, NamesPreserves DEF BusReplied
    <2>2. CASE LogindUnregistered
      BY <1>3, <2>2, UnregisteredPreserves DEF BusReplied
    <2>3. CASE SessionIgnored
      BY <1>3, <2>3, NothingToldPreserves DEF BusReplied, SessionIgnored, Arrived
    <2>4. QED
      BY <1>3, <2>1, <2>2, <2>3 DEF BusReplied
  <1>4. CASE Connected
    BY <1>4, ConnectedPreserves
  <1>5. CASE LockRequested \/ UnlockRequested
    BY <1>5, SignalledPreserves
  <1>6. CASE Bus
    BY <1>6, ArrivalPreserves, StartPreserves, StopPreserves, EmitPreserves DEF Bus, Environment
  <1>7. CASE UNCHANGED <<logindVars, screen, unread>>
    <2>1. SameAsBefore /\ UNCHANGED <<client, bus, outbox, inbox>>
      BY <1>7, SameScreen DEF logindVars
    <2>2. /\ UNCHANGED <<connected, service, sessionPath, rules>>
          /\ UNCHANGED <<owners, hint, lost, refused, outbox, inbox>>
      BY <2>1 DEF client, bus
    <2>3. LogindTypeOK'
      BY <2>2 DEF LogindIInv, LogindTypeOK
    <2>4. (ServiceIsKnown /\ ServiceIsLogind /\ LeavingIsHeard)'
      BY <2>2 DEF LogindIInv, ServiceIsKnown, ServiceIsLogind, LeavingIsHeard, AtLogind
    <2>5. HintIsToBeRight'
      BY <2>1, <2>2 DEF LogindIInv, HintIsToBeRight, AtLogind, SameAsBefore
    <2>6. QED
      BY <2>1, <2>3, <2>4, <2>5 DEF LogindIInv, SameAsBefore
  <1>8. AccelReplied \/ ComponentsChange \/ UNCHANGED vars
          => UNCHANGED <<logindVars, screen, unread>>
    BY DEF AccelReplied, ComponentsChange, vars
  <1>9. QED
    BY <1>1, <1>2, <1>3, <1>4, <1>5, <1>6, <1>7, <1>8 DEF Next, Deliver

(* The invariant holds in every reachable state.                           *)
THEOREM Inductive == Spec => []IInv
  <1>1. Init => IInv
    BY InitEstablishes
  <1>2. IInv /\ [Next]_vars => IInv'
    BY NextPreservesAccel, NextPreservesLogind DEF IInv
  <1>3. QED
    BY <1>1, <1>2, PTL DEF Spec

(* The states of all three modules are what they are meant to be.          *)
THEOREM TypeCorrect == Spec => []TypeOK
  <1>1. IInv => TypeOK
    BY DEF IInv, AccelIInv, LogindIInv, TypeOK
  <1>2. QED
    BY <1>1, Inductive, PTL

(* When everything has come where it was sent, the hint is what the daemon *)
(* told logind last, unless that was lost; and it says that the session is *)
(* locked only if it is, or if the last lock() failed, or if the daemon    *)
(* has not been able to read it.                                           *)
THEOREM HintComesRight == Spec => []HintIsRight
  <1>1. IInv => HintIsRight
    <2>1. SUFFICES ASSUME IInv, InTouch, Settled
                   PROVE  /\ hint => locked \/ failed \/ unread
                          /\ ~lost => hint = (locked \/ failed)
      BY DEF HintIsRight
    <2>2. outbox = <<>> /\ AtLogind /\ ~Leaving(inbox)
      BY <2>1 DEF InTouch, Settled, AtLogind, Leaving
    <2>3. hint \in BOOLEAN /\ HintIsToBeRight
      BY <2>1 DEF IInv, LogindIInv, LogindTypeOK
    <2>4. QED
      BY <2>2, <2>3, NoCall DEF HintIsToBeRight
  <1>2. QED
    BY <1>1, Inductive, PTL

(* m_updatingInformation is the number of calls whose reply has not been   *)
(* handled: it never wraps, and it comes back to 0.                        *)
THEOREM CounterIsRight == Spec => []CounterIsCalls
  <1>1. IInv => CounterIsCalls
    BY DEF IInv, AccelIInv
  <1>2. QED
    BY <1>1, Inductive, PTL

(* What a lock that fetches for itself lets through are the shortcuts of   *)
(* active components, and all of them when its fetch has come to its end   *)
(* without an error.  Of a lock that found an earlier fetch under way the  *)
(* theorem says nothing.                                                   *)
THEOREM ShortcutsAreRight == Spec => []ShortcutsAreThisLocks
  <1>1. IInv => ShortcutsAreThisLocks
    <2>1. SUFFICES ASSUME IInv, locked, fetch # "raced"
                   PROVE  /\ shortcuts \subseteq active
                          /\ calls = <<>> /\ fetch = "own" => active \subseteq shortcuts
      BY DEF ShortcutsAreThisLocks
    <2>2. calls = <<>> => \A call : ~UnderWay(calls, call)
      BY DEF UnderWay
    <2>3. QED
      BY <2>1, <2>2 DEF IInv, AccelIInv, FetchIsOfThisLock, WillLeadTo
  <1>2. QED
    BY <1>1, Inductive, PTL
=============================================================================
