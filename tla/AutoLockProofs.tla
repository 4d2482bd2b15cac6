--------------------------- MODULE AutoLockProofs ----------------------------
(***************************************************************************)
(* Proofs about AutoLock, for every set of clients and of settings and for *)
(* every bound on cookies and on messages.                                 *)
(***************************************************************************)
EXTENDS AutoLock, QueueTheorems, TLAPS

IsAdd(call) == call[1] = "add"
IsAnswer(m) == m[1] \in {"added", "failed"}
Waiting     == {"asking", "abandoned"}

(* Of calls `out' and messages `in', each AddInhibition and each answer to *)
(* one is the only one for its inhibitor, and the inhibitor waits for it.  *)
OneEach(out, in, state) ==
  /\ \A i \in 1 .. Len(out) : IsAdd(out[i]) => state[out[i][2]] \in Waiting
  /\ \A i \in 1 .. Len(in) : IsAnswer(in[i]) => state[in[i][2]] \in Waiting
  /\ \A i, j \in 1 .. Len(out) :
       IsAdd(out[i]) /\ IsAdd(out[j]) /\ out[i][2] = out[j][2] => i = j
  /\ \A i, j \in 1 .. Len(in) :
       IsAnswer(in[i]) /\ IsAnswer(in[j]) /\ in[i][2] = in[j][2] => i = j
  /\ \A i \in 1 .. Len(out), j \in 1 .. Len(in) :
       ~(IsAdd(out[i]) /\ IsAnswer(in[j]) /\ out[i][2] = in[j][2])

(* AddInhibition is answered once for each inhibitor.  Without this the    *)
(* answer could bring back an inhibitor that has been released.            *)
OneAnswerToCome == OneEach(outbox, inbox, inhibitor)

(* A cookie is given out once: to a request that has it for itself and is  *)
(* one of finitely many, and to the inhibitor that is constructed with it. *)
CookiesAreFresh ==
  /\ IsFiniteSet(requests)
  /\ \A r, q \in requests : r.cookie = q.cookie => r = q
  /\ \A k \in Cookies : k >= nextCookie => inhibitor[k] = "none"
  /\ nextCookie + InFlight <= MaxCookies

(* The inductive invariant.                                                *)
IInv ==
  /\ TypeOK
  /\ OneAnswerToCome
  /\ CookiesAreFresh
  /\ Accounted
  /\ TimeoutIsRightful

-----------------------------------------------------------------------------
(* Calls and answers.                                                      *)

(* A message that answers nothing changes nothing.                         *)
LEMMA OtherMessage ==
  ASSUME NEW out, NEW in \in Seq(Messages), NEW state, OneEach(out, in, state),
         NEW m \in Messages, ~IsAnswer(m)
  PROVE  OneEach(out, Append(in, m), state)
  <1> DEFINE new == Append(in, m)
  <1>1. /\ Len(new) = Len(in) + 1 /\ Len(in) \in Nat
        /\ \A i \in 1 .. Len(in) : new[i] = in[i]
        /\ ~IsAnswer(new[Len(in) + 1])
    BY AppendProperties, LenProperties
  <1>2. \A i \in 1 .. Len(new) : IsAnswer(new[i]) => i \in 1 .. Len(in) /\ new[i] = in[i]
    <2> HIDE DEF new
    <2> QED
      BY <1>1
  <1>3. QED
    BY <1>2 DEF OneEach

(* So does a call that is not AddInhibition, or any number of them.        *)
LEMMA OtherCalls ==
  ASSUME NEW out \in Seq(Calls), NEW in, NEW state, OneEach(out, in, state),
         NEW calls \in Seq(Calls), \A i \in 1 .. Len(calls) : ~IsAdd(calls[i])
  PROVE  OneEach(out \o calls, in, state)
  <1> DEFINE new == out \o calls
  <1>1. /\ Len(new) = Len(out) + Len(calls) /\ Len(out) \in Nat /\ Len(calls) \in Nat
        /\ \A i \in 1 .. Len(new) : new[i] = IF i <= Len(out) THEN out[i]
                                                              ELSE calls[i - Len(out)]
    BY ConcatProperties, LenProperties
  <1>2. \A i \in 1 .. Len(new) : IsAdd(new[i]) => i \in 1 .. Len(out) /\ new[i] = out[i]
    <2> HIDE DEF new
    <2> QED
      BY <1>1
  <1>3. QED
    BY <1>2 DEF OneEach

(* One such call.                                                          *)
LEMMA OtherCall ==
  ASSUME NEW out \in Seq(Calls), NEW in, NEW state, OneEach(out, in, state),
         NEW call \in Calls, ~IsAdd(call)
  PROVE  OneEach(Append(out, call), in, state)
  <1>1. Append(out, call) = out \o <<call>>
    BY AppendIsConcat
  <1>2. <<call>> \in Seq(Calls) /\ \A i \in 1 .. Len(<<call>>) : ~IsAdd(<<call>>[i])
    OBVIOUS
  <1>3. QED
    BY <1>1, <1>2, OtherCalls

(* The oldest message is taken; if it is an answer, what its inhibitor     *)
(* becomes is the end of it.                                               *)
LEMMA MessageTaken ==
  ASSUME NEW out \in Seq(Calls), NEW in \in Seq(Messages),
         NEW state \in [Cookies -> InhibitorStates], in # <<>>, OneEach(out, in, state)
  PROVE  /\ OneEach(out, Tail(in), state)
         /\ \A k \in Cookies : \A s \in InhibitorStates :
              IsAnswer(Head(in)) /\ k = Head(in)[2]
                => OneEach(out, Tail(in), [state EXCEPT ![k] = s])
  <1> DEFINE new == Tail(in)
  <1>1. /\ Len(new) = Len(in) - 1 /\ Len(in) \in Nat \ {0}
        /\ \A i \in 1 .. Len(new) : new[i] = in[i + 1]
        /\ Head(in) = in[1]
    BY HeadTailProperties, EmptySeq
  <1>2. \A i \in 1 .. Len(new) : i + 1 \in 1 .. Len(in) /\ i + 1 # 1 /\ 1 \in 1 .. Len(in)
    <2> HIDE DEF new
    <2> QED
      BY <1>1
  <1>3. OneEach(out, new, state)
    <2> HIDE DEF new
    <2>1. \A i \in 1 .. Len(new) : IsAnswer(new[i]) => state[new[i][2]] \in Waiting
      BY <1>1, <1>2 DEF OneEach
    <2>2. \A i, j \in 1 .. Len(new) :
            IsAnswer(new[i]) /\ IsAnswer(new[j]) /\ new[i][2] = new[j][2] => i = j
      <3>1. \A i, j \in 1 .. Len(new) : i + 1 = j + 1 => i = j
        BY <1>1
      <3>2. SUFFICES ASSUME NEW i \in 1 .. Len(new), NEW j \in 1 .. Len(new),
                            IsAnswer(new[i]), IsAnswer(new[j]), new[i][2] = new[j][2]
                     PROVE  i + 1 = j + 1
        BY <3>1
      <3>3. /\ i + 1 \in 1 .. Len(in) /\ j + 1 \in 1 .. Len(in)
            /\ in[i + 1] = new[i] /\ in[j + 1] = new[j]
        BY <1>1, <1>2
      <3>4. QED
        BY <3>2, <3>3 DEF OneEach
    <2>3. \A i \in 1 .. Len(out), j \in 1 .. Len(new) :
            ~(IsAdd(out[i]) /\ IsAnswer(new[j]) /\ out[i][2] = new[j][2])
      BY <1>1, <1>2 DEF OneEach
    <2>4. QED
      BY <2>1, <2>2, <2>3 DEF OneEach
  <1>4. ASSUME NEW k \in Cookies, NEW s \in InhibitorStates,
               IsAnswer(Head(in)), k = Head(in)[2]
        PROVE  OneEach(out, new, [state EXCEPT ![k] = s])
    <2> HIDE DEF new
    <2>1. \A i \in 1 .. Len(new) : IsAnswer(new[i]) => new[i][2] # k
      BY <1>1, <1>2, <1>4 DEF OneEach
    <2>2. \A i \in 1 .. Len(out) : IsAdd(out[i]) => out[i][2] # k
      BY <1>1, <1>2, <1>4 DEF OneEach
    <2>3. QED
      BY <1>3, <2>1, <2>2 DEF OneEach
  <1>5. QED
    BY <1>3, <1>4

(* The oldest call is taken, as the power service does.                    *)
LEMMA CallTaken ==
  ASSUME NEW out \in Seq(Calls), NEW in \in Seq(Messages), NEW state, out # <<>>,
         OneEach(out, in, state)
  PROVE  /\ OneEach(Tail(out), in, state)
         /\ \A m \in Messages :
              IsAdd(Head(out)) /\ IsAnswer(m) /\ m[2] = Head(out)[2]
                => OneEach(Tail(out), Append(in, m), state)
  <1> DEFINE rest == Tail(out)
  <1>1. /\ Len(rest) = Len(out) - 1 /\ Len(out) \in Nat \ {0}
        /\ \A i \in 1 .. Len(rest) : rest[i] = out[i + 1]
        /\ Head(out) = out[1]
    BY HeadTailProperties, EmptySeq
  <1>2. \A i \in 1 .. Len(rest) : i + 1 \in 1 .. Len(out) /\ i + 1 # 1 /\ 1 \in 1 .. Len(out)
    <2> HIDE DEF rest
    <2> QED
      BY <1>1
  <1>3. OneEach(rest, in, state)
    <2> HIDE DEF rest
    <2>1. \A i \in 1 .. Len(rest) : IsAdd(rest[i]) => state[rest[i][2]] \in Waiting
      BY <1>1, <1>2 DEF OneEach
    <2>2. \A i, j \in 1 .. Len(rest) :
            IsAdd(rest[i]) /\ IsAdd(rest[j]) /\ rest[i][2] = rest[j][2] => i = j
      <3>1. \A i, j \in 1 .. Len(rest) : i + 1 = j + 1 => i = j
        BY <1>1
      <3>2. SUFFICES ASSUME NEW i \in 1 .. Len(rest), NEW j \in 1 .. Len(rest),
                            IsAdd(rest[i]), IsAdd(rest[j]), rest[i][2] = rest[j][2]
                     PROVE  i + 1 = j + 1
        BY <3>1
      <3>3. /\ i + 1 \in 1 .. Len(out) /\ j + 1 \in 1 .. Len(out)
            /\ out[i + 1] = rest[i] /\ out[j + 1] = rest[j]
        BY <1>1, <1>2
      <3>4. QED
        BY <3>2, <3>3 DEF OneEach
    <2>3. \A i \in 1 .. Len(rest), j \in 1 .. Len(in) :
            ~(IsAdd(rest[i]) /\ IsAnswer(in[j]) /\ rest[i][2] = in[j][2])
      BY <1>1, <1>2 DEF OneEach
    <2>4. QED
      BY <2>1, <2>2, <2>3 DEF OneEach
  <1>4. ASSUME NEW m \in Messages, IsAdd(Head(out)), IsAnswer(m), m[2] = Head(out)[2]
        PROVE  OneEach(rest, Append(in, m), state)
    <2> DEFINE new == Append(in, m)
    <2>1. /\ Len(new) = Len(in) + 1 /\ Len(in) \in Nat
          /\ \A i \in 1 .. Len(in) : new[i] = in[i]
          /\ new[Len(in) + 1] = m
      BY AppendProperties, LenProperties
    <2>2. /\ \A j \in 1 .. Len(in) : IsAnswer(in[j]) => in[j][2] # m[2]
          /\ state[m[2]] \in Waiting
      <3>1. 1 \in 1 .. Len(out)
        BY <1>1
      <3>2. QED
        BY <1>1, <1>4, <3>1 DEF OneEach
    <2>3. \A i \in 1 .. Len(rest) : IsAdd(rest[i]) => rest[i][2] # m[2]
      <3> HIDE DEF rest
      <3> QED
        BY <1>1, <1>2, <1>4 DEF OneEach
    <2>4. \A i \in 1 .. Len(new) : \/ i \in 1 .. Len(in) /\ new[i] = in[i]
                                   \/ i = Len(in) + 1 /\ new[i] = m
      <3> HIDE DEF new
      <3> QED
        BY <2>1
    <2>5. QED
      <3> HIDE DEF new, rest
      <3>1. \A i \in 1 .. Len(new) : IsAnswer(new[i]) => state[new[i][2]] \in Waiting
        BY <1>3, <2>2, <2>4 DEF OneEach
      <3>2. \A i, j \in 1 .. Len(new) :
              IsAnswer(new[i]) /\ IsAnswer(new[j]) /\ new[i][2] = new[j][2] => i = j
        BY <1>3, <2>2, <2>4 DEF OneEach
      <3>3. \A i \in 1 .. Len(rest), j \in 1 .. Len(new) :
              ~(IsAdd(rest[i]) /\ IsAnswer(new[j]) /\ rest[i][2] = new[j][2])
        BY <1>3, <2>3, <2>4 DEF OneEach
      <3>4. QED
        BY <1>3, <3>1, <3>2, <3>3 DEF OneEach, new, rest
  <1>5. QED
    BY <1>3, <1>4

(* A new inhibitor asks, after no call or answer for its cookie was about. *)
LEMMA NewCall ==
  ASSUME NEW out \in Seq(Calls), NEW in \in Seq(Messages),
         NEW state \in [Cookies -> InhibitorStates], OneEach(out, in, state),
         NEW k \in Cookies, state[k] = "none"
  PROVE  OneEach(Append(out, <<"add", k>>), in, [state EXCEPT ![k] = "asking"])
  <1> DEFINE call  == <<"add", k>>
             new   == Append(out, call)
             after == [state EXCEPT ![k] = "asking"]
  <1>1. /\ Len(new) = Len(out) + 1 /\ Len(out) \in Nat
        /\ \A i \in 1 .. Len(out) : new[i] = out[i]
        /\ new[Len(out) + 1] = call
    <2>1. call \in Calls
      BY DEF Calls
    <2>2. QED
      BY <2>1, AppendProperties, LenProperties
  <1>2. /\ \A i \in 1 .. Len(out) : IsAdd(out[i]) => out[i][2] # k
        /\ \A i \in 1 .. Len(in) : IsAnswer(in[i]) => in[i][2] # k
    BY DEF OneEach, Waiting
  <1>3. \A i \in 1 .. Len(new) :
          \/ i \in 1 .. Len(out) /\ new[i] = out[i]
          \/ i = Len(out) + 1 /\ new[i] = call
    <2> HIDE DEF new, call
    <2> QED
      BY <1>1
  <1>4. after[k] \in Waiting /\ \A n : n # k /\ state[n] \in Waiting => after[n] \in Waiting
    BY DEF Waiting
  <1>5. call[2] = k
    OBVIOUS
  <1>6. QED
    <2> HIDE DEF new, call, after
    <2>1. \A i \in 1 .. Len(new) : IsAdd(new[i]) => after[new[i][2]] \in Waiting
      BY <1>2, <1>3, <1>4, <1>5 DEF OneEach
    <2>2. \A i \in 1 .. Len(in) : IsAnswer(in[i]) => after[in[i][2]] \in Waiting
      BY <1>2, <1>4 DEF OneEach
    <2>3. \A i, j \in 1 .. Len(new) :
            IsAdd(new[i]) /\ IsAdd(new[j]) /\ new[i][2] = new[j][2] => i = j
      BY <1>2, <1>3, <1>5 DEF OneEach
    <2>4. \A i \in 1 .. Len(new), j \in 1 .. Len(in) :
            ~(IsAdd(new[i]) /\ IsAnswer(in[j]) /\ new[i][2] = in[j][2])
      BY <1>2, <1>3, <1>5 DEF OneEach
    <2>5. QED
      BY <2>1, <2>2, <2>3, <2>4 DEF OneEach, new, call, after

(* A message or call that is none of the kinds that OneEach is about.      *)
LEMMA Kinds ==
  /\ \A m \in Messages : IsAnswer(m) => m[2] \in Cookies
  /\ \A m \in Messages : m[1] = "inhibit" <=> m \in {"inhibit"} \X Clients
  /\ \A m \in Messages : m[1] = "gone" => m[2] \in Clients
  /\ \A m \in Messages : m[1] \in {"names", "has"} => m[2] \in BOOLEAN
  /\ \A call \in Calls : call[1] \in {"add", "release"} => call[2] \in Cookies
  /\ \A call \in Calls : call[1] \in {"add", "release", "has"}
  <1>1. /\ \A m \in Messages : IsAnswer(m) => m[2] \in Cookies
        /\ \A m \in Messages : m[1] = "gone" => m[2] \in Clients
        /\ \A m \in Messages : m[1] \in {"names", "has"} => m[2] \in BOOLEAN
    BY DEF Messages, IsAnswer
  <1>2. \A m \in Messages : m[1] = "inhibit" <=> m \in {"inhibit"} \X Clients
    BY DEF Messages
  <1>3. /\ \A call \in Calls : call[1] \in {"add", "release"} => call[2] \in Cookies
        /\ \A call \in Calls : call[1] \in {"add", "release", "has"}
    BY DEF Calls
  <1>4. QED
    BY <1>1, <1>2, <1>3

(* An inhibitor that waits and is released goes on waiting.                *)
LEMMA StillWaiting ==
  ASSUME NEW out \in Seq(Calls), NEW in \in Seq(Messages), NEW state, NEW after,
         OneEach(out, in, state),
         \A k \in Cookies : state[k] \in Waiting => after[k] \in Waiting
  PROVE  OneEach(out, in, after)
  <1>1. /\ \A i \in 1 .. Len(out) : IsAdd(out[i]) => out[i][2] \in Cookies
        /\ \A i \in 1 .. Len(in) : IsAnswer(in[i]) => in[i][2] \in Cookies
    <2>1. /\ \A i \in 1 .. Len(out) : out[i] \in Calls
          /\ \A i \in 1 .. Len(in) : in[i] \in Messages
      BY ElementOfSeq
    <2>2. QED
      BY <2>1, Kinds DEF IsAdd
  <1>2. QED
    BY <1>1 DEF OneEach

(* Values that are messages, and values that are calls.                    *)
LEMMA Values ==
  /\ \A b \in BOOLEAN : <<"names", b>> \in Messages /\ <<"has", b>> \in Messages
  /\ \A k \in Cookies : <<"added", k>> \in Messages /\ <<"failed", k>> \in Messages
  /\ \A c \in Clients : <<"inhibit", c>> \in Messages /\ <<"gone", c>> \in Messages
  /\ <<"registered">> \in Messages /\ <<"unregistered">> \in Messages
  /\ <<"changed">> \in Messages
  /\ \A k \in Cookies : <<"add", k>> \in Calls /\ <<"release", k>> \in Calls
  /\ <<"has">> \in Calls
  BY DEF Messages, Calls

(* How many inhibitions are asked for in a queue: InFlight, of the inbox.  *)
Inhibitions(q) == Cardinality(Places(q, {"inhibit"} \X Clients))

(* It goes up and down with each message that asks for one.                *)
LEMMA InhibitionsCounts ==
  ASSUME NEW q \in Seq(Messages)
  PROVE  /\ Inhibitions(q) \in Nat
         /\ \A m \in Messages :
              Inhibitions(Append(q, m)) = Inhibitions(q) + IF m[1] = "inhibit" THEN 1 ELSE 0
         /\ q # <<>> =>
              Inhibitions(Tail(q)) = Inhibitions(q) - IF Head(q)[1] = "inhibit" THEN 1 ELSE 0
  <1> DEFINE kind == {"inhibit"} \X Clients
  <1>1. \A m \in Messages : m[1] = "inhibit" <=> m \in kind
    BY Kinds
  <1>2. q # <<>> => Head(q) \in Messages
    BY HeadTailProperties
  <1>3. \A x : Inhibitions(x) = Cardinality(Places(x, kind))
    BY DEF Inhibitions
  <1> HIDE DEF kind
  <1>4. QED
    BY <1>1, <1>2, <1>3, PlacesFinite, PlacesAppend, PlacesTail

(* InFlight is that number.                                                *)
LEMMA InFlightCounts ==
  /\ inbox \in Seq(Messages) => InFlight = Inhibitions(inbox)
  /\ inbox' \in Seq(Messages) => InFlight' = Inhibitions(inbox')
  <1>1. ASSUME NEW q \in Seq(Messages)
        PROVE  {i \in 1 .. Len(q) : q[i][1] = "inhibit"} = Places(q, {"inhibit"} \X Clients)
    <2>1. \A i \in 1 .. Len(q) : q[i] \in Messages
      BY ElementOfSeq
    <2>2. QED
      BY <2>1, Kinds DEF Places
  <1>2. QED
    BY <1>1 DEF InFlight, Inhibitions

-----------------------------------------------------------------------------
(* The parts of the steps.                                                 *)

(* What updateIdleTimeout() makes of a timeout that was rightful: with an  *)
(* inhibition none runs, and without one the configured one does.          *)
LEMMA IdleTimeoutValue ==
  ASSUME NEW timeout \in Nat, NEW inhibited \in BOOLEAN, NEW c \in Settings,
         UpdateIdleTimeout(timeout, inhibited, c),
         timeout # 0 => timeout = TimeoutOf(c)
  PROVE  /\ idleTimeout' \in Nat
         /\ idleTimeout' = IF inhibited THEN 0 ELSE TimeoutOf(c)
  <1>1. TimeoutOf(c) \in Nat
    BY SettingsAssumption DEF TimeoutOf
  <1>2. QED
    BY <1>1 DEF UpdateIdleTimeout

(* What Close() does to the rest of the invariant, whoever calls it: it    *)
(* counts down once for each request and releases each inhibitor.          *)
LEMMA CloseCounts ==
  ASSUME IInv, NEW closed \in SUBSET requests, Close(closed)
  PROVE  /\ requests' \subseteq requests /\ IsFiniteSet(requests')
         /\ inhibitCounter' \in Nat /\ inhibitCounter' = Cardinality(requests')
         /\ inhibitor' \in [Cookies -> InhibitorStates]
         /\ \A k \in Cookies :
              (inhibitor'[k] \in {"asking", "granted", "refused"})
                <=> \E r \in requests' : r.cookie = k
         /\ \A k \in Cookies : k >= nextCookie => inhibitor'[k] = "none"
  <1> DEFINE cookies == {r.cookie : r \in closed}
             open    == {"asking", "granted", "refused"}
  <1>1. /\ requests' = requests \ closed
        /\ inhibitCounter' = CountWithout(closed)
        /\ inhibitor' = [k \in Cookies |-> IF k \in cookies THEN Released(inhibitor[k])
                                                            ELSE inhibitor[k]]
    BY DEF Close
  <1>2. /\ IsFiniteSet(requests) /\ inhibitCounter = Cardinality(requests)
        /\ \A r, q \in requests : r.cookie = q.cookie => r = q
        /\ \A k \in Cookies : k >= nextCookie => inhibitor[k] = "none"
        /\ \A k \in Cookies : inhibitor[k] \in open <=> \E r \in requests : r.cookie = k
        /\ inhibitor \in [Cookies -> InhibitorStates]
    BY DEF IInv, TypeOK, CookiesAreFresh, Accounted
  <1>3. /\ IsFiniteSet(requests') /\ inhibitCounter' = Cardinality(requests')
        /\ inhibitCounter' \in Nat
    <2>1. requests \cap closed = closed
      OBVIOUS
    <2>2. /\ IsFiniteSet(requests \ closed)
          /\ Cardinality(requests \ closed) = Cardinality(requests) - Cardinality(closed)
      BY <1>2, <2>1, FS_Difference
    <2>3. QED
      BY <1>1, <1>2, <2>2, FS_CardinalityType DEF CountWithout
  <1>4. \A k \in cookies : inhibitor[k] \in open
    BY <1>2 DEF IInv, TypeOK, RequestSet
  <1>5. \A k \in Cookies : /\ inhibitor'[k] \in InhibitorStates
                           /\ k \in cookies => inhibitor'[k] \in {"abandoned", "deleted"}
                           /\ k \notin cookies => inhibitor'[k] = inhibitor[k]
    BY <1>1, <1>2 DEF Released, InhibitorStates
  <1>6. inhibitor' \in [Cookies -> InhibitorStates]
    BY <1>1, <1>5
  <1>7. \A k \in Cookies : inhibitor'[k] \in open <=> \E r \in requests' : r.cookie = k
    <2>1. ASSUME NEW k \in Cookies, k \in cookies PROVE ~\E r \in requests' : r.cookie = k
      BY <1>1, <1>2, <2>1
    <2>2. ASSUME NEW k \in Cookies, k \notin cookies
          PROVE  (\E r \in requests' : r.cookie = k) <=> (\E r \in requests : r.cookie = k)
      BY <1>1, <2>2
    <2>3. QED
      BY <1>2, <1>5, <2>1, <2>2
  <1>8. \A k \in Cookies : k >= nextCookie => inhibitor'[k] = "none"
    BY <1>2, <1>4, <1>5
  <1>9. QED
    BY <1>1, <1>3, <1>6, <1>7, <1>8

(* The calls that Close() makes release what the power service has granted.*)
LEMMA CloseCalls ==
  ASSUME IInv, NEW closed \in SUBSET requests, Close(closed)
  PROVE  /\ outbox' \in Seq(Calls)
         /\ OneEach(outbox', inbox, inhibitor')
  <1> DEFINE cookies == {r.cookie : r \in closed}
             granted == {k \in cookies : inhibitor[k] = "granted"}
  <1>1. PICK turn \in [1 .. Cardinality(granted) -> granted] :
          outbox' = outbox \o [i \in DOMAIN turn |-> <<"release", turn[i]>>]
    BY DEF Close
  <1> DEFINE calls == [i \in DOMAIN turn |-> <<"release", turn[i]>>]
  <1>2. cookies \subseteq Cookies
    BY DEF IInv, TypeOK, RequestSet
  <1>3. Cardinality(granted) \in Nat
    <2>1. IsFiniteSet(Cookies)
      BY MaxAssumption, FS_Interval DEF Cookies
    <2>2. IsFiniteSet(granted)
      BY <1>2, <2>1, FS_Subset
    <2>3. QED
      BY <2>2, FS_CardinalityType
  <1>4. /\ calls \in [1 .. Cardinality(granted) -> Calls]
        /\ \A i \in 1 .. Cardinality(granted) : ~IsAdd(calls[i])
    BY <1>2, Values DEF IsAdd
  <1>5. calls \in Seq(Calls) /\ Len(calls) = Cardinality(granted)
    <2> HIDE DEF calls, granted
    <2> QED
      BY <1>3, <1>4, FunctionIsSequence
  <1>6. outbox \in Seq(Calls) /\ inbox \in Seq(Messages) /\ OneEach(outbox, inbox, inhibitor)
    BY DEF IInv, TypeOK, OneAnswerToCome
  <1>7. OneEach(outbox \o calls, inbox, inhibitor) /\ outbox \o calls \in Seq(Calls)
    <2> HIDE DEF calls, granted
    <2> QED
      BY <1>4, <1>5, <1>6, OtherCalls, ConcatProperties
  <1>8. \A k \in Cookies : inhibitor[k] \in Waiting => inhibitor'[k] \in Waiting
    <2>1. \A k \in cookies : inhibitor[k] \in {"asking", "granted", "refused"}
      BY <1>2 DEF IInv, Accounted
    <2>2. inhibitor' = [k \in Cookies |-> IF k \in cookies THEN Released(inhibitor[k])
                                                           ELSE inhibitor[k]]
      BY DEF Close
    <2>3. QED
      BY <2>1, <2>2 DEF Waiting, Released
  <1>9. QED
    <2> HIDE DEF calls, granted
    <2>1. outbox' = outbox \o calls
      BY <1>1 DEF calls
    <2>2. QED
      BY <1>6, <1>7, <1>8, <2>1, StillWaiting

(* Close() leaves the timeout as the remaining requests want it, or, where *)
(* there is nothing to close, timeout and counter as they are.             *)
LEMMA CloseUpdates ==
  ASSUME IInv, NEW closed \in SUBSET requests, Close(closed)
  PROVE  \/ UNCHANGED <<idleTimeout, inhibitCounter>>
         \/ /\ idleTimeout' \in Nat
            /\ idleTimeout' = IF IsInhibited(inhibitCounter', powerInhibited) THEN 0
                              ELSE TimeoutOf(settings)
  <1>1. inhibitCounter' = CountWithout(closed)
    BY DEF Close
  <1>2. CASE closed = {}
    <2>1. inhibitCounter' = inhibitCounter
      BY <1>1, <1>2, FS_EmptySet DEF CountWithout, IInv, TypeOK
    <2>2. QED
      BY <1>2, <2>1 DEF Close
  <1>3. CASE closed # {}
    <2>1. IsInhibited(CountWithout(closed), powerInhibited) \in BOOLEAN
      BY DEF IsInhibited, IInv, TypeOK
    <2>2. UpdateIdleTimeout(idleTimeout, IsInhibited(CountWithout(closed), powerInhibited),
                            settings)
      BY <1>3 DEF Close
    <2>3. /\ idleTimeout \in Nat /\ settings \in Settings
          /\ idleTimeout # 0 => idleTimeout = TimeoutOf(settings)
      BY DEF IInv, TypeOK, TimeoutIsRightful
    <2>4. QED
      BY <1>1, <2>1, <2>2, <2>3, IdleTimeoutValue
  <1>4. QED
    BY <1>2, <1>3

(* All that any step can do to the timer and to what it depends on: leave  *)
(* it alone, bring it up to date, or, when the power service leaves the    *)
(* bus, forget its inhibition without telling the timer.                   *)
LEMMA TimerSteps ==
  ASSUME IInv, [Next]_vars
  PROVE  \/ UNCHANGED <<settings, idleTimeout, inhibitCounter, powerInhibited>>
         \/ /\ settings' \in Settings /\ idleTimeout' \in Nat
            /\ idleTimeout' = IF Inhibited' THEN 0 ELSE TimeoutOf(settings')
         \/ /\ UNCHANGED <<settings, idleTimeout, inhibitCounter>>
            /\ powerInhibited' = FALSE /\ registered' = FALSE
  <1>1. /\ settings \in Settings /\ idleTimeout \in Nat
        /\ idleTimeout # 0 => idleTimeout = TimeoutOf(settings)
        /\ inhibitCounter \in Nat
        /\ powerInhibited \in BOOLEAN /\ Inhibited \in BOOLEAN
        /\ \A r \in requests : r \in RequestSet
    BY DEF IInv, TypeOK, TimeoutIsRightful, Inhibited, IsInhibited
  <1>2. CASE Configure
    BY <1>1, <1>2, IdleTimeoutValue
    DEF Configure, iface, power, Inhibited, IsInhibited
  <1>3. CASE \E k \in Cookies : UnInhibit(k)
    <2>1. PICK k \in Cookies : UnInhibit(k)
      BY <1>3
    <2>2. PICK closed \in SUBSET requests : Close(closed)
      BY <2>1, {r \in requests : r.cookie = k} \in SUBSET requests DEF UnInhibit
    <2>3. UNCHANGED <<settings, powerInhibited>>
      BY <2>1 DEF UnInhibit, power
    <2>4. QED
      BY <1>1, <2>2, <2>3, CloseUpdates DEF Inhibited
  <1>4. CASE Deliver
    <2> DEFINE m == Head(inbox)
    <2>1. m \in Messages
      BY <1>4, HeadTailProperties DEF Deliver, IInv, TypeOK
    <2>2. CASE Inhibit(m[2])
      <3>1. /\ UpdateIdleTimeout(idleTimeout, TRUE, settings)
            /\ settings' = settings /\ inhibitCounter' = inhibitCounter + 1
        BY <2>2 DEF Inhibit
      <3>2. Inhibited'
        BY <1>1, <3>1 DEF Inhibited, IsInhibited
      <3>3. idleTimeout' \in Nat /\ idleTimeout' = 0
        BY <1>1, <3>1, IdleTimeoutValue
      <3>4. QED
        BY <1>1, <3>1, <3>2, <3>3
    <2>3. CASE ServiceUnregistered(m[2])
      <3>1. PICK closed \in SUBSET requests : Close(closed)
        BY <2>3, {r \in requests : r.client = m[2]} \in SUBSET requests
        DEF ServiceUnregistered
      <3>2. UNCHANGED <<settings, powerInhibited>>
        BY <2>3 DEF ServiceUnregistered, power
      <3>3. QED
        BY <1>1, <3>1, <3>2, CloseUpdates DEF Inhibited
    <2>4. CASE m[1] = "has" /\ HasInhibitionReplied(m[2])
      <3>1. m[2] \in BOOLEAN
        BY <2>1, <2>4, Kinds
      <3>2. CASE powerInhibited = m[2]
        BY <2>4, <3>2 DEF HasInhibitionReplied, iface
      <3>3. CASE powerInhibited # m[2]
        <4>1. UpdateIdleTimeout(idleTimeout, IsInhibited(inhibitCounter, m[2]), settings)
          BY <2>4, <3>3 DEF HasInhibitionReplied
        <4>2. IsInhibited(inhibitCounter, m[2]) \in BOOLEAN
          BY <3>1 DEF IsInhibited
        <4>3. settings' = settings /\ inhibitCounter' = inhibitCounter /\ powerInhibited' = m[2]
          BY <2>4 DEF HasInhibitionReplied, iface
        <4>4. QED
          BY <1>1, <4>1, <4>2, <4>3, IdleTimeoutValue DEF Inhibited
      <3>4. QED
        BY <3>2, <3>3
    <2>5. CASE PowerServiceUnregistered
      BY <2>5 DEF PowerServiceUnregistered, timer, iface
    <2>6. CASE \/ m[1] = "names" /\ NamesListed(m[2])
               \/ InhibitionAdded(m[2]) \/ InhibitionFailed(m[2])
               \/ Update \/ InhibitionsChanged
      BY <2>6
      DEF NamesListed, InhibitionAdded, InhibitionFailed, Update, InhibitionsChanged,
          timer, iface, power
    <2>7. QED
      BY <1>4, <2>2, <2>3, <2>4, <2>5, <2>6 DEF Deliver, Handle
  <1>5. CASE Environment
    BY <1>5
    DEF Environment, Answer, OthersChange, PowerServiceLeaves, PowerServiceComes,
        ClientInhibits, ClientExits, timer, iface, power
  <1>6. CASE UNCHANGED vars
    BY <1>6 DEF vars, timer, iface, power
  <1>7. QED
    BY <1>2, <1>3, <1>4, <1>5, <1>6 DEF Next, Daemon

(* So the timeout stays rightful.                                          *)
LEMMA TimeoutStays == ASSUME IInv, [Next]_vars PROVE TimeoutIsRightful'
  <1>1. /\ inhibitCounter \in Nat /\ TimeoutIsRightful
    BY DEF IInv, TypeOK
  <1>2. CASE UNCHANGED <<settings, idleTimeout, inhibitCounter, powerInhibited>>
    BY <1>1, <1>2 DEF TimeoutIsRightful, Inhibited, IsInhibited
  <1>3. CASE idleTimeout' = IF Inhibited' THEN 0 ELSE TimeoutOf(settings')
    BY <1>3 DEF TimeoutIsRightful
  <1>4. CASE UNCHANGED <<settings, idleTimeout, inhibitCounter>> /\ powerInhibited' = FALSE
    BY <1>1, <1>4 DEF TimeoutIsRightful, Inhibited, IsInhibited
  <1>5. QED
    BY <1>2, <1>3, <1>4, TimerSteps

(* And the timers stay of their type.                                      *)
LEMMA TimerType ==
  ASSUME IInv, [Next]_vars
  PROVE  settings' \in Settings /\ idleTimeout' \in Nat
  BY TimerSteps DEF IInv, TypeOK

-----------------------------------------------------------------------------
(* Every step preserves the invariant.                                     *)

(* A step that changes queues and flags, and no request and no inhibitor.  *)
LEMMA QueueStepPreserves ==
  ASSUME IInv, [Next]_vars,
         UNCHANGED <<inhibitCounter, requests, nextCookie, watched, inhibitor>>,
         powerInhibited' \in BOOLEAN, registered' \in BOOLEAN,
         inbox' \in Seq(Messages), outbox' \in Seq(Calls),
         OneEach(outbox', inbox', inhibitor), nextCookie + InFlight' <= MaxCookies,
         alive' \subseteq Clients, missed' \subseteq Clients,
         serviceUp' \in BOOLEAN, held' \subseteq Cookies, others' \in BOOLEAN
  PROVE  IInv'
  <1>1. TypeOK'
    BY TimerType DEF IInv, TypeOK
  <1>2. OneAnswerToCome' /\ CookiesAreFresh' /\ Accounted'
    BY DEF IInv, OneAnswerToCome, CookiesAreFresh, Accounted
  <1>3. QED
    BY <1>1, <1>2, TimeoutStays DEF IInv

(* What every message leaves in the inbox when it is delivered.            *)
LEMMA Delivered ==
  ASSUME IInv, Deliver
  PROVE  /\ Head(inbox) \in Messages /\ inbox' \in Seq(Messages) /\ outbox \in Seq(Calls)
         /\ OneEach(outbox, inbox', inhibitor)
         /\ InFlight \in Nat /\ InFlight' \in Nat /\ nextCookie \in Nat
         /\ InFlight' = InFlight - IF Head(inbox)[1] = "inhibit" THEN 1 ELSE 0
         /\ nextCookie + InFlight' <= MaxCookies
  <1>1. /\ inbox \in Seq(Messages) /\ inbox # <<>> /\ inbox' = Tail(inbox)
        /\ outbox \in Seq(Calls) /\ inhibitor \in [Cookies -> InhibitorStates]
        /\ OneEach(outbox, inbox, inhibitor)
        /\ nextCookie + InFlight <= MaxCookies /\ nextCookie \in Nat
    BY MaxAssumption DEF IInv, TypeOK, OneAnswerToCome, CookiesAreFresh, Deliver
  <1>2. Head(inbox) \in Messages /\ inbox' \in Seq(Messages)
    BY <1>1, HeadTailProperties
  <1>3. OneEach(outbox, inbox', inhibitor)
    BY <1>1, MessageTaken
  <1>4. /\ InFlight \in Nat /\ InFlight' \in Nat
        /\ InFlight' = InFlight - IF Head(inbox)[1] = "inhibit" THEN 1 ELSE 0
    BY <1>1, <1>2, InFlightCounts, InhibitionsCounts
  <1>5. nextCookie + InFlight' <= MaxCookies
    BY <1>1, <1>4, MaxAssumption
  <1>6. QED
    BY <1>1, <1>2, <1>3, <1>4, <1>5

(* Messages about the power service.                                       *)
LEMMA PowerPreserves ==
  ASSUME IInv, Deliver, NEW m, m = Head(inbox),
         \/ m[1] = "names" /\ NamesListed(m[2])
         \/ m[1] = "has" /\ HasInhibitionReplied(m[2])
         \/ Update \/ PowerServiceUnregistered \/ InhibitionsChanged
  PROVE  IInv'
  <1>1. /\ UNCHANGED <<inhibitCounter, requests, nextCookie, watched, inhibitor>>
        /\ UNCHANGED <<alive, missed, serviceUp, held, others>>
        /\ outbox' \in {outbox, Append(outbox, <<"has">>)}
    BY DEF NamesListed, HasInhibitionReplied, Update, PowerServiceUnregistered,
           InhibitionsChanged, iface, service
  <1>2. powerInhibited' \in BOOLEAN /\ registered' \in BOOLEAN
    <2>1. m[1] = "has" => m[2] \in BOOLEAN
      BY Delivered, Kinds
    <2>2. powerInhibited \in BOOLEAN /\ registered \in BOOLEAN
      BY DEF IInv, TypeOK
    <2>3. QED
      BY <2>1, <2>2
      DEF NamesListed, HasInhibitionReplied, Update, PowerServiceUnregistered,
          InhibitionsChanged, power
  <1>3. outbox' \in Seq(Calls) /\ OneEach(outbox', inbox', inhibitor)
    <2>1. <<"has">> \in Calls /\ ~IsAdd(<<"has">>)
      BY Values DEF IsAdd
    <2>2. Append(outbox, <<"has">>) \in Seq(Calls)
      BY <2>1, Delivered, AppendProperties
    <2>3. OneEach(Append(outbox, <<"has">>), inbox', inhibitor)
      BY <2>1, Delivered, OtherCall
    <2>4. QED
      BY <1>1, <2>2, <2>3, Delivered
  <1>4. [Next]_vars
    BY DEF Next, Daemon
  <1>5. QED
    BY <1>1, <1>2, <1>3, <1>4, Delivered, QueueStepPreserves DEF IInv, TypeOK

(* The answer to AddInhibition: the inhibitor has waited for it, and if it *)
(* has been released meanwhile, so is the inhibition.                      *)
LEMMA AnswerPreserves ==
  ASSUME IInv, Deliver, NEW m, m = Head(inbox),
         \/ m[1] = "added" /\ InhibitionAdded(m[2])
         \/ m[1] = "failed" /\ InhibitionFailed(m[2])
  PROVE  IInv'
  <1> DEFINE k == m[2]
  <1>1. IsAnswer(m) /\ k \in Cookies
    BY Delivered, Kinds DEF IsAnswer
  <1>2. inhibitor[k] \in Waiting
    <2>1. /\ inbox \in Seq(Messages) /\ inbox # <<>>
          /\ OneEach(outbox, inbox, inhibitor)
      BY DEF IInv, TypeOK, OneAnswerToCome, Deliver
    <2>2. 1 \in 1 .. Len(inbox) /\ inbox[1] = m
      BY <2>1, EmptySeq
    <2>3. QED
      BY <1>1, <2>1, <2>2 DEF OneEach
  <1>3. PICK s \in InhibitorStates :
          /\ inhibitor' = [inhibitor EXCEPT ![k] = s]
          /\ s \in {"granted", "refused", "deleted"}
          /\ s \in {"granted", "refused"} <=> inhibitor[k] = "asking"
    BY <1>2 DEF InhibitionAdded, InhibitionFailed, Waiting, InhibitorStates
  <1>4. outbox' \in {outbox, Append(outbox, <<"release", k>>)}
    BY DEF InhibitionAdded, InhibitionFailed
  <1>5. /\ UNCHANGED <<settings, idleTimeout, inhibitCounter, requests, nextCookie, watched>>
        /\ UNCHANGED <<powerInhibited, registered, alive, missed, serviceUp, held, others>>
    BY DEF InhibitionAdded, InhibitionFailed, timer, iface, power, service
  <1>6. OneEach(outbox, inbox', inhibitor')
    <2>1. /\ inbox \in Seq(Messages) /\ inbox # <<>> /\ inbox' = Tail(inbox)
          /\ outbox \in Seq(Calls) /\ inhibitor \in [Cookies -> InhibitorStates]
          /\ OneEach(outbox, inbox, inhibitor)
      BY DEF IInv, TypeOK, OneAnswerToCome, Deliver
    <2>2. QED
      BY <1>1, <1>3, <2>1, MessageTaken
  <1>7. outbox' \in Seq(Calls) /\ OneEach(outbox', inbox', inhibitor')
    <2>1. <<"release", k>> \in Calls /\ ~IsAdd(<<"release", k>>)
      BY <1>1, Values DEF IsAdd
    <2>2. Append(outbox, <<"release", k>>) \in Seq(Calls)
      BY <2>1, Delivered, AppendProperties
    <2>3. OneEach(Append(outbox, <<"release", k>>), inbox', inhibitor')
      BY <1>6, <2>1, Delivered, OtherCall
    <2>4. QED
      BY <1>4, <1>6, <2>2, <2>3, Delivered
  <1>8. /\ inhibitor \in [Cookies -> InhibitorStates]
        /\ \A n \in Cookies : inhibitor'[n] = IF n = k THEN s ELSE inhibitor[n]
        /\ inhibitor' \in [Cookies -> InhibitorStates]
    BY <1>1, <1>3 DEF IInv, TypeOK
  <1>9. TypeOK'
    BY <1>5, <1>7, <1>8, Delivered DEF IInv, TypeOK
  <1>10. CookiesAreFresh'
    BY <1>2, <1>5, <1>8, Delivered DEF IInv, CookiesAreFresh, Waiting
  <1>11. Accounted'
    BY <1>2, <1>3, <1>5, <1>8 DEF IInv, Accounted, Waiting
  <1>12. TimeoutIsRightful'
    BY TimeoutStays DEF Next, Daemon
  <1>13. QED
    BY <1>7, <1>9, <1>10, <1>11, <1>12 DEF IInv, OneAnswerToCome

(* A new request has a cookie that nobody has had.                         *)
LEMMA InhibitPreserves ==
  ASSUME IInv, Deliver, NEW m, m = Head(inbox), m[1] = "inhibit", Inhibit(m[2])
  PROVE  IInv'
  <1> DEFINE new == [cookie |-> nextCookie, client |-> m[2]]
  <1>1. m[2] \in Clients /\ nextCookie \in Cookies /\ nextCookie + 1 \in 0 .. MaxCookies
    <2>1. m[2] \in Clients
      BY Delivered, Kinds
    <2>2. /\ nextCookie \in Nat /\ InFlight \in Nat /\ InFlight # 0
          /\ nextCookie + InFlight <= MaxCookies
      <3>1. /\ InFlight \in Nat /\ InFlight' \in Nat /\ nextCookie \in Nat
            /\ InFlight' = InFlight - 1
        BY Delivered
      <3>2. QED
        BY <3>1 DEF IInv, CookiesAreFresh
    <2>3. QED
      BY <2>1, <2>2, MaxAssumption DEF Cookies
  <1>2. /\ inhibitor \in [Cookies -> InhibitorStates] /\ inhibitor[nextCookie] = "none"
        /\ \A r \in requests : r \in RequestSet /\ r.cookie # nextCookie
    BY <1>1 DEF IInv, TypeOK, CookiesAreFresh, Accounted, RequestSet
  <1>3. /\ IsFiniteSet(requests') /\ inhibitCounter' = Cardinality(requests')
        /\ inhibitCounter' \in Nat
    <2>1. new \notin requests
      BY <1>2
    <2>2. IsFiniteSet(requests) /\ inhibitCounter = Cardinality(requests) /\ inhibitCounter \in Nat
      BY DEF IInv, TypeOK, CookiesAreFresh, Accounted
    <2>3. requests' = requests \cup {new} /\ inhibitCounter' = inhibitCounter + 1
      BY DEF Inhibit
    <2>4. QED
      <3> HIDE DEF new
      <3> QED
        BY <2>1, <2>2, <2>3, FS_AddElement
  <1>4. /\ \A k \in Cookies :
             inhibitor'[k] = IF k = nextCookie THEN "asking" ELSE inhibitor[k]
        /\ inhibitor' \in [Cookies -> InhibitorStates]
    BY <1>1, <1>2 DEF Inhibit, InhibitorStates
  <1>5. outbox' \in Seq(Calls) /\ OneEach(outbox', inbox', inhibitor')
    <2>1. outbox' = Append(outbox, <<"add", nextCookie>>) /\ <<"add", nextCookie>> \in Calls
      BY <1>1, Values DEF Inhibit
    <2>2. inhibitor' = [inhibitor EXCEPT ![nextCookie] = "asking"]
      BY DEF Inhibit
    <2>3. QED
      BY <1>1, <1>2, <2>1, <2>2, Delivered, NewCall, AppendProperties
  <1>6. nextCookie' = nextCookie + 1 /\ nextCookie' + InFlight' <= MaxCookies
    <2>1. InFlight' = InFlight - 1 /\ InFlight \in Nat /\ nextCookie \in Nat
      BY Delivered
    <2>2. nextCookie + InFlight <= MaxCookies /\ nextCookie' = nextCookie + 1
      BY DEF IInv, CookiesAreFresh, Inhibit
    <2>3. QED
      BY <2>1, <2>2, MaxAssumption
  <1>7. /\ requests' = requests \cup {new} /\ watched' = watched \cup {m[2]}
        /\ UNCHANGED <<powerInhibited, registered, alive, missed, serviceUp, held, others>>
    BY DEF Inhibit, power, service
  <1>8. requests' \subseteq RequestSet
    BY <1>1, <1>2, <1>7 DEF RequestSet
  <1>9. [Next]_vars
    BY DEF Next, Daemon
  <1>10. TypeOK'
    BY <1>1, <1>3, <1>4, <1>5, <1>6, <1>7, <1>8, <1>9, TimerType, Delivered DEF IInv, TypeOK
  <1>11. CookiesAreFresh'
    <2>1. \A r, q \in requests' : r.cookie = q.cookie => r = q
      BY <1>2, <1>7 DEF IInv, CookiesAreFresh
    <2>2. \A k \in Cookies : k >= nextCookie' => inhibitor'[k] = "none"
      BY <1>1, <1>4, <1>6 DEF IInv, CookiesAreFresh, Cookies
    <2>3. QED
      BY <1>3, <1>6, <2>1, <2>2 DEF CookiesAreFresh
  <1>12. Accounted'
    <2>1. \A k \in Cookies : (inhibitor'[k] \in {"asking", "granted", "refused"})
                               <=> \E r \in requests' : r.cookie = k
      <3>1. \A k \in Cookies : (inhibitor[k] \in {"asking", "granted", "refused"})
                                 <=> \E r \in requests : r.cookie = k
        BY DEF IInv, Accounted
      <3>2. \A k \in Cookies : (\E r \in requests' : r.cookie = k)
                                 <=> (k = nextCookie \/ \E r \in requests : r.cookie = k)
        <4>1. requests' = requests \cup {new} /\ new.cookie = nextCookie
          BY <1>7
        <4> HIDE DEF new
        <4>2. QED
          BY <4>1
      <3>3. QED
        BY <1>2, <1>4, <3>1, <3>2
    <2>2. \A r \in requests' : r.client \in watched'
      BY <1>7 DEF IInv, Accounted
    <2>3. QED
      BY <1>3, <2>1, <2>2 DEF Accounted
  <1>13. QED
    BY <1>5, <1>9, <1>10, <1>11, <1>12, TimeoutStays DEF IInv, OneAnswerToCome

(* UnInhibit() and the departure of a client close requests, all that the  *)
(* client has.                                                             *)
LEMMA ClosePreserves ==
  ASSUME IInv, [Next]_vars, NEW closed \in SUBSET requests, Close(closed),
         UNCHANGED <<settings, nextCookie, powerInhibited, registered>>,
         UNCHANGED <<alive, missed, serviceUp, held, others>>,
         watched' \subseteq watched,
         \A r \in requests : r \notin closed => r.client \in watched',
         inbox' \in Seq(Messages), nextCookie + InFlight' <= MaxCookies,
         OneEach(outbox', inbox, inhibitor') => OneEach(outbox', inbox', inhibitor')
  PROVE  IInv'
  <1>1. TypeOK'
    BY CloseCounts, CloseCalls, TimerType DEF IInv, TypeOK
  <1>2. CookiesAreFresh'
    BY CloseCounts DEF IInv, CookiesAreFresh
  <1>3. Accounted'
    <2>1. requests' = requests \ closed
      BY DEF Close
    <2>2. QED
      BY <2>1, CloseCounts DEF Accounted
  <1>4. OneAnswerToCome'
    BY CloseCalls DEF OneAnswerToCome
  <1>5. QED
    BY <1>1, <1>2, <1>3, <1>4, TimeoutStays DEF IInv

(* Anybody may call UnInhibit(), with any cookie.                          *)
LEMMA UnInhibitPreserves == ASSUME IInv, NEW k \in Cookies, UnInhibit(k) PROVE IInv'
  <1> DEFINE closed == {r \in requests : r.cookie = k}
  <1>1. /\ closed \in SUBSET requests /\ Close(closed)
        /\ UNCHANGED <<settings, nextCookie, powerInhibited, registered>>
        /\ UNCHANGED <<alive, missed, serviceUp, held, others, watched, inbox>>
    BY DEF UnInhibit, power, service
  <1>2. /\ inbox' \in Seq(Messages) /\ nextCookie + InFlight' <= MaxCookies
        /\ \A r \in requests : r.client \in watched
    <2>1. inbox \in Seq(Messages) /\ nextCookie + InFlight <= MaxCookies
      BY DEF IInv, TypeOK, CookiesAreFresh
    <2>2. QED
      BY <1>1, <2>1, InFlightCounts DEF IInv, Accounted
  <1>3. [Next]_vars
    BY DEF Next, Daemon
  <1>4. QED
    <2> HIDE DEF closed
    <2> QED
      BY <1>1, <1>2, <1>3, ClosePreserves

(* All requests of a client that has left are closed, and no other's.      *)
LEMMA GonePreserves ==
  ASSUME IInv, Deliver, NEW m, m = Head(inbox), m[1] = "gone", ServiceUnregistered(m[2])
  PROVE  IInv'
  <1> DEFINE closed == {r \in requests : r.client = m[2]}
  <1>1. /\ closed \in SUBSET requests /\ Close(closed)
        /\ UNCHANGED <<settings, nextCookie, powerInhibited, registered>>
        /\ UNCHANGED <<alive, missed, serviceUp, held, others>>
        /\ watched' = watched \ {m[2]}
    BY DEF ServiceUnregistered, power, service
  <1>2. \A r \in requests : r \notin closed => r.client \in watched'
    BY <1>1 DEF IInv, Accounted
  <1>3. OneEach(outbox', inbox, inhibitor') => OneEach(outbox', inbox', inhibitor')
    <2>1. outbox' \in Seq(Calls) /\ inhibitor' \in [Cookies -> InhibitorStates]
      <3> HIDE DEF closed
      <3> QED
        BY <1>1, CloseCounts, CloseCalls
    <2>2. inbox \in Seq(Messages) /\ inbox # <<>> /\ inbox' = Tail(inbox)
      BY DEF Deliver, IInv, TypeOK
    <2>3. QED
      BY <2>1, <2>2, MessageTaken
  <1>4. [Next]_vars
    BY DEF Next, Daemon
  <1>5. QED
    <2> HIDE DEF closed
    <2> QED
      BY <1>1, <1>2, <1>3, <1>4, Delivered, ClosePreserves

(* Every message that the event loop delivers.                             *)
LEMMA DeliverPreserves == ASSUME IInv, Deliver PROVE IInv'
  <1>1. PICK m : m = Head(inbox) /\ Handle(m)
    BY DEF Deliver
  <1>2. QED
    BY <1>1, PowerPreserves, AnswerPreserves, InhibitPreserves, GonePreserves DEF Handle

-----------------------------------------------------------------------------
(* The bus and those on it.                                                *)

(* A message that is no inhibition, or one for which there is a cookie.    *)
LEMMA MessageSent ==
  ASSUME IInv, NEW m \in Messages, ~IsAnswer(m),
         inbox' \in {inbox, Append(inbox, m)},
         m[1] = "inhibit" => nextCookie + InFlight < MaxCookies
  PROVE  /\ inbox' \in Seq(Messages) /\ OneEach(outbox, inbox', inhibitor)
         /\ nextCookie + InFlight' <= MaxCookies
  <1>1. /\ inbox \in Seq(Messages) /\ OneEach(outbox, inbox, inhibitor)
        /\ nextCookie + InFlight <= MaxCookies /\ nextCookie \in Nat
    BY MaxAssumption DEF IInv, TypeOK, OneAnswerToCome, CookiesAreFresh
  <1>2. inbox' \in Seq(Messages) /\ OneEach(outbox, inbox', inhibitor)
    <2>1. Append(inbox, m) \in Seq(Messages) /\ OneEach(outbox, Append(inbox, m), inhibitor)
      BY <1>1, AppendProperties, OtherMessage
    <2>2. QED
      BY <1>1, <2>1
  <1>3. /\ InFlight \in Nat
        /\ InFlight' = InFlight \/ InFlight' = InFlight + IF m[1] = "inhibit" THEN 1 ELSE 0
    BY <1>1, <1>2, InFlightCounts, InhibitionsCounts
  <1>4. nextCookie + InFlight' <= MaxCookies
    BY <1>1, <1>3, MaxAssumption
  <1>5. QED
    BY <1>2, <1>4

(* What the power service makes of the inbox: it announces a change to     *)
(* those who listen, and then answers.                                     *)
LEMMA AnnouncedValue ==
  ASSUME IInv
  PROVE  /\ Announced(inbox) \in Seq(Messages)
         /\ OneEach(outbox, Announced(inbox), inhibitor)
         /\ Inhibitions(Announced(inbox)) = Inhibitions(inbox)
  <1>1. inbox \in Seq(Messages) /\ OneEach(outbox, inbox, inhibitor)
    BY DEF IInv, TypeOK, OneAnswerToCome
  <1>2. <<"changed">> \in Messages /\ ~IsAnswer(<<"changed">>) /\ <<"changed">>[1] # "inhibit"
    BY Values DEF IsAnswer
  <1>3. /\ Append(inbox, <<"changed">>) \in Seq(Messages)
        /\ OneEach(outbox, Append(inbox, <<"changed">>), inhibitor)
    BY <1>1, <1>2, OtherMessage, AppendProperties
  <1>4. Inhibitions(Append(inbox, <<"changed">>)) = Inhibitions(inbox)
    BY <1>1, <1>2, InhibitionsCounts
  <1>5. QED
    BY <1>1, <1>3, <1>4 DEF Announced

(* The power service takes a call, and answers each AddInhibition.         *)
LEMMA ServedPreserves == ASSUME IInv, Answer PROVE IInv'
  <1>1. PICK call : call = Head(outbox) /\ Serve(call)
    BY DEF Answer
  <1>2. /\ outbox \in Seq(Calls) /\ outbox # <<>> /\ outbox' = Tail(outbox)
        /\ inbox \in Seq(Messages) /\ OneEach(outbox, inbox, inhibitor)
        /\ UNCHANGED <<inhibitCounter, requests, nextCookie, watched, inhibitor>>
        /\ UNCHANGED <<powerInhibited, registered, alive, missed, serviceUp, others>>
    BY DEF Answer, IInv, TypeOK, OneAnswerToCome, iface, power
  <1>3. call \in Calls /\ outbox' \in Seq(Calls)
    BY <1>1, <1>2, HeadTailProperties
  <1>4. held' \subseteq Cookies
    BY <1>1, <1>3, Kinds DEF Serve, IInv, TypeOK
  <1>5. /\ inbox' \in Seq(Messages) /\ OneEach(outbox', inbox', inhibitor)
        /\ Inhibitions(inbox') = Inhibitions(inbox)
    <2>1. CASE call[1] = "add"
      <3>1. PICK q \in {inbox, Announced(inbox)},
                 m \in {<<"added", call[2]>>, <<"failed", call[2]>>} :
              inbox' = Append(q, m)
        BY <1>1, <2>1 DEF Serve
      <3>2. /\ q \in Seq(Messages) /\ OneEach(outbox, q, inhibitor)
            /\ Inhibitions(q) = Inhibitions(inbox)
        BY <1>2, <3>1, AnnouncedValue
      <3>3. call[2] \in Cookies
        BY <1>3, <2>1, Kinds
      <3>4. /\ m \in Messages /\ m[2] = call[2]
            /\ m[1] \in {"added", "failed"} /\ m[1] # "inhibit"
        <4>1. /\ <<"added", call[2]>> \in Messages /\ <<"failed", call[2]>> \in Messages
          BY <3>3, Values
        <4>2. CASE m = <<"added", call[2]>>
          BY <4>1, <4>2
        <4>3. CASE m = <<"failed", call[2]>>
          BY <4>1, <4>3
        <4>4. QED
          BY <3>1, <4>2, <4>3
      <3>5. Append(q, m) \in Seq(Messages) /\ Inhibitions(Append(q, m)) = Inhibitions(inbox)
        BY <3>2, <3>4, AppendProperties, InhibitionsCounts
      <3>6. IsAdd(Head(outbox)) /\ IsAnswer(m) /\ m[2] = Head(outbox)[2]
        BY <1>1, <2>1, <3>4 DEF IsAdd, IsAnswer
      <3>7. OneEach(Tail(outbox), Append(q, m), inhibitor)
        BY <1>2, <3>2, <3>4, <3>6, CallTaken
      <3>8. QED
        BY <1>2, <3>1, <3>5, <3>7
    <2>2. CASE call[1] = "release"
      <3>1. PICK q \in {inbox, Announced(inbox)} : inbox' = q
        BY <1>1, <2>2 DEF Serve
      <3>2. /\ q \in Seq(Messages) /\ OneEach(outbox, q, inhibitor)
            /\ Inhibitions(q) = Inhibitions(inbox)
        BY <1>2, <3>1, AnnouncedValue
      <3>3. OneEach(Tail(outbox), q, inhibitor)
        BY <1>2, <3>2, CallTaken
      <3>4. QED
        BY <1>2, <3>1, <3>2, <3>3
    <2>3. CASE call[1] = "has"
      <3>1. (held # {} \/ others) \in BOOLEAN
        BY DEF IInv, TypeOK
      <3>2. PICK b \in BOOLEAN : inbox' = inbox \/ inbox' = Append(inbox, <<"has", b>>)
        BY <1>1, <2>3, <3>1 DEF Serve
      <3>3. /\ <<"has", b>> \in Messages /\ ~IsAnswer(<<"has", b>>)
            /\ <<"has", b>>[1] # "inhibit"
        <4>1. <<"has", b>> \in Messages
          BY Values
        <4>2. <<"has", b>>[1] = "has"
          OBVIOUS
        <4>3. QED
          BY <4>1, <4>2 DEF IsAnswer
      <3>4. OneEach(Tail(outbox), inbox, inhibitor)
        BY <1>2, CallTaken
      <3>5. OneEach(Tail(outbox), Append(inbox, <<"has", b>>), inhibitor)
        BY <1>2, <3>3, <3>4, OtherMessage
      <3>6. /\ Append(inbox, <<"has", b>>) \in Seq(Messages)
            /\ Inhibitions(Append(inbox, <<"has", b>>)) = Inhibitions(inbox)
        <4> DEFINE m == <<"has", b>>
        <4>1. m \in Messages /\ m[1] # "inhibit"
          BY <3>3
        <4> HIDE DEF m
        <4>2. /\ Append(inbox, m) \in Seq(Messages)
              /\ Inhibitions(Append(inbox, m)) = Inhibitions(inbox)
          BY <1>2, <4>1, AppendProperties, InhibitionsCounts
        <4>3. QED
          BY <4>2 DEF m
      <3>7. QED
        BY <1>2, <3>2, <3>4, <3>5, <3>6
    <2>4. QED
      BY <1>3, <2>1, <2>2, <2>3, Kinds
  <1>6. nextCookie + InFlight' <= MaxCookies
    BY <1>2, <1>5, InFlightCounts DEF IInv, CookiesAreFresh
  <1>7. [Next]_vars
    BY DEF Next, Environment
  <1>8. QED
    BY <1>2, <1>3, <1>4, <1>5, <1>6, <1>7, QueueStepPreserves DEF IInv, TypeOK

(* Those on the bus come, go, and call.                                    *)
LEMMA EnvironmentPreserves == ASSUME IInv, Environment PROVE IInv'
  <1>0. [Next]_vars
    BY DEF Next
  <1>1. CASE Answer
    BY <1>1, ServedPreserves
  <1>2. CASE OthersChange
    <2>1. /\ UNCHANGED <<inhibitCounter, requests, nextCookie, watched, inhibitor>>
          /\ UNCHANGED <<powerInhibited, registered, outbox, alive, missed, serviceUp, held>>
          /\ others' \in BOOLEAN /\ inbox' = Announced(inbox)
      BY <1>2 DEF OthersChange, iface, power, IInv, TypeOK
    <2>2. nextCookie + InFlight' <= MaxCookies
      BY <2>1, AnnouncedValue, InFlightCounts DEF IInv, TypeOK, CookiesAreFresh
    <2>3. QED
      BY <1>0, <2>1, <2>2, AnnouncedValue, QueueStepPreserves DEF IInv, TypeOK
  <1>3. CASE PowerServiceLeaves \/ PowerServiceComes
    <2>1. /\ UNCHANGED <<inhibitCounter, requests, nextCookie, watched, inhibitor>>
          /\ UNCHANGED <<powerInhibited, registered, outbox, alive, missed>>
          /\ serviceUp' \in BOOLEAN /\ others' \in BOOLEAN /\ held' \in {held, {}}
      BY <1>3 DEF PowerServiceLeaves, PowerServiceComes, iface, power
    <2>2. PICK m \in {<<"registered">>, <<"unregistered">>} : inbox' = Append(inbox, m)
      BY <1>3 DEF PowerServiceLeaves, PowerServiceComes
    <2>3. m \in Messages /\ ~IsAnswer(m) /\ m[1] # "inhibit"
      BY <2>2, Values DEF IsAnswer
    <2>4. /\ inbox' \in Seq(Messages) /\ OneEach(outbox, inbox', inhibitor)
          /\ nextCookie + InFlight' <= MaxCookies
      BY <2>2, <2>3, MessageSent
    <2>5. QED
      BY <1>0, <2>1, <2>4, QueueStepPreserves DEF IInv, TypeOK
  <1>4. ASSUME NEW c \in Clients, ClientInhibits(c) \/ ClientExits(c)
        PROVE  IInv'
    <2>1. /\ UNCHANGED <<inhibitCounter, requests, nextCookie, watched, inhibitor>>
          /\ UNCHANGED <<powerInhibited, registered, outbox, serviceUp, held, others>>
          /\ alive' \subseteq alive /\ missed' \subseteq missed \cup {c}
      BY <1>4 DEF ClientInhibits, ClientExits, iface, power, service
    <2>2. PICK m \in {<<"inhibit", c>>, <<"gone", c>>} :
            /\ inbox' = inbox \/ inbox' = Append(inbox, m)
            /\ m[1] = "inhibit" => nextCookie + InFlight < MaxCookies
      <3>1. <<"gone", c>>[1] # "inhibit"
        OBVIOUS
      <3>2. CASE ClientInhibits(c)
        BY <3>2 DEF ClientInhibits
      <3>3. CASE ClientExits(c)
        BY <3>1, <3>3 DEF ClientExits
      <3>4. QED
        BY <1>4, <3>2, <3>3
    <2>3. m \in Messages /\ ~IsAnswer(m)
      <3>1. CASE m = <<"inhibit", c>>
        BY <3>1, Values DEF IsAnswer
      <3>2. CASE m = <<"gone", c>>
        BY <3>2, Values DEF IsAnswer
      <3>3. QED
        BY <2>2, <3>1, <3>2
    <2>4. /\ inbox' \in Seq(Messages) /\ OneEach(outbox, inbox', inhibitor)
          /\ nextCookie + InFlight' <= MaxCookies
      BY <2>2, <2>3, MessageSent
    <2>5. QED
      BY <1>0, <2>1, <2>4, QueueStepPreserves DEF IInv, TypeOK
  <1>5. QED
    BY <1>1, <1>2, <1>3, <1>4 DEF Environment

(* A step that leaves requests and queues as they are.                     *)
LEMMA ConfigurePreserves ==
  ASSUME IInv, Configure \/ UNCHANGED vars
  PROVE  IInv'
  <1>1. /\ UNCHANGED <<inhibitCounter, requests, nextCookie, watched, inhibitor>>
        /\ UNCHANGED <<powerInhibited, registered, inbox, outbox>>
        /\ UNCHANGED <<alive, missed, serviceUp, held, others>>
    BY DEF Configure, vars, iface, power, service
  <1>2. nextCookie + InFlight' <= MaxCookies
    BY <1>1, InFlightCounts DEF IInv, TypeOK, CookiesAreFresh
  <1>3. [Next]_vars
    BY DEF Next, Daemon
  <1>4. QED
    BY <1>1, <1>2, <1>3, QueueStepPreserves DEF IInv, TypeOK, OneAnswerToCome

(* Init: one reply is on its way, and nothing has been asked for.          *)
LEMMA InitIInv == Init => IInv
  <1> SUFFICES ASSUME Init PROVE IInv
    OBVIOUS
  <1>1. PICK b \in BOOLEAN : inbox = <<<<"names", b>>>> /\ <<"names", b>> \in Messages
    BY Values DEF Init
  <1>2. /\ inbox = Append(<<>>, <<"names", b>>) /\ inbox \in Seq(Messages)
        /\ outbox = <<>> /\ outbox \in Seq(Calls)
    BY <1>1, EmptySeq, AppendProperties DEF Init
  <1>3. InFlight = 0
    <2>1. Inhibitions(<<>>) = 0
      BY PlacesEmpty DEF Inhibitions
    <2>2. <<"names", b>>[1] # "inhibit" /\ <<>> \in Seq(Messages)
      BY EmptySeq
    <2>3. Inhibitions(Append(<<>>, <<"names", b>>)) = 0
      <3>1. ASSUME NEW q \in Seq(Messages), NEW m \in Messages,
                   Inhibitions(q) = 0, m[1] # "inhibit"
            PROVE  Inhibitions(Append(q, m)) = 0
        BY <3>1, InhibitionsCounts
      <3>2. QED
        BY <1>1, <2>1, <2>2, <3>1, Zenon
    <2>4. QED
      BY <1>2, <2>3, InFlightCounts
  <1>4. TimeoutOf(settings) \in Nat
    BY SettingsAssumption DEF Init, TimeoutOf
  <1>5. TypeOK
    <2>1. inhibitor \in [Cookies -> InhibitorStates] /\ 0 \in 0 .. MaxCookies
      BY MaxAssumption DEF Init, InhibitorStates
    <2>2. QED
      BY <1>2, <1>4, <2>1, Zenon DEF Init, TypeOK
  <1>6. OneAnswerToCome
    <2>1. OneEach(<<>>, <<>>, inhibitor)
      BY DEF OneEach
    <2>2. ~IsAnswer(<<"names", b>>) /\ <<>> \in Seq(Messages)
      BY EmptySeq DEF IsAnswer
    <2>3. QED
      BY <1>1, <1>2, <2>1, <2>2, OtherMessage DEF OneAnswerToCome
  <1>7. CookiesAreFresh /\ Accounted
    BY <1>3, FS_EmptySet, MaxAssumption DEF Init, CookiesAreFresh, Accounted
  <1>8. TimeoutIsRightful
    BY DEF Init, TimeoutIsRightful, Inhibited, IsInhibited
  <1>9. QED
    BY <1>5, <1>6, <1>7, <1>8 DEF IInv

-----------------------------------------------------------------------------
(* What holds in every behaviour.                                          *)

(* The invariant holds in every reachable state.                           *)
THEOREM Inductive == Spec => []IInv
  <1>1. Init => IInv
    BY InitIInv
  <1>2. IInv /\ [Next]_vars => IInv'
    BY ConfigurePreserves, UnInhibitPreserves, DeliverPreserves, EnvironmentPreserves
    DEF Next, Daemon
  <1>3. QED
    BY <1>1, <1>2, PTL DEF Spec

(* Every variable keeps its type.                                          *)
THEOREM TypeCorrect == Spec => []TypeOK
  BY Inductive, PTL DEF IInv

(* No call of Inhibit() by the client c waits in the queue q.              *)
Unasked(q, c) == \A i \in 1 .. Len(q) : q[i] # <<"inhibit", c>>

(* That the client c has left waits in q, behind all that it has asked for.*)
LeavesLast(q, c) ==
  \E i \in 1 .. Len(q) :
    q[i] = <<"gone", c>> /\ \A j \in i .. Len(q) : q[j] # <<"inhibit", c>>

(* Of a client that has left, and was watched when it did, the daemon is   *)
(* about to hear, or it has, and nothing of the client's is to come.       *)
DepartureIsSeen(c) ==
  \/ c \in alive \cup missed
  \/ LeavesLast(inbox, c)
  \/ c \notin watched /\ Unasked(inbox, c)

(* Messages that are sent later leave that as it is.                       *)
LEMMA SeenAfterAppend ==
  ASSUME NEW c, NEW q \in Seq(Messages), NEW m \in Messages, m # <<"inhibit", c>>
  PROVE  /\ LeavesLast(q, c) => LeavesLast(Append(q, m), c)
         /\ Unasked(q, c) => Unasked(Append(q, m), c)
         /\ m = <<"gone", c>> => LeavesLast(Append(q, m), c)
  <1> DEFINE new == Append(q, m)
  <1>1. /\ Len(new) = Len(q) + 1 /\ Len(q) \in Nat
        /\ \A i \in 1 .. Len(q) : new[i] = q[i]
        /\ new[Len(q) + 1] = m
    BY AppendProperties, LenProperties
  <1> HIDE DEF new
  <1>2. ASSUME LeavesLast(q, c) PROVE LeavesLast(new, c)
    <2>1. PICK i \in 1 .. Len(q) :
            q[i] = <<"gone", c>> /\ \A j \in i .. Len(q) : q[j] # <<"inhibit", c>>
      BY <1>2 DEF LeavesLast
    <2>2. i \in 1 .. Len(new) /\ new[i] = <<"gone", c>>
      BY <1>1, <2>1
    <2>3. \A j \in i .. Len(new) : new[j] # <<"inhibit", c>>
      <3>1. ASSUME NEW j \in i .. Len(new)
            PROVE  (j \in i .. Len(q) /\ j \in 1 .. Len(q)) \/ j = Len(q) + 1
        BY <1>1
      <3>2. QED
        BY <1>1, <2>1, <3>1
    <2>4. QED
      BY <2>2, <2>3 DEF LeavesLast
  <1>3. Unasked(q, c) => Unasked(new, c)
    <2>1. \A i \in 1 .. Len(new) : i \in 1 .. Len(q) \/ i = Len(q) + 1
      BY <1>1
    <2>2. QED
      BY <1>1, <2>1 DEF Unasked
  <1>4. m = <<"gone", c>> => LeavesLast(new, c)
    <2>1. /\ Len(q) + 1 \in 1 .. Len(new)
          /\ \A j \in Len(q) + 1 .. Len(new) : j = Len(q) + 1
      BY <1>1
    <2>2. QED
      BY <1>1, <2>1 DEF LeavesLast
  <1>5. QED
    BY <1>2, <1>3, <1>4 DEF new

(* When the oldest message is taken, that may be the one about the client. *)
LEMMA SeenAfterTail ==
  ASSUME NEW c, NEW q \in Seq(Messages), q # <<>>
  PROVE  /\ LeavesLast(q, c)
              => LeavesLast(Tail(q), c) \/ (Head(q) = <<"gone", c>> /\ Unasked(Tail(q), c))
         /\ Unasked(q, c) => Unasked(Tail(q), c) /\ Head(q) # <<"inhibit", c>>
  <1> DEFINE new == Tail(q)
  <1>1. /\ Len(new) = Len(q) - 1 /\ Len(q) \in Nat \ {0}
        /\ \A i \in 1 .. Len(new) : new[i] = q[i + 1]
        /\ Head(q) = q[1]
    BY HeadTailProperties, EmptySeq
  <1> HIDE DEF new
  <1>2. \A i \in 1 .. Len(new) : i + 1 \in 1 .. Len(q)
    BY <1>1
  <1>3. ASSUME LeavesLast(q, c)
        PROVE  LeavesLast(new, c) \/ (Head(q) = <<"gone", c>> /\ Unasked(new, c))
    <2>1. PICK i \in 1 .. Len(q) :
            q[i] = <<"gone", c>> /\ \A j \in i .. Len(q) : q[j] # <<"inhibit", c>>
      BY <1>3 DEF LeavesLast
    <2>2. CASE i = 1
      <3>1. \A k \in 1 .. Len(new) : k + 1 \in i .. Len(q)
        BY <1>1, <2>2
      <3>2. Unasked(new, c)
        BY <1>1, <2>1, <3>1 DEF Unasked
      <3>3. QED
        BY <1>1, <2>1, <2>2, <3>2
    <2>3. CASE i # 1
      <3>1. /\ i - 1 \in 1 .. Len(new) /\ (i - 1) + 1 = i
            /\ \A j \in i - 1 .. Len(new) : j + 1 \in i .. Len(q) /\ j \in 1 .. Len(new)
        BY <1>1, <2>1, <2>3
      <3>2. new[i - 1] = <<"gone", c>> /\ \A j \in i - 1 .. Len(new) : new[j] # <<"inhibit", c>>
        BY <1>1, <2>1, <3>1
      <3>3. QED
        BY <3>1, <3>2 DEF LeavesLast
    <2>4. QED
      BY <2>2, <2>3
  <1>4. Unasked(q, c) => Unasked(new, c) /\ Head(q) # <<"inhibit", c>>
    <2>1. 1 \in 1 .. Len(q)
      BY <1>1
    <2>2. QED
      BY <1>1, <1>2, <2>1 DEF Unasked
  <1>5. QED
    BY <1>3, <1>4 DEF new

(* The daemon takes a message: it watches a client whose call it handles,  *)
(* and no longer watches one of which it hears that it has left.           *)
LEMMA DeliverIsSeen ==
  ASSUME IInv, Deliver, NEW c \in Clients, DepartureIsSeen(c)
  PROVE  DepartureIsSeen(c)'
  <1> DEFINE m == Head(inbox)
  <1>1. /\ inbox \in Seq(Messages) /\ inbox # <<>> /\ inbox' = Tail(inbox)
        /\ m \in Messages
    BY HeadTailProperties DEF IInv, TypeOK, Deliver
  <1>2. Handle(m)
    BY DEF Deliver
  <1>3. UNCHANGED <<alive, missed>>
    BY <1>2
    DEF Handle, NamesListed, HasInhibitionReplied, InhibitionAdded, InhibitionFailed,
        Inhibit, ServiceUnregistered, Update, PowerServiceUnregistered, InhibitionsChanged
  <1>4. m = <<"gone", c>> => watched' = watched \ {c}
    <2>1. ASSUME m = <<"gone", c>> PROVE m[1] = "gone" /\ m[2] = c
      BY <2>1
    <2> HIDE DEF m
    <2>2. QED
      BY <1>2, <2>1 DEF Handle, ServiceUnregistered
  <1>5. m # <<"inhibit", c>> /\ c \notin watched => c \notin watched'
    <2>1. m[1] = "inhibit" => m = <<"inhibit", m[2]>>
      BY <1>1, Kinds
    <2>2. (m[1] = "inhibit" /\ watched' = watched \cup {m[2]}) \/ watched' \subseteq watched
      <3> HIDE DEF m
      <3> QED
        BY <1>2
        DEF Handle, NamesListed, HasInhibitionReplied, InhibitionAdded, InhibitionFailed,
            Inhibit, ServiceUnregistered, Update, PowerServiceUnregistered,
            InhibitionsChanged, iface
    <2> HIDE DEF m
    <2>3. QED
      BY <2>1, <2>2
  <1>6. QED
    <2> HIDE DEF m
    <2>1. /\ LeavesLast(inbox, c)
               => LeavesLast(inbox', c) \/ (m = <<"gone", c>> /\ Unasked(inbox', c))
          /\ Unasked(inbox, c) => Unasked(inbox', c) /\ m # <<"inhibit", c>>
      BY <1>1, SeenAfterTail DEF m
    <2>2. QED
      BY <1>3, <1>4, <1>5, <2>1 DEF DepartureIsSeen

(* The others add messages, none of them of a client that has left.        *)
LEMMA OthersAreSeen ==
  ASSUME IInv, Next \/ UNCHANGED vars, ~Deliver, NEW c \in Clients, DepartureIsSeen(c)
  PROVE  DepartureIsSeen(c)'
  <1>1. inbox \in Seq(Messages) /\ outbox \in Seq(Calls)
    BY DEF IInv, TypeOK
  <1>2. CASE \E d \in Clients : ClientExits(d)
    <2>1. PICK d \in Clients : ClientExits(d)
      BY <1>2
    <2>2. UNCHANGED watched
      BY <2>1 DEF ClientExits, iface
    <2>3. CASE d = c
      <3>1. <<"gone", c>> \in Messages /\ <<"gone", c>> # <<"inhibit", c>>
        BY Values
      <3>2. LeavesLast(Append(inbox, <<"gone", c>>), c)
        BY <1>1, <3>1, SeenAfterAppend
      <3>3. QED
        BY <2>1, <2>3, <3>2 DEF ClientExits, DepartureIsSeen
    <2>4. CASE d # c
      <3>1. <<"gone", d>> \in Messages /\ <<"gone", d>> # <<"inhibit", c>>
        BY Values
      <3>2. inbox' = inbox \/ inbox' = Append(inbox, <<"gone", d>>)
        BY <2>1 DEF ClientExits
      <3>3. c \in alive \cup missed => c \in alive' \cup missed'
        BY <2>1, <2>4 DEF ClientExits
      <3>4. /\ LeavesLast(inbox, c) => LeavesLast(inbox', c)
            /\ Unasked(inbox, c) => Unasked(inbox', c)
        <4>1. /\ LeavesLast(inbox, c) => LeavesLast(Append(inbox, <<"gone", d>>), c)
              /\ Unasked(inbox, c) => Unasked(Append(inbox, <<"gone", d>>), c)
          BY <1>1, <3>1, SeenAfterAppend
        <4>2. QED
          BY <3>2, <4>1, Zenon
      <3>5. QED
        BY <2>2, <3>3, <3>4 DEF DepartureIsSeen
    <2>5. QED
      BY <2>3, <2>4
  <1>3. CASE \E d \in Clients : ClientInhibits(d)
    <2>1. PICK d \in Clients : ClientInhibits(d)
      BY <1>3
    <2>2. UNCHANGED <<alive, missed, watched>> /\ inbox' = Append(inbox, <<"inhibit", d>>)
      BY <2>1 DEF ClientInhibits, iface
    <2>3. c \notin alive => <<"inhibit", d>> # <<"inhibit", c>>
      BY <2>1 DEF ClientInhibits
    <2>4. QED
      BY <1>1, <2>2, <2>3, Values, SeenAfterAppend DEF DepartureIsSeen
  <1>4. CASE Configure \/ (\E k \in Cookies : UnInhibit(k)) \/ UNCHANGED vars
    BY <1>4 DEF Configure, UnInhibit, vars, iface, DepartureIsSeen
  <1>5. CASE Answer \/ OthersChange \/ PowerServiceLeaves \/ PowerServiceComes
    <2>1. UNCHANGED <<alive, missed, watched>>
      BY <1>5 DEF Answer, OthersChange, PowerServiceLeaves, PowerServiceComes, iface
    <2>2. PICK q \in {inbox, Announced(inbox)}, m \in Messages :
            (inbox' = q \/ inbox' = Append(q, m)) /\ m # <<"inhibit", c>>
      <3>1. \A b \in BOOLEAN : <<"has", b>> \in Messages /\ <<"has", b>> # <<"inhibit", c>>
        BY Values
      <3>2. \A k \in Cookies :
              /\ <<"added", k>> \in Messages /\ <<"added", k>> # <<"inhibit", c>>
              /\ <<"failed", k>> \in Messages /\ <<"failed", k>> # <<"inhibit", c>>
        BY Values
      <3>3. /\ <<"registered">> \in Messages /\ <<"registered">> # <<"inhibit", c>>
            /\ <<"unregistered">> \in Messages /\ <<"unregistered">> # <<"inhibit", c>>
        BY Values
      <3>4. CASE Answer
        <4>1. PICK call \in Calls : Serve(call)
          BY <1>1, <3>4, HeadTailProperties DEF Answer
        <4>2. call[1] = "add" => call[2] \in Cookies
          BY Kinds
        <4>3. (held # {} \/ others) \in BOOLEAN
          BY DEF IInv, TypeOK
        <4>4. QED
          BY <3>1, <3>2, <3>3, <4>1, <4>2, <4>3 DEF Serve
      <3>5. CASE OthersChange
        BY <3>3, <3>5 DEF OthersChange
      <3>6. CASE PowerServiceLeaves \/ PowerServiceComes
        BY <3>3, <3>6 DEF PowerServiceLeaves, PowerServiceComes
      <3>7. QED
        BY <1>5, <3>4, <3>5, <3>6
    <2>3. /\ q \in Seq(Messages)
          /\ LeavesLast(inbox, c) => LeavesLast(q, c)
          /\ Unasked(inbox, c) => Unasked(q, c)
      <3>1. <<"changed">> \in Messages /\ <<"changed">> # <<"inhibit", c>>
        BY Values
      <3>2. /\ Append(inbox, <<"changed">>) \in Seq(Messages)
            /\ LeavesLast(inbox, c) => LeavesLast(Append(inbox, <<"changed">>), c)
            /\ Unasked(inbox, c) => Unasked(Append(inbox, <<"changed">>), c)
        BY <1>1, <3>1, AppendProperties, SeenAfterAppend
      <3>3. q \in {inbox, Append(inbox, <<"changed">>)}
        BY <2>2 DEF Announced
      <3>4. QED
        BY <1>1, <3>2, <3>3
    <2>4. /\ LeavesLast(inbox, c) => LeavesLast(inbox', c)
          /\ Unasked(inbox, c) => Unasked(inbox', c)
      <3>1. /\ LeavesLast(q, c) => LeavesLast(Append(q, m), c)
            /\ Unasked(q, c) => Unasked(Append(q, m), c)
        BY <2>2, <2>3, SeenAfterAppend
      <3>2. QED
        BY <2>2, <2>3, <3>1, Zenon
    <2>5. QED
      BY <2>1, <2>4 DEF DepartureIsSeen
  <1>6. QED
    BY <1>2, <1>3, <1>4, <1>5 DEF Next, Daemon, Environment

(* The departure of every client is seen, or was missed.                   *)
LEMMA DeparturesAreSeen == Spec => [](\A c \in Clients : DepartureIsSeen(c))
  <1>1. Init => \A c \in Clients : DepartureIsSeen(c)
    BY DEF Init, DepartureIsSeen
  <1>2. IInv /\ (\A c \in Clients : DepartureIsSeen(c)) /\ [Next]_vars
          => (\A c \in Clients : DepartureIsSeen(c))'
    BY DeliverIsSeen, OthersAreSeen
  <1>3. QED
    BY <1>1, <1>2, Inductive, PTL DEF Spec

(* The counter of the daemon is the number of the requests, each of which  *)
(* has its inhibitor, whatever answers, calls and departures come when;    *)
(* and the daemon is to hear of the end of each one's client, unless that  *)
(* has left the bus before its call was handled.                           *)
THEOREM Counted == Spec => []RequestsAreCounted
  <1>1. IInv /\ (\A c \in Clients : DepartureIsSeen(c)) => RequestsAreCounted
    <2>1. ASSUME IInv, NEW r \in requests, DepartureIsSeen(r.client)
          PROVE  EndIsSeen(r.client) \/ r.client \in missed
      <3>1. r.client \in watched
        BY <2>1 DEF IInv, Accounted
      <3>2. DOMAIN inbox = 1 .. Len(inbox)
        BY <2>1, LenProperties DEF IInv, TypeOK
      <3>3. QED
        BY <2>1, <3>1, <3>2 DEF DepartureIsSeen, LeavesLast, EndIsSeen
    <2>2. QED
      BY <2>1 DEF RequestsAreCounted, IInv, TypeOK, RequestSet
  <1>2. QED
    BY <1>1, Inductive, DeparturesAreSeen, PTL

(* An inhibition of a client or of the power service stops the timeout,    *)
(* and the one that runs is the one that was configured last.              *)
THEOREM Rightful == Spec => []TimeoutIsRightful
  BY Inductive, PTL DEF IInv

(* A configured timeout gets lost only in the step in which the daemon     *)
(* hears that a power service that inhibits has left the bus.              *)
THEOREM DisarmedByServiceLossOnly == Spec => OnlyServiceLossDisarms
  <1>1. ASSUME IInv, [Next]_vars
        PROVE  Missing' => Missing \/ (powerInhibited /\ registered' = FALSE)
    <2>1. CASE UNCHANGED <<settings, idleTimeout, inhibitCounter, powerInhibited>>
      BY <2>1 DEF Missing, Inhibited
    <2>2. CASE idleTimeout' = IF Inhibited' THEN 0 ELSE TimeoutOf(settings')
      BY <2>2 DEF Missing
    <2>3. CASE /\ UNCHANGED <<settings, idleTimeout, inhibitCounter>>
               /\ powerInhibited' = FALSE /\ registered' = FALSE
      BY <2>3 DEF Missing, Inhibited, IsInhibited
    <2>4. QED
      BY <1>1, <2>1, <2>2, <2>3, TimerSteps
  <1>2. QED
    BY <1>1, Inductive, PTL DEF Spec, OnlyServiceLossDisarms
=============================================================================
