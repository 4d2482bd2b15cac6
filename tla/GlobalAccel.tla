----------------------------- MODULE GlobalAccel ------------------------------
(***************************************************************************)
(* Global shortcuts on the lock screen, class GlobalAccel of               *)
(* src/globalaccel.cpp.  When the screen locks, prepare() asks kglobalaccel*)
(* for its components, then each whitelisted one whether it is active,     *)
(* then each active one for its shortcuts; release() forgets them.  Every  *)
(* call is asynchronous and its reply is handled whenever it comes, on a   *)
(* locked screen or not.                                                   *)
(*                                                                         *)
(* Of a component's shortcuts only that they are known is kept.  One       *)
(* service answers all calls, so replies come in the order of the calls;   *)
(* any of them may be an error.                                            *)
(***************************************************************************)
EXTENDS Naturals, Sequences, FiniteSets, SequencesExt

CONSTANTS
  Components,  \* the components registered with kglobalaccel
  Whitelist    \* those among them that s_shortcutWhitelist names

ASSUME WhitelistAssumption == Whitelist \subseteq Components /\ IsFiniteSet(Whitelist)

VARIABLES
  updatingInformation,  \* m_updatingInformation
  shortcuts,            \* the keys of m_shortcuts
  calls,                \* the calls whose reply has not been handled
  active                \* the whitelisted ones that kglobalaccel has active

accel == <<updatingInformation, shortcuts, calls>>

AllComponents == [call |-> "allComponents", components |-> {}]
IsActive(c)   == [call |-> "isActive", components |-> {c}]
AllInfos(c)   == [call |-> "allShortcutInfos", components |-> {c}]

Calls == {AllComponents} \cup {IsActive(c) : c \in Whitelist}
                         \cup {AllInfos(c) : c \in Whitelist}

AccelTypeOK ==
  /\ updatingInformation \in Nat
  /\ shortcuts \subseteq Whitelist
  /\ calls \in Seq(Calls)
  /\ active \subseteq Whitelist

AccelInit ==
  /\ updatingInformation = 0 /\ shortcuts = {} /\ calls = <<>>
  /\ active \in SUBSET Whitelist

-----------------------------------------------------------------------------
(* Called by lock() and doUnlock().                                        *)

(* Mutant: what an earlier fetch has left is kept.                         *)
PrepareKeeps ==
  IF updatingInformation # 0 THEN UNCHANGED accel
  ELSE /\ updatingInformation' = 1
       /\ calls' = Append(calls, AllComponents)
       /\ UNCHANGED shortcuts

(* prepare(): nothing, as long as an earlier fetch has calls under way.    *)
Prepare ==
  IF updatingInformation # 0 THEN UNCHANGED accel
  ELSE /\ shortcuts' = {}
       /\ updatingInformation' = 1
       /\ calls' = Append(calls, AllComponents)

(* release() does not cancel calls that are under way.                     *)
Release == shortcuts' = {} /\ UNCHANGED <<updatingInformation, calls>>

-----------------------------------------------------------------------------
(* Replies.                                                                *)

Replied(call) == calls # <<>> /\ Head(calls).call = call

Component == CHOOSE c \in Head(calls).components : TRUE

(* components(): one isActive for each component that is whitelisted.  The *)
(* reply to allComponents is counted off at the end.                       *)
ComponentsReplied ==
  LET asked == SetToSeq(Components \cap Whitelist) IN
    /\ Replied("allComponents")
    /\ calls' = Tail(calls) \o [i \in DOMAIN asked |-> IsActive(asked[i])]
    /\ updatingInformation' = (updatingInformation + Len(asked)) - 1
    /\ UNCHANGED <<shortcuts, active>>

(* Mutant: an inactive component is forgotten, and so is its call.         *)
InactiveNotCounted ==
  /\ Replied("isActive") /\ Component \notin active
  /\ calls' = Tail(calls)
  /\ UNCHANGED <<updatingInformation, shortcuts, active>>

InactiveReplied ==
  /\ Replied("isActive") /\ Component \notin active
  /\ calls' = Tail(calls)
  /\ updatingInformation' = updatingInformation - 1
  /\ UNCHANGED <<shortcuts, active>>

(* Mutant: the reply is counted off, the next call is not counted.         *)
ActiveNotCounted ==
  /\ Replied("isActive") /\ Component \in active
  /\ calls' = Append(Tail(calls), AllInfos(Component))
  /\ updatingInformation' = updatingInformation - 1
  /\ UNCHANGED <<shortcuts, active>>

(* The reply's place in the count is taken over by the next call.          *)
ActiveReplied ==
  /\ Replied("isActive") /\ Component \in active
  /\ calls' = Append(Tail(calls), AllInfos(Component))
  /\ UNCHANGED <<updatingInformation, shortcuts, active>>

InfosReplied ==
  /\ Replied("allShortcutInfos")
  /\ calls' = Tail(calls)
  /\ updatingInformation' = updatingInformation - 1
  /\ shortcuts' = shortcuts \cup {Component}
  /\ UNCHANGED active

(* Mutant: an error is not counted off.                                    *)
ErrorNotCounted ==
  /\ calls # <<>>
  /\ calls' = Tail(calls)
  /\ updatingInformation' =
       IF Head(calls).call = "isActive" THEN updatingInformation
       ELSE updatingInformation - 1
  /\ UNCHANGED <<shortcuts, active>>

(* Every handler counts a call off whose reply is an error.                *)
ErrorReplied ==
  /\ calls # <<>>
  /\ calls' = Tail(calls)
  /\ updatingInformation' = updatingInformation - 1
  /\ UNCHANGED <<shortcuts, active>>

Reply == ComponentsReplied \/ InactiveReplied \/ ActiveReplied \/ InfosReplied

-----------------------------------------------------------------------------
(* Properties.                                                             *)

(* "For each DBus call to KGlobalAccel this counter is increased, on each  *)
(* reply decreased": m_updatingInformation is the number of calls whose    *)
(* reply has not been handled.  Too high, and no later lock fetches        *)
(* anything; too low, and the next decrement makes the unsigned wrap.      *)
CounterIsCalls == updatingInformation = Len(calls)

(* A fetch comes to its end, whatever fails, so that a later lock can      *)
(* start another.                                                          *)
FetchEnds == (updatingInformation # 0) ~> (updatingInformation = 0)
=============================================================================
