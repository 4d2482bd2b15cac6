----------------------------- MODULE ScreenLock -----------------------------
(***************************************************************************)
(* What a screen locker promises, whatever its greeter and its environment *)
(* do: a screen that got locked stays locked until somebody or something   *)
(* has licensed the unlocking.  A licence belongs to one lock; the licence *)
(* to unlock by mere activity within the grace time is given with the lock *)
(* or never; and logind's word counts only when it was given during this   *)
(* lock, or was on its way when the lock began.                            *)
(***************************************************************************)

VARIABLES
  up,       \* the locker is running
  locked,   \* the screen is locked
  licences  \* why the screen may be unlocked now, a subset of Licences

vars == <<up, locked, licences>>

Licences ==
  {"grace",          \* the grace time of a delayed lock is not over
   "nopassword",     \* the user wants no password to be asked
   "nogreeter",      \* no greeter can be started: rather open than stuck
   "unlockSent",     \* logind has sent a request to unlock
   "unlockTaken",    \* the locker is carrying out such a request
   "authenticated"}  \* a greeter of this lock has authenticated the user

(* What a lock may start with.                                             *)
InitialLicences == Licences \ {"unlockTaken", "authenticated"}

Init == ~up /\ ~locked /\ licences = {}

Lock ==
  /\ ~locked
  /\ up' = TRUE
  /\ locked' = TRUE
  /\ licences' \in SUBSET InitialLicences

(* Licences come and go during a lock.                                     *)
Change ==
  /\ locked
  /\ licences' \in SUBSET Licences
  /\ "grace" \in licences' => "grace" \in licences
  /\ "unlockTaken" \in licences' => licences \cap {"unlockSent", "unlockTaken"} # {}
  /\ UNCHANGED <<up, locked>>

Unlock ==
  /\ locked
  /\ licences # {}
  /\ locked' = FALSE
  /\ licences' = {}
  /\ UNCHANGED up

Start == ~up /\ up' = TRUE /\ UNCHANGED <<locked, licences>>

(* The locker dies.                                                        *)
Die == up' = FALSE /\ locked' = FALSE /\ licences' = {}

Next == Lock \/ Change \/ Unlock \/ Start \/ Die

Spec == Init /\ [][Next]_vars
=============================================================================
