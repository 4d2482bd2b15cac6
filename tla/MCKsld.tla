------------------------------- MODULE MCKsld -------------------------------
(* Instances of Ksld for TLC.                                              *)
EXTENDS Ksld

Default ==
  [lock |-> TRUE, lockGrace |-> 5, requirePassword |-> TRUE,
   lockOnResume |-> TRUE, lockOnStart |-> FALSE]

(* No grace time, no end of it, no password, and a lock at start.          *)
NoGrace      == [Default EXCEPT !.lockGrace = 0, !.lockOnResume = FALSE]
EndlessGrace == [Default EXCEPT !.lock = FALSE]
NoPassword   == [Default EXCEPT !.requirePassword = FALSE]
OnStart      == [Default EXCEPT !.lockOnStart = TRUE]

AllConfigurations      == {Default, NoGrace, EndlessGrace, NoPassword, OnStart}
OneConfiguration       == {Default}

NoFaults  == {}
ForkFault == {"nofork"}
AllFaults == Faults
=============================================================================
