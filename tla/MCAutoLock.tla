----------------------------- MODULE MCAutoLock -----------------------------
(* An instance of AutoLock for TLC.                                        *)
EXTENDS AutoLock

CONSTANTS firefox, vlc

TwoClients == {firefox, vlc}

(* Off, and five minutes.                                                  *)
TwoSettings ==
  {[autolock |-> FALSE, timeout |-> 5], [autolock |-> TRUE, timeout |-> 5]}

OneSetting == {[autolock |-> TRUE, timeout |-> 5]}
=============================================================================
