---------------------------- MODULE MCLockWindows -----------------------------
(* An instance of LockWindows for TLC.                                     *)
EXTENDS LockWindows

CONSTANTS laptop, projector, small, large

TwoScreens == {laptop, projector}
TwoGeometries == {small, large}
=============================================================================
