-------------------------- MODULE MCSessionServices ---------------------------
(* An instance of SessionServices for TLC.                                 *)
EXTENDS SessionServices

CONSTANTS kmix, plasmashell

TwoComponents == {kmix, plasmashell}
OneListed == {kmix}
=============================================================================
