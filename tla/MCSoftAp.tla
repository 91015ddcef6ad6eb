------------------------------- MODULE MCSoftAp --------------------------------
(***************************************************************************)
(* SoftAp for TLC, with some of the configurations a client can send: the  *)
(* whole of it, each half of the cloud, and one with an empty cpid.        *)
(***************************************************************************)
EXTENDS SoftAp

Config(d, c, e) == [duid |-> d, cpid |-> c, env |-> e]

MCConfigs == {Config(1, 1, 1), Config(0, 1, 0), Config(0, 0, 1), Config(0, Blank, 1)}
=============================================================================
