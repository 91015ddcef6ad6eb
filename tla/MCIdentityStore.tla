---------------------------- MODULE MCIdentityStore ----------------------------
(* A small instance of IdentityStore: two strings and one pasted credential. *)
EXTENDS IdentityStore

\* duid stands for the strings every path saves, cpid for those iotc config may
\* leave out and iotc setup may default, key for cert and key.
MCConfigOrder    == <<"duid">>
MCSetupOrder     == <<"duid", "cpid">>
MCProvisionOrder == <<"duid", "cpid", "key">>
MCPems           == {"key"}
=============================================================================
