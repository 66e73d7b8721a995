----------------------------- MODULE MCMembers -----------------------------
(***************************************************************************)
(* An instance of Members for TLC: an owner and an admin call, and name    *)
(* one permission at a time; the member starts with any of them.           *)
(***************************************************************************)
EXTENDS Members

MCPermission == {"owner", "admin"}
MCRequested == {{"admin"}, {"owner"}}
MCTokens == {{"owner"}, {"admin"}}
=============================================================================
