----------------------------- MODULE MCSessions -----------------------------
(* Values for the constants of Sessions that a .cfg cannot write.          *)
EXTENDS Sessions, TLC

CONSTANTS clerk, admin

(* Nobody's role list; one usable role; one blocked; two to choose from.   *)
MCRoleLists ==
    {NoRoles,
     [NoRoles EXCEPT ![clerk] = "granted"],
     [NoRoles EXCEPT ![clerk] = "blocked"],
     [k \in RoleIds |-> "granted"]}

MCOneGranted == {NoRoles, [NoRoles EXCEPT ![clerk] = "granted"]}

(* All the sessions are one person's: the most a person may revoke.        *)
MCOwner == [s \in SessionIds |-> "anna"]

Handlers == Permutations(Requests)
HandlersAndSessions == Handlers \cup Permutations(SessionIds)
=============================================================================
