------------------------------- MODULE Staffing -------------------------------
(***************************************************************************)
(* The users whose requests the handlers serve, for the components that    *)
(* only ask for a user's role (app/dependencies.py).                       *)
(***************************************************************************)
EXTENDS Sessions

CONSTANTS
    User,          \* users who send requests
    RoleOf         \* the role of each user

ASSUME StaffAssumption == NULL \notin User /\ DOMAIN RoleOf = User

\* require_role: the users a handler admits.
Staff(roles) == {user \in User : effective_roles(RoleOf[user]) \cap roles # {}}
================================================================================
