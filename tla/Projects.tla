-------------------------------- MODULE Projects --------------------------------
(***************************************************************************)
(* The rows of app/routers/projects.py.                                    *)
(***************************************************************************)
EXTENDS Staffing

CONSTANTS ProjectCode    \* codes, which identify projects

ProjectRoles == {"SUPER_ADMIN", "MD", "PM", "PROJECT_CONTROL", "COST_CONTROL"}

\* A row of projects: status tells ACTIVE from the three others.
Project == [is_archived : BOOLEAN, active : BOOLEAN]

ASSUME ProjectAssumption == NULL \notin ProjectCode /\ NULL \notin Project

\* _require_active_project, on NULL or a row.
Accepts(project) == project # NULL /\ ~ project.is_archived /\ project.active
================================================================================
