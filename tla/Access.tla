------------------------------- MODULE Access -------------------------------
(***************************************************************************)
(* What a token lets its holder do (internal/auth) at the routes of the    *)
(* CMS (internal/cms/router.go).                                           *)
(***************************************************************************)

Permissions ==
    {"users:manage", "shows:read", "shows:write", "shows:publish", "episodes:read",
     "episodes:write", "episodes:publish", "imports:run"}

Roles == {"admin", "editor", "viewer"}

RolePermissions ==
    [admin |-> Permissions,
     editor |-> Permissions \ {"users:manage"},
     viewer |-> {"shows:read", "episodes:read"}]

\* Mutant: scopes outside the role, which leave nothing, count as none.
EffectiveOrAll(role, scopes) ==
    IF scopes \cap RolePermissions[role] = {} THEN RolePermissions[role]
    ELSE scopes \cap RolePermissions[role]

\* Scopes only narrow what the role may; no scopes leave it all.
Effective(role, scopes) ==
    IF scopes = {} THEN RolePermissions[role] ELSE scopes \cap RolePermissions[role]

\* The permission of each route.
Requires ==
    [createShow |-> "shows:write", listShows |-> "shows:read",
     getShow |-> "shows:read", updateShow |-> "shows:write",
     publishShow |-> "shows:publish", createEpisode |-> "episodes:write",
     listEpisodes |-> "episodes:read", getEpisode |-> "episodes:read",
     publishEpisode |-> "episodes:publish", runImport |-> "imports:run"]

AllRoutes == DOMAIN Requires

May(role, scopes, route) == Requires[route] \in Effective(role, scopes)
=============================================================================
