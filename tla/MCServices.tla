----------------------------- MODULE MCServices -----------------------------
(***************************************************************************)
(* The services beside the visits which share no state with each other, in  *)
(* one run: which says whose behaviours this is, the others stay in their  *)
(* initial state.                                                          *)
(***************************************************************************)
EXTENDS AdminRoles, DebugEvents, DataExport, RateLimits, SharedTopics,
        RailwayMigrate, PortalSession, DeletionQueue, PagedLists

VARIABLE which

servicesVars == <<which, rolesVars, debugVars, exportVars, limitVars, topicVars,
                  migrateVars, portalVars, queueVars, listVars>>

ServicesInit ==
  /\ which \in {"roles", "debug", "export", "limits", "topics", "migrate", "portal",
               "deletions", "lists"}
  /\ RolesInit /\ DebugInit /\ ExportInit /\ TopicInit /\ QueueInit
  /\ LimitInit /\ (which # "limits" => limiter = "auth")
  /\ MigrateInit /\ (which # "migrate" => shipped = 0 /\ tables = {})
  /\ PortalInit /\ (which # "portal" => token = 0 /\ \A c \in Calls : calls[c].tab \in AuthTabs)
  /\ ListInit /\ (which # "lists" => InList(sortKey) = {} /\ list.changes = AuditList)

\* A step of one service leaves the others alone.
Apart(service) ==
  /\ which = service
  /\ UNCHANGED which
  /\ service # "roles" => UNCHANGED rolesVars
  /\ service # "debug" => UNCHANGED debugVars
  /\ service # "export" => UNCHANGED exportVars
  /\ service # "limits" => UNCHANGED limitVars
  /\ service # "topics" => UNCHANGED topicVars
  /\ service # "migrate" => UNCHANGED migrateVars
  /\ service # "portal" => UNCHANGED portalVars
  /\ service # "deletions" => UNCHANGED queueVars
  /\ service # "lists" => UNCHANGED listVars

ServicesNext ==
  \/ Apart("roles") /\ RolesNext
  \/ Apart("debug") /\ DebugNext
  \/ Apart("export") /\ ExportNext
  \/ Apart("limits") /\ LimitNext
  \/ Apart("topics") /\ TopicNext
  \/ Apart("migrate") /\ MigrateNext
  \/ Apart("portal") /\ PortalNext
  \/ Apart("deletions") /\ QueueNext
  \/ Apart("lists") /\ ListNext

ServicesSpec == ServicesInit /\ [][ServicesNext]_servicesVars

\* An account with three notifications and one companion; its two packs, the
\* first with a file.
MCSections == <<"notifications", "companions">>
MCTableOf == [i \in ExportIds |-> CASE i \in 1..3 -> "notifications"
                                    [] i = 4 -> "companions"
                                    [] i \in 5..6 -> "packs"
                                    [] OTHER -> "files"]
MCParentOf == [i \in ExportIds |-> CASE i \in 5..6 -> 4 [] i = 7 -> 5 [] OTHER -> 0]
MCNestedIn == [notifications |-> "none", companions |-> "packs",
               packs |-> "files", files |-> "none"]
=============================================================================
