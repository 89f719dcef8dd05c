-------------------------------- MODULE Rbac --------------------------------
(***************************************************************************)
(* Users, roles and permissions (IAM, in PostgreSQL) and the Casbin        *)
(* policies that authorise API calls: p(role, endpoint), g(user, role).    *)
(* IAM is the truth, Casbin a projection of it that the handlers keep up   *)
(* to date call by call, without a lock or a transaction around both.      *)
(*                                                                         *)
(* A handler is the list of its remaining instructions, each one IAM       *)
(* statement or one call of the enforcer.  An instruction that reads puts  *)
(* the instructions that depend on what it read in front of the rest.      *)
(* The start of the server is such a list too.  A handler that reports an  *)
(* error drops its list; a crash drops all lists and starts the server.    *)
(*                                                                         *)
(* An enforcer call writes its storage first and its memory second, so one *)
(* copy of p and g stands for both.  Roles have one code for life: the     *)
(* unique index on role_code and user_code also covers soft-deleted rows.  *)
(* The legacy role "unknown", which no release seeds any more, is left out.*)
(***************************************************************************)
EXTENDS Sequences, FiniteSets, SequencesExt

CONSTANTS
  Users, Admin,          \* user codes, and dev-admin
  Roles, Preset, Super,  \* role codes, the seeded ones, and super_admin
  Permissions,           \* permission codes of the catalogue
  Endpoints,             \* pairs of path and method, as one value
  PermissionRules,       \* the endpoints each permission opens
  Defaults,              \* defaultRolePermissions
  Requests,              \* API calls in flight at the same time
  Startup,               \* the process that starts the server
  Ops                    \* the API calls that are made

ASSUME SeedAssumption ==
  /\ Admin \in Users /\ Super \in Preset /\ Preset \subseteq Roles
  /\ PermissionRules \in [Permissions -> SUBSET Endpoints]
  /\ Defaults \in [Preset -> SUBSET Permissions]
  /\ Defaults[Super] = Permissions
  /\ Startup \notin Requests
  /\ IsFiniteSet(Users) /\ IsFiniteSet(Roles) /\ IsFiniteSet(Endpoints)

VARIABLES
  role, granted,   \* iam_roles and iam_role_permissions
  user, bound,     \* iam_users and iam_user_roles
  p, g,            \* casbin_rule: endpoints of a role, roles of a user
  todo,            \* remaining instructions of every process
  clean            \* history: no handler was cut short since the server started

iam == <<role, granted, user, bound>>
casbin == <<p, g>>
rbacVars == <<role, granted, user, bound, p, g, todo, clean>>

Processes == Requests \cup {Startup}

LiveRoles(u) == {r \in bound[u] : role[r] = "live"}

\* Fault: permission codes are stored where endpoints belong.
CodesAsPolicies(permissions) == permissions

\* BuildPoliciesForPermissions
Policies(permissions) == UNION {PermissionRules[c] : c \in permissions}

-----------------------------------------------------------------------------
(* Instructions *)

\* The instructions of a loop, one for each element of the domain of f, in one fixed order.
\* (Go iterates its maps in a random one, which shows only in how far an interrupted loop got.)
ForEach(f) == LET q == SetToSeq(DOMAIN f) IN [i \in DOMAIN q |-> f[q[i]]]

\* ReplaceRolePoliciesInCasbin, from its first call on.
Replace(r, permissions) == << <<"filterPolicies", r, permissions>> >>

\* Rules of one role, as the function RemovePolicies takes.
Of(r, S) == [x \in Roles |-> IF x = r THEN S ELSE {}]

\* EnsureUserCasbinGroupings
Ensure(u) == << <<"readRoles", u>> >>

EnsureAll(S) == ForEach([u \in S |-> <<"readRoles", u>>])

\* SyncRolePoliciesToCasbin
Sync == << <<"listRoles">> >>

\* AssignUserRole
Assign(u, r) == << <<"checkRole", u, r>> >>

\* NewRbacStore on the database as it is, then SyncRolePoliciesToCasbin.
Boot == ForEach([r \in Preset |-> <<"seedRole", r>>])
          \o << <<"seedMappings">>, <<"seedAdmin">> >> \o Assign(Admin, Super) \o Sync

At(q, name) == todo[q] # << >> /\ Head(todo[q])[1] = name
Arg(q, i) == Head(todo[q])[i]
Continue(q, before) == todo' = [todo EXCEPT ![q] = before \o Tail(@)]
Proceed(q) == Continue(q, << >>)

\* An error of a request is reported to its client; an error of the start ends the
\* process, which is started again.
Abort(q) ==
  /\ todo' = [todo EXCEPT ![q] = IF q = Startup THEN Boot ELSE << >>]
  /\ clean' = FALSE
  /\ UNCHANGED <<iam, casbin>>

Serving == todo[Startup] = << >>

Init ==
  /\ role = [r \in Roles |-> "absent"] /\ granted = [r \in Roles |-> {}]
  /\ user = [u \in Users |-> "absent"] /\ bound = [u \in Users |-> {}]
  /\ p = [r \in Roles |-> {}] /\ g = [u \in Users |-> {}]
  /\ todo = [q \in Processes |-> IF q = Startup THEN Boot ELSE << >>]
  /\ clean = FALSE

-----------------------------------------------------------------------------
(* API calls: the instructions of each handler *)

Call(q, op, instructions) ==
  /\ Serving /\ todo[q] = << >> /\ op \in Ops
  /\ todo' = [todo EXCEPT ![q] = instructions]
  /\ UNCHANGED <<iam, casbin, clean>>

UpdateRolePermissions(q, actor, r, permissions) ==
  Call(q, "UpdateRolePermissions",
       << <<"grant", r, permissions>> >> \o Replace(r, permissions) \o Ensure(actor))

\* A call that names no role resets all preset ones, and replaces the policies of every role.
ResetRolePermissions(q, actor, S) ==
  Call(q, "ResetRolePermissions",
       ForEach([r \in IF S = {} THEN Preset ELSE S |->
                  <<"grant", r, IF r \in Preset THEN Defaults[r] ELSE {}>>])
         \o << <<"rereadRoles", S>> >> \o Ensure(actor))

CreateIAMRole(q, actor, r, permissions) ==
  /\ r \notin Preset
  /\ Call(q, "CreateIAMRole",
          << <<"createRole", r>> >>
            \o (IF permissions = {} THEN << >>
                ELSE << <<"grant", r, permissions>> >> \o Replace(r, permissions))
            \o Ensure(actor))

DeleteIAMRole(q, actor, r) ==
  /\ r \notin Preset
  /\ Call(q, "DeleteIAMRole", << <<"usersOfRole", r, actor>> >>)

CreateIAMUser(q, u, roles) ==
  Call(q, "CreateIAMUser",
       << <<"createUser", u>> >> \o ForEach([r \in roles |-> <<"checkRole", u, r>>]) \o Ensure(u))

DeleteIAMUser(q, actor, u) ==
  /\ u # Admin /\ u # actor /\ user[u] = "live"
  /\ Call(q, "DeleteIAMUser",
          << <<"clearRoles", u>>, <<"dropUser", u>>, <<"filterGroupings", u>> >>)

\* Fault: the bindings are aligned before the role is assigned.
AlignThenAssign(q, u, r) == Call(q, "AssignIAMUserRole", Ensure(u) \o Assign(u, r))

AssignIAMUserRole(q, u, r) == Call(q, "AssignIAMUserRole", Assign(u, r) \o Ensure(u))

RemoveIAMUserRole(q, u, r) == Call(q, "RemoveIAMUserRole", << <<"unbind", u, r>> >> \o Ensure(u))

SyncCasbinPolicies(q) == Call(q, "SyncCasbinPolicies", Sync)

-----------------------------------------------------------------------------
(* IAM statements *)

\* SetRolePermissions: one transaction on the rows of a role that exists.
Grant(q) ==
  LET r == Arg(q, 2) IN
  /\ At(q, "grant")
  /\ IF role[r] = "live"
       THEN /\ granted' = [granted EXCEPT ![r] = Arg(q, 3)]
            /\ Proceed(q) /\ UNCHANGED <<role, user, bound, casbin, clean>>
       ELSE Abort(q)

CreateRole(q) ==
  LET r == Arg(q, 2) IN
  /\ At(q, "createRole")
  /\ IF role[r] = "absent"
       THEN role' = [role EXCEPT ![r] = "live"] /\ Proceed(q)
            /\ UNCHANGED <<granted, user, bound, casbin, clean>>
       ELSE Abort(q)

\* GetRolePermissions of one role, or List of all, and the policies that follow.
RereadRoles(q) ==
  LET S == Arg(q, 2)
      listed == IF S = {} THEN {r \in Roles : role[r] = "live"} ELSE S
  IN  /\ At(q, "rereadRoles")
      /\ IF \A r \in listed : role[r] = "live"
           THEN /\ Continue(q, ForEach([r \in listed |-> <<"filterPolicies", r, granted[r]>>]))
                /\ UNCHANGED <<iam, casbin, clean>>
           ELSE Abort(q)

\* DeleteRoleByID: its users, the count of the roles of each, and the permissions.
UsersOfRole(q) ==
  LET r == Arg(q, 2)
      users == {u \in Users : user[u] = "live" /\ r \in bound[u]}
  IN  /\ At(q, "usersOfRole")
      /\ IF role[r] = "live"
           THEN Continue(q, ForEach([u \in users |-> <<"countRoles", u>>])
                              \o << <<"releaseRole", r, users, Arg(q, 3)>> >>)
                /\ UNCHANGED <<iam, casbin, clean>>
           ELSE Abort(q)

\* Fault: the count includes the role that is deleted.
CountRolesOffByOne(q) ==
  /\ At(q, "countRoles")
  /\ IF Cardinality(LiveRoles(Arg(q, 2))) >= 1
       THEN Proceed(q) /\ UNCHANGED <<iam, casbin, clean>>
       ELSE Abort(q)

\* A user that has no other role keeps the role from being deleted.
CountRoles(q) ==
  /\ At(q, "countRoles")
  /\ IF Cardinality(LiveRoles(Arg(q, 2))) > 1
       THEN Proceed(q) /\ UNCHANGED <<iam, casbin, clean>>
       ELSE Abort(q)

ReleaseRole(q) ==
  LET r == Arg(q, 2)  users == Arg(q, 3)  actor == Arg(q, 4) IN
  /\ At(q, "releaseRole")
  /\ IF role[r] = "live"
       THEN Continue(q, ForEach([u \in users |-> <<"unbind", u, r>>])
                          \o << <<"dropRole", r>> >>
                          \o ForEach([e \in Policies(granted[r]) |->
                                        <<"removePolicies", Of(r, {e})>>])
                          \o ForEach([u \in users |-> <<"removeGrouping", u, r>>])
                          \o EnsureAll(users) \o Ensure(actor))
            /\ UNCHANGED <<iam, casbin, clean>>
       ELSE Abort(q)

DropRole(q) ==
  LET r == Arg(q, 2) IN
  /\ At(q, "dropRole")
  /\ IF role[r] = "live"
       THEN role' = [role EXCEPT ![r] = "deleted"] /\ Proceed(q)
            /\ UNCHANGED <<granted, user, bound, casbin, clean>>
       ELSE Abort(q)

CreateUser(q) ==
  LET u == Arg(q, 2) IN
  /\ At(q, "createUser")
  /\ IF user[u] = "absent"
       THEN user' = [user EXCEPT ![u] = "live"] /\ Proceed(q)
            /\ UNCHANGED <<role, granted, bound, casbin, clean>>
       ELSE Abort(q)

\* DeleteByID is two statements.
ClearRoles(q) ==
  /\ At(q, "clearRoles")
  /\ bound' = [bound EXCEPT ![Arg(q, 2)] = {}]
  /\ Proceed(q) /\ UNCHANGED <<role, granted, user, casbin, clean>>

DropUser(q) ==
  LET u == Arg(q, 2) IN
  /\ At(q, "dropUser")
  /\ IF user[u] = "live"
       THEN user' = [user EXCEPT ![u] = "deleted"] /\ Proceed(q)
            /\ UNCHANGED <<role, granted, bound, casbin, clean>>
       ELSE Abort(q)

Exist(u, r) == user[u] = "live" /\ role[r] = "live"

\* AssignUserRole looks first, and does nothing for a user that has the role.
CheckRole(q) ==
  LET u == Arg(q, 2)  r == Arg(q, 3) IN
  /\ At(q, "checkRole")
  /\ IF Exist(u, r)
       THEN /\ Continue(q, IF r \in bound[u] THEN << >> ELSE << <<"bind", u, r>> >>)
            /\ UNCHANGED <<iam, casbin, clean>>
       ELSE Abort(q)

\* AddUserRole looks again; a second row for the same pair violates the key.
Bind(q) ==
  LET u == Arg(q, 2)  r == Arg(q, 3) IN
  /\ At(q, "bind")
  /\ IF Exist(u, r) /\ r \notin bound[u]
       THEN bound' = [bound EXCEPT ![u] = @ \cup {r}] /\ Proceed(q)
            /\ UNCHANGED <<role, granted, user, casbin, clean>>
       ELSE Abort(q)

\* RemoveUserRole: nothing to do for a user without the role.
Unbind(q) ==
  LET u == Arg(q, 2)  r == Arg(q, 3) IN
  /\ At(q, "unbind")
  /\ IF Exist(u, r)
       THEN bound' = [bound EXCEPT ![u] = @ \ {r}] /\ Proceed(q)
            /\ UNCHANGED <<role, granted, user, casbin, clean>>
       ELSE Abort(q)

-----------------------------------------------------------------------------
(* Seeding at the start *)

SeedRole(q) ==
  /\ At(q, "seedRole")
  /\ role' = [role EXCEPT ![Arg(q, 2)] = "live"]
  /\ Proceed(q) /\ UNCHANGED <<granted, user, bound, casbin, clean>>

\* Fault: a database that has mappings is left as it is.
SeedOnlyEmpty(q) ==
  LET empty == \A r \in Roles : role[r] = "live" => granted[r] = {} IN
  /\ At(q, "seedMappings")
  /\ Continue(q, ForEach([r \in IF empty THEN Preset ELSE {} |-> <<"grant", r, Defaults[r]>>]))
  /\ UNCHANGED <<iam, casbin, clean>>

\* All defaults into an empty database, else only those of super_admin.
SeedMappings(q) ==
  LET empty == \A r \in Roles : role[r] = "live" => granted[r] = {} IN
  /\ At(q, "seedMappings")
  /\ Continue(q, ForEach([r \in IF empty THEN Preset ELSE {Super} |-> <<"grant", r, Defaults[r]>>]))
  /\ UNCHANGED <<iam, casbin, clean>>

SeedAdmin(q) ==
  /\ At(q, "seedAdmin")
  /\ user' = [user EXCEPT ![Admin] = "live"]
  /\ Proceed(q) /\ UNCHANGED <<role, granted, bound, casbin, clean>>

-----------------------------------------------------------------------------
(* Enforcer calls *)

\* Fault: the policies of the role are not removed first.
AddOnTop(q) ==
  /\ At(q, "filterPolicies")
  /\ Continue(q, << <<"addPolicies", Arg(q, 2), Arg(q, 3)>> >>)
  /\ UNCHANGED <<iam, casbin, clean>>

\* GetFilteredPolicy: what is read here is removed by the next call.
FilterPolicies(q) ==
  LET r == Arg(q, 2) IN
  /\ At(q, "filterPolicies")
  /\ Continue(q, << <<"removePolicies", Of(r, p[r])>>, <<"addPolicies", r, Arg(q, 3)>> >>)
  /\ UNCHANGED <<iam, casbin, clean>>

\* RemovePolicies takes the rules of the list that still exist.
RemovePolicies(q) ==
  /\ At(q, "removePolicies")
  /\ p' = [r \in Roles |-> p[r] \ Arg(q, 2)[r]]
  /\ Proceed(q) /\ UNCHANGED <<iam, g, clean>>

AddPolicies(q) ==
  LET r == Arg(q, 2) IN
  /\ At(q, "addPolicies")
  /\ Continue(q, ForEach([e \in Policies(Arg(q, 3)) |-> <<"addPolicy", r, e>>]))
  /\ UNCHANGED <<iam, casbin, clean>>

AddPolicy(q) ==
  LET r == Arg(q, 2) IN
  /\ At(q, "addPolicy")
  /\ p' = [p EXCEPT ![r] = @ \cup {Arg(q, 3)}]
  /\ Proceed(q) /\ UNCHANGED <<iam, g, clean>>

\* GetUserRoleCodes fails for a user that is gone.
ReadRoles(q) ==
  LET u == Arg(q, 2) IN
  /\ At(q, "readRoles")
  /\ IF user[u] = "live"
       THEN Continue(q, << <<"align", u, LiveRoles(u)>> >>) /\ UNCHANGED <<iam, casbin, clean>>
       ELSE Abort(q)

\* GetFilteredGroupingPolicy: bindings IAM does not have go, those it has are added.
Align(q) ==
  LET u == Arg(q, 2)  want == Arg(q, 3) IN
  /\ At(q, "align")
  /\ Continue(q, ForEach([r \in g[u] \ want |-> <<"removeGrouping", u, r>>])
                   \o ForEach([r \in want |-> <<"addGrouping", u, r>>]))
  /\ UNCHANGED <<iam, casbin, clean>>

\* RemoveAllUserCasbinGroupings
FilterGroupings(q) ==
  LET u == Arg(q, 2) IN
  /\ At(q, "filterGroupings")
  /\ Continue(q, ForEach([r \in g[u] |-> <<"removeGrouping", u, r>>]))
  /\ UNCHANGED <<iam, casbin, clean>>

RemoveGrouping(q) ==
  LET u == Arg(q, 2) IN
  /\ At(q, "removeGrouping")
  /\ g' = [g EXCEPT ![u] = @ \ {Arg(q, 3)}]
  /\ Proceed(q) /\ UNCHANGED <<iam, p, clean>>

AddGrouping(q) ==
  LET u == Arg(q, 2) IN
  /\ At(q, "addGrouping")
  /\ g' = [g EXCEPT ![u] = @ \cup {Arg(q, 3)}]
  /\ Proceed(q) /\ UNCHANGED <<iam, p, clean>>

-----------------------------------------------------------------------------
(* SyncRolePoliciesToCasbin *)

\* The roles and their permissions are read once, before anything is written.
ListRoles(q) ==
  LET live == {r \in Roles : role[r] = "live"} IN
  /\ At(q, "listRoles")
  /\ Continue(q, << <<"getPolicy">> >>
                   \o ForEach([r \in live |-> <<"addPolicies", r, granted[r]>>])
                   \o << <<"listUsers">> >>)
  /\ UNCHANGED <<iam, casbin, clean>>

\* Fault: only the policies of roles that still exist are removed.
KeepForeignPolicies(q) ==
  /\ At(q, "getPolicy")
  /\ Continue(q, << <<"removePolicies",
                      [r \in Roles |-> IF role[r] = "live" THEN p[r] ELSE {}]>> >>)
  /\ UNCHANGED <<iam, casbin, clean>>

GetPolicy(q) ==
  /\ At(q, "getPolicy")
  /\ Continue(q, << <<"removePolicies", p>> >>)
  /\ UNCHANGED <<iam, casbin, clean>>

ListUsers(q) ==
  /\ At(q, "listUsers")
  /\ Continue(q, EnsureAll({u \in Users : user[u] = "live"}) \o << <<"synchronised">> >>)
  /\ UNCHANGED <<iam, casbin, clean>>

\* The end of the synchronisation; at the start, also the end of the start.
Synchronised(q) ==
  /\ At(q, "synchronised")
  /\ Proceed(q)
  /\ clean' = (clean \/ q = Startup)
  /\ UNCHANGED <<iam, casbin>>

-----------------------------------------------------------------------------
Fail(q) == todo[q] # << >> /\ Abort(q)

Crash ==
  /\ todo' = [q \in Processes |-> IF q = Startup THEN Boot ELSE << >>]
  /\ clean' = FALSE
  /\ UNCHANGED <<iam, casbin>>

\* Whoever calls once was a user; the token outlives the user.
Known(actor) == user[actor] # "absent"

Arrival(q) ==
  \/ \E r \in Roles, permissions \in SUBSET Permissions, actor \in Users :
       /\ Known(actor)
       /\ \/ UpdateRolePermissions(q, actor, r, permissions)
          \/ CreateIAMRole(q, actor, r, permissions)
  \/ \E S \in {{}} \cup {{r} : r \in Roles}, actor \in Users :
       Known(actor) /\ ResetRolePermissions(q, actor, S)
  \/ \E r \in Roles, actor \in Users : Known(actor) /\ DeleteIAMRole(q, actor, r)
  \/ \E u, actor \in Users : Known(actor) /\ DeleteIAMUser(q, actor, u)
  \/ \E u \in Users, roles \in SUBSET Roles : CreateIAMUser(q, u, roles)
  \/ \E u \in Users, r \in Roles : AssignIAMUserRole(q, u, r) \/ RemoveIAMUserRole(q, u, r)
  \/ SyncCasbinPolicies(q)

Step(q) ==
  \/ Grant(q) \/ CreateRole(q) \/ RereadRoles(q) \/ UsersOfRole(q) \/ CountRoles(q)
  \/ ReleaseRole(q) \/ DropRole(q) \/ CreateUser(q) \/ ClearRoles(q) \/ DropUser(q)
  \/ CheckRole(q) \/ Bind(q) \/ Unbind(q)
  \/ SeedRole(q) \/ SeedMappings(q) \/ SeedAdmin(q)
  \/ FilterPolicies(q) \/ RemovePolicies(q) \/ AddPolicies(q) \/ AddPolicy(q)
  \/ ReadRoles(q) \/ Align(q) \/ FilterGroupings(q) \/ RemoveGrouping(q) \/ AddGrouping(q)
  \/ ListRoles(q) \/ GetPolicy(q) \/ ListUsers(q) \/ Synchronised(q)

Next ==
  \/ \E q \in Requests : Arrival(q)
  \/ \E q \in Processes : Step(q) \/ Fail(q)
  \/ Crash

Spec == Init /\ [][Next]_rbacVars

-----------------------------------------------------------------------------
(* Properties *)

Instruction ==
  UNION { {<<name>> : name \in {"seedMappings", "seedAdmin", "listRoles", "getPolicy",
                                "listUsers", "synchronised"}},
          {"grant", "filterPolicies", "addPolicies"} \X Roles \X (SUBSET Permissions),
          {"createRole", "dropRole", "seedRole"} \X Roles,
          {"createUser", "clearRoles", "dropUser", "readRoles", "filterGroupings", "countRoles"}
            \X Users,
          {"checkRole", "bind", "unbind", "removeGrouping", "addGrouping"} \X Users \X Roles,
          {"rereadRoles"} \X (SUBSET Roles),
          {"usersOfRole"} \X Roles \X Users,
          {"releaseRole"} \X Roles \X (SUBSET Users) \X Users,
          {"addPolicy"} \X Roles \X Endpoints,
          {"removePolicies"} \X [Roles -> SUBSET Endpoints],
          {"align"} \X Users \X (SUBSET Roles) }

RbacTypeOK ==
  /\ role \in [Roles -> {"absent", "live", "deleted"}]
  /\ granted \in [Roles -> SUBSET Permissions]
  /\ user \in [Users -> {"absent", "live", "deleted"}]
  /\ bound \in [Users -> SUBSET Roles]
  /\ p \in [Roles -> SUBSET Endpoints]
  /\ g \in [Users -> SUBSET Roles]
  /\ todo \in [Processes -> Seq(Instruction)]
  /\ clean \in BOOLEAN

\* What the projection has to be.  Bindings of users that are gone are left out:
\* no synchronisation looks at them.
Exact ==
  /\ \A r \in Roles : p[r] = IF role[r] = "live" THEN Policies(granted[r]) ELSE {}
  /\ \A u \in Users : user[u] = "live" => g[u] = LiveRoles(u)

\* The incremental updates are complete: when no call is in flight and none was
\* cut short since the start, Casbin authorises exactly what IAM grants, without
\* any further synchronisation.
ProjectionExact == clean /\ (\A q \in Processes : todo[q] = << >>) => Exact

\* A synchronisation that gets to its end repairs the projection, whatever errors
\* and crashes left behind, of roles and users that exist and of deleted roles.
SyncRepairs == \A q \in Processes : At(q, "synchronised") => Exact

\* Enforce: some role of the user has the endpoint.
Authorized(u, e) == \E r \in g[u] : e \in p[r]

\* No sequence of calls locks dev-admin out past the next start of the server.
StartRestoresAdmin ==
  [][~Serving /\ Serving' => \A e \in Policies(Permissions) : Authorized(Admin, e)']_rbacVars

DeletingRole(q) == \E i \in DOMAIN todo[q] : todo[q][i][1] = "dropRole"

\* Deleting a role never takes the last role of a user away.
RoleDeletionSparesLastRole ==
  [][\A q \in Requests : DeletingRole(q) /\ todo'[q] # todo[q] =>
        \A u \in Users : user[u] = "live" /\ LiveRoles(u) # {} => LiveRoles(u)' # {}]_rbacVars

-----------------------------------------------------------------------------
(* The inductive invariant behind these properties.  It says what the          *)
(* instructions still to come make good, and in which order they come.         *)

OneAtATime == \A q1, q2 \in Requests : q1 = q2

IamOps == {"grant", "createRole", "usersOfRole", "countRoles", "releaseRole", "dropRole",
           "createUser", "clearRoles", "dropUser", "checkRole", "bind", "unbind",
           "seedRole", "seedMappings", "seedAdmin"}

PolicyOps == {"rereadRoles", "listRoles", "filterPolicies", "getPolicy",
              "removePolicies", "addPolicies", "addPolicy"}

\* Instructions nothing is queued behind, and such that are queued behind nothing.
Closing == {"usersOfRole", "releaseRole", "filterGroupings", "listRoles", "listUsers",
            "synchronised"}
Leading == {"clearRoles", "getPolicy", "align"}

\* a may stand somewhere before b in a list: IAM is written before policies, policies
\* before bindings, and old policies go before new ones come.
MayPrecede(a, b) ==
  /\ a \notin Closing /\ b \notin Leading
  /\ b \in IamOps => a \in IamOps
  /\ b \in PolicyOps => a \in IamOps \cup PolicyOps
  /\ b = "removePolicies" => a \in IamOps \cup {"removePolicies"}
  /\ a \in {"rereadRoles", "filterPolicies"} /\ b \in PolicyOps => b = "filterPolicies"
  /\ a \in {"readRoles", "align"} => b \in {"readRoles", "synchronised"}
  /\ b = "releaseRole" => a = "countRoles"
  /\ b = "dropRole" => a = "unbind"
  /\ b = "filterGroupings" => a \in {"clearRoles", "dropUser"}
  /\ a = "dropRole" => b \in {"removePolicies", "removeGrouping", "readRoles"}
  /\ a = "seedMappings" => b \in {"seedAdmin", "checkRole", "listRoles"}

Ordered(list) == \A i, j \in DOMAIN list : i < j => MayPrecede(list[i][1], list[j][1])

\* The predicates below are about the set I of the instructions still to come.

\* What is granted will be carried over into the policies.
GrantsFollowed(I) == \A x \in I : x[1] = "grant" =>
  \/ <<"listRoles">> \in I
  \/ \E y \in I : y[1] = "rereadRoles" /\ (y[2] = {} \/ x[2] \in y[2])
  \/ <<"filterPolicies", x[2], x[3]>> \in I

\* Policies that replace others are those of what is granted, or is about to be.
ReplacementsRight(I) == \A x \in I : x[1] = "filterPolicies" =>
  /\ <<"grant", x[2], x[3]>> \in I \/ (role[x[2]] = "live" /\ granted[x[2]] = x[3])
  /\ \A y \in I : y[1] = "grant" /\ y[2] = x[2] => y[3] = x[3]

\* Whose roles or existence change is aligned later, and what is seeded synchronised.
ChangesFollowed(I) == \A x \in I :
  /\ x[1] \in {"checkRole", "bind", "unbind", "createUser"} =>
       <<"readRoles", x[2]>> \in I \/ <<"listRoles">> \in I
  /\ x[1] \in {"seedRole", "seedMappings", "seedAdmin"} => <<"listRoles">> \in I
  /\ x[1] = "clearRoles" => <<"dropUser", x[2]>> \in I
  /\ x[1] = "filterGroupings" => user[x[2]] # "live" \/ <<"dropUser", x[2]>> \in I

\* The deletion of a role knows its users, each of which keeps another role.
DeletionsSpare(I) == \A x \in I :
  /\ x[1] = "releaseRole" =>
       /\ x[3] = {u \in Users : user[u] = "live" /\ x[2] \in bound[u]}
       /\ \A u \in x[3] : LiveRoles(u) \ {x[2]} # {} \/ <<"countRoles", u>> \in I
  /\ x[1] = "dropRole" =>
       /\ \A u \in Users : user[u] = "live" /\ x[2] \in bound[u] =>
            LiveRoles(u) \ {x[2]} # {} /\ <<"readRoles", u>> \in I
       /\ \A y \in I : y[1] = "unbind" => y[3] = x[2]

AlignmentsRight(I) == \A x \in I : x[1] = "align" => x[3] = LiveRoles(x[2])

\* The endpoints a role will have, if every instruction succeeds.
Goal(I, r) ==
  IF role[r] = "live" /\ <<"dropRole", r>> \notin I THEN Policies(granted[r]) ELSE {}

Removes(x, r, e) == x[1] = "getPolicy" \/ (x[1] = "removePolicies" /\ e \in x[2][r])

Adds(x, r, e) ==
  /\ x[1] \in {"addPolicy", "addPolicies"} /\ x[2] = r
  /\ IF x[1] = "addPolicy" THEN x[3] = e ELSE e \in Policies(x[3])

PoliciesSettled(I, r) == \A e \in Endpoints :
  e \in Goal(I, r) <=> \/ e \in p[r] /\ \A x \in I : ~Removes(x, r, e)
                       \/ \E x \in I : Adds(x, r, e)

PoliciesRebuilt(I, r) == \E x \in I :
  \/ x[1] = "listRoles"
  \/ x[1] = "rereadRoles" /\ IF x[2] = {} THEN role[r] = "live" ELSE r \in x[2]
  \/ x[1] = "filterPolicies" /\ x[2] = r

GroupingsSettled(I, u) == \A r \in Roles :
  /\ ~(<<"removeGrouping", u, r>> \in I /\ <<"addGrouping", u, r>> \in I)
  /\ r \in LiveRoles(u) <=> \/ r \in g[u] /\ <<"removeGrouping", u, r>> \notin I
                            \/ <<"addGrouping", u, r>> \in I

GroupingsRebuilt(I, u) == \E x \in I :
  \/ x[1] \in {"listRoles", "listUsers"}
  \/ x[1] \in {"readRoles", "align", "dropUser"} /\ x[2] = u

\* The instructions to come make the projection exact.  Nothing is due after a call was
\* cut short, until a synchronisation begins.
Synchronises(I) == \E x \in I : x[1] \in {"listRoles", "listUsers", "synchronised"}

ProjectionDue(I) == clean \/ Synchronises(I) =>
  /\ \A r \in Roles : PoliciesRebuilt(I, r) \/ PoliciesSettled(I, r)
  /\ \A u \in Users : user[u] = "live" => GroupingsRebuilt(I, u) \/ GroupingsSettled(I, u)

MakesGood(I) ==
  /\ GrantsFollowed(I) /\ ReplacementsRight(I) /\ ChangesFollowed(I)
  /\ DeletionsSpare(I) /\ AlignmentsRight(I) /\ ProjectionDue(I)

\* A start seeds what the last property asks of it, and takes nothing away.
StartOps == {"grant", "checkRole", "bind", "seedRole", "seedMappings", "seedAdmin", "listRoles",
             "getPolicy", "removePolicies", "addPolicies", "addPolicy", "listUsers",
             "readRoles", "align", "removeGrouping", "addGrouping", "synchronised"}

SeedsAdmin(I) ==
  /\ Synchronises(I)
  /\ \A x \in I : x[1] \in StartOps /\ (x[1] = "grant" /\ x[2] = Super => x[3] = Permissions)
  /\ role[Super] = "live" \/ <<"seedRole", Super>> \in I
  /\ user[Admin] = "live" \/ <<"seedAdmin">> \in I
  /\ \/ granted[Super] = Permissions \/ <<"seedMappings">> \in I
     \/ <<"grant", Super, Permissions>> \in I
  /\ Super \in bound[Admin] \/ <<"checkRole", Admin, Super>> \in I \/ <<"bind", Admin, Super>> \in I

\* Nobody has a role, and no role a permission, before the role exists.
NewRolesBare == \A r \in Roles : role[r] = "absent" =>
  granted[r] = {} /\ \A u \in Users : r \notin bound[u]

Pending == UNION {Range(todo[q]) : q \in Processes}

\* No two lists are under way together: always while the server starts.
Alone == Serving => OneAtATime

RbacInv ==
  /\ RbacTypeOK
  /\ NewRolesBare
  /\ \A q \in Processes : Ordered(todo[q])
  /\ Serving \/ \A q \in Requests : todo[q] = << >>
  /\ ~Serving => SeedsAdmin(Pending)
  /\ Alone => MakesGood(Pending)
=============================================================================
