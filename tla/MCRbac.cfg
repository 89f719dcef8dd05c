SPECIFICATION Spec
CONSTANTS
  admin = admin
  u1 = u1
  super = super
  r1 = r1
  a = a
  b = b
  e1 = e1
  e2 = e2
  q1 = q1
  q2 = q2
  startup = startup
  Users = {admin, u1}
  Admin = admin
  Roles = {super, r1}
  Preset = {super}
  Super = super
  Permissions = {b}
  Endpoints = {e1, e2}
  PermissionRules <- MCOneRule
  Defaults <- MCOneDefault
  Requests = {q1}
  Startup = startup
  Ops = {"UpdateRolePermissions", "ResetRolePermissions", "CreateIAMRole", "DeleteIAMRole", "CreateIAMUser", "DeleteIAMUser", "AssignIAMUserRole", "RemoveIAMUserRole", "SyncCasbinPolicies"}
INVARIANTS RbacInv RbacTypeOK ProjectionExact SyncRepairs
PROPERTIES StartRestoresAdmin RoleDeletionSparesLastRole
