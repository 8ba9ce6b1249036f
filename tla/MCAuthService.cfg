SPECIFICATION Spec
CONSTANTS
  Workers = {w1, w2}
  Names = {root, ann}
  Emails = {rootmail, annmail}
  Admin = root
  AdminEmail = rootmail
  Null = Null
  NewRoles = {"admin"}
  Lifetime = 1
  HashTime = 1
  MaxRows = 2
  MaxTime = 3
  MaxTokens = 1
  MaxCrashes = 1
INVARIANT TypeOK
INVARIANT PrivilegeExpires
PROPERTY ImplementsTables
PROPERTY RestartRepairs
