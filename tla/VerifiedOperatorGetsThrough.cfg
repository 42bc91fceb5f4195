SPECIFICATION SetUpSpec
CONSTANTS
  Operators = {"ann", "bob"}
  Users = {"kim", "lee"}
  KeycloakAdmins = {}
  MaxVersions = 3
  MaxMishaps = 2
CHECK_DEADLOCK FALSE
PROPERTY VerifiedOperatorGetsThrough
