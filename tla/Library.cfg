\* Five components, each on its own. Rotations, commits and messages are bounded;
\* a deployment is loaded once and then stays.
CONSTANTS
  a1 = a1
  a2 = a2
  t1 = t1
  t2 = t2
  p1 = p1
  v1 = v1
  fallback = fallback
  Accounts = {a1, a2}
  Claims <- MCClaims
  Generations = 2
  PromptNames = {p1}
  Threads = {t1, t2}
  PromptTtl = 2
  PromptDelay = 1
  PromptValues = {v1, fallback}
  MessageTokens = {0, 1, 3}
  MaxMessages = 4
  TokenLimits = {2, 4}
  Databases <- MCDatabases
  EnumNames = {"region", "status"}
  EnumThreshold = 2
  Relationships <- MCRelationships
  Commits = 3
  Variables = {"V"}
  Leaves <- MCLeaves
  Lists <- MCLists
  Keys <- MCKeys
  Schema = {"x"}
SPECIFICATION Spec
INVARIANT RotationKeepsIdentity
INVARIANT PromptsAreRecent
INVARIANT RequestReachesModel
INVARIANT PromptIsHonest
INVARIANT CheckedConfigLoads
CHECK_DEADLOCK FALSE
