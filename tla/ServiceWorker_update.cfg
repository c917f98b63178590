SPECIFICATION FairSpec
CONSTANTS
  t1 = t1
  root = root
  other = other
  css = css
  img = img
  api = api
  robots = robots
  v1 = v1
  v2 = v2
  sw1 = sw1
  sw2 = sw2
  NoScript = NoScript
  Tabs <- OneTab
  Pages <- JustRoot
  Assets <- Img
  Live <- None
  Others <- None
  STATIC_ASSETS <- JustRoot
  Script <- ScriptPerBuild
  CACHE_VERSION <- NamePerBuild
  Registering <- AllRegister
  Answered <- AllAnswered
  Root = root
  LastBuild = 1
  MaxPuts = 1
  ScopeAllowed = TRUE
  Evicts = TRUE
INVARIANTS
  CachesFresh
PROPERTIES
  UpdateReachesPages
