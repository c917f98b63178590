SPECIFICATION Spec
CONSTANTS
  t1 = t1
  root = root
  other = other
  css = css
  img = img
  api = api
  robots = robots
  v1 = v1
  v2 = v2
  sw1 = sw1
  sw2 = sw2
  NoScript = NoScript
  Tabs <- OneTab
  Pages <- TwoPages
  Assets <- Css
  Live <- Api
  Others <- Robots
  STATIC_ASSETS <- Precached
  Script <- ScriptPerBuild
  CACHE_VERSION <- NameKept
  Registering <- AllRegister
  Answered <- AllAnswered
  Root = root
  LastBuild = 1
  MaxPuts = 1
  ScopeAllowed = TRUE
  Evicts = FALSE
INVARIANTS
  TypeOK
  OfflineReady
  NavigationAnswered
  RightAnswer
