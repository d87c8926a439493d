SPECIFICATION Spec
CONSTANTS
  searchHost = searchHost
  signInHost = signInHost
  adsHost = adsHost
  jd = jd
  item = item
  signIn = signIn
  ad = ad
  AllowedHosts = {searchHost}
  SignInHosts = {signInHost}
  SubresourceDomains = {jd}
  Within <- MCWithin
  Addresses <- MCAddresses
  Parts <- MCParts
  Openers = {a, b}
  URLs = {item, signIn}
  Resources = {ad}
  ErrorPage = errorpage
  NoOne = noone
  MaxScripts = 1
INVARIANTS
  TypeOK
  SnapshotIsOwn
  ErrorPageNeverReturned
  BlockedIsNotTransient
  NothingRunsAfterClose
PROPERTY EveryOpenEnds
CHECK_DEADLOCK FALSE
