CONSTANTS
  cloudA = cloudA
  cloudB = cloudB
  local = local
  openai = openai
  home = home
  chat = chat
  realtime = realtime
  text = text
  voice = voice
  e1 = e1
  e2 = e2
  Model = {cloudA, cloudB, local}
  Provider = {openai, home}
  Profile = {chat, realtime}
  Capability = {text, voice}
  Chat = chat
  Local = {home}
  Edit = {e1, e2}
  Owner <- MCOwner
  Claims <- MCClaims
  Requires <- MCRequires
  Bootstraps <- MCBootstraps
  Patches <- MCPatches
  Orders <- MCOrders
  MaxRestarts = 1
  MaxFaults = 1
SPECIFICATION Spec
INVARIANTS SettingsInOrder RoutesAreEligible
PROPERTIES EditsAreKept
