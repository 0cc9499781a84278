SPECIFICATION Spec
CONSTANTS
  t1 = t1
  t2 = t2
  h = h
  b = b
  hp = hp
  p = p
  q = q
  m = m
  Target = Target
  Host = Host
  Build2 = Build2
  NoParent = NoParent
  Config <- PrivateConfig
  Type <- MCType
  Parent <- MCParent
  Linkable <- PrivateLinkable
  Unlinkable <- PrivateUnlinkable
  Movable = {t2}
  Name = {p, q, m}
  Home <- PrivateHome
  SystemHome <- PrivateSystemHome
  Requires <- MCRequires
INVARIANTS
  PrerequisitesConfigured
  PrerequisitesLoadable
  DependentsVisible
  BacklinksMatchLinks
