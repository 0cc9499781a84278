SPECIFICATION Spec
CONSTANTS
  t1 = t1
  t2 = t2
  h = h
  b = b
  hp = hp
  p = p
  q = q
  m = m
  Target = Target
  Host = Host
  Build2 = Build2
  NoParent = NoParent
  Config <- SharedConfig
  Type <- MCType
  Parent <- MCParent
  Linkable <- ChainUnlinkable
  Unlinkable <- ChainUnlinkable
  Movable = {}
  Name = {p, q, m}
  Home <- ChainHome
  SystemHome <- SharedSystemHome
  Requires <- MCRequires
INVARIANT
  PrerequisitesLoadable
