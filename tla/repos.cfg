SPECIFICATION FairSpec
CONSTANTS
  a = a
  b = b
  e = e
  g = g
  h = h
  fa = fa
  fb = fb
  fe = fe
  c1 = c1
  c2 = c2
  c3 = c3
  p = p
  q = q
  t = t
  u = u
  n = n
  s = s
  Repo = {a, b, e, g, h}
  Fragment = {fa, fb, fe, c1, c2, c3}
  Package = {p, q, t, u}
  Root = Root
  RootRepo = RootRepo
  NoState = NoState
  Lax = {b, e, g, h}
  Offers <- SharedOffers
  StateOf <- MCState
  NameOf <- MCName
  VersionOf <- MCVersion
  Tests <- MCTests
  Version <- SomeVersions
  Wanted <- SomeConstraints
  MaxArgs = 2
  MaxAdded = 3
  ShallowAll = FALSE
INVARIANTS
  GraphConsistent
  AsOncePublished
  StateKept
  SearchExact
  StricterSuits
PROPERTIES
  Atomic
  EveryCommandEnds
