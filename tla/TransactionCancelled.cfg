CONSTANTS
  a1 = a1
  a2 = a2
  b = b
  c = c
  d = d
  na = na
  nb = nb
  nc = nc
  nd = nd
  x = x
  y = y
  z = z
  w = w
  v = v
  u = u
  k = k
  NoPackage = NoPackage
  Packages <- MCPackages
  Paths <- MCPaths
  PathsOf <- MCPathsOf
  PycOf <- MCPycOf
  Names <- MCNames
  NameOf <- MCNameOf
  Installed = {a1}
  Remove <- UpdateA
  Install <- OnlyA
  Requested = {na}
  PipRecords = {}
  PyPI = {}
  MaxFailures = 1
SPECIFICATION Spec
INVARIANTS
  CancelledRestoresAll
