\* Two scans of one item with two CVEs, one per EPSS page.
SPECIFICATION Spec
CONSTANTS
  s1 = s1
  s2 = s2
  s3 = s3
  i1 = i1
  i2 = i2
  v1 = v1
  v2 = v2
  Scans = {s1, s2}
  Items = {i1}
  CVEs = {v1, v2}
  Affecting <- SharedCVEs
  TTL = 2
  ScanTimeout = 1
  PageSize = 1
  MaxTime = 5
SYMMETRY ScanSymmetry
INVARIANTS
  TypeOK
  BoundedStaleness
  NeverBlinded
  CollectBounded
\* A behaviour ends when the bound MaxTime is reached.
CHECK_DEADLOCK FALSE
