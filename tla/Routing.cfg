SPECIFICATION Spec
CONSTANTS
  v1 = v1
  v2 = v2
  q1 = q1
  q2 = q2
  Services = {v1, v2}
  Paths <- MCPaths
  KeyPath = "asset"
  Payloads <- MCPayloads
  Substring <- MCSubstring
  Filters <- MCFilters
  Patches <- MCPatches
  Requests = {q1}
  Unparsed = Unparsed
  Keep = Keep
  NoSub = NoSub
  Overlap = FALSE
  MaxSubs = 2
  MaxPatches = 1
SYMMETRY Interchangeable
INVARIANTS
  TypeOK
  Recipients
  StoredIsValid
  OperatorsAgree
