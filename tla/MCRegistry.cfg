SPECIFICATION Spec
SYMMETRY Symmetry
CONSTANTS
  local = local
  remote = remote
  n1 = n1
  n2 = n2
  NoUri = NoUri
  NoName = NoName
  NoObj = NoObj
  Uris = {local, remote}
  Remote = {remote}
  NameOf <- MCNameOf
  Clients = {c1, c2}
  Objects = {o1, o2}
  Timeout = 1
INVARIANTS
  TypeOK
  ServedIsLive
  ServedOwnData
  WatchedIsFresh
PROPERTIES
  PurgeSparesWatched
  ImplementsStore
