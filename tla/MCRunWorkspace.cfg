SPECIFICATION Spec
CONSTANTS
  r1 = r1
  r2 = r2
  r3 = r3
  c1 = c1
  u1 = u1
  u2 = u2
  u3 = u3
  top = top
  sub = sub
  topToml = topToml
  subToml = subToml
  lib = lib
  Reqs = {r1, r2, r3}
  Clients = {c1}
  SessionIDs = {u1, u2, u3}
  UUID <- MCUUID
  Files = {topToml, subToml, lib}
  Dirs = {top, sub}
  Root = top
  Parent <- MCParent
  DirOf <- MCDirOf
  Manifest <- MCManifest
  Requests <- MCRequests
  None = None
SYMMETRY ReqSymmetry
INVARIANTS TypeOK NoStaleFile JobReady SessionKept
