\* Two users, up to three sockets and as many descriptors.
CONSTANTS
  u1 = u1  u2 = u2  s1 = s1  s2 = s2  s3 = s3  n1 = n1  n2 = n2  n3 = n3
  None = None
  Users = {u1, u2}
  Socks = {s1, s2, s3}
  Fds = {n1, n2, n3}
  MaxAddrs = 2
  MaxTasks = 3
SPECIFICATION Spec
INVARIANTS
  OneOwner
  ServerOutlivesTasks
  StoppedIsDeaf
SYMMETRY Sym
