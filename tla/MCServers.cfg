\* Two servers that share a hostname, three commands.
SPECIFICATION FairSpec
CONSTANTS
  Servers = {s1, s2}
  Names = {host}
  Commands = {c1, c2, c3}
  Slots = {t1, t2}
  None = None
  Name <- OneName
INVARIANTS TasksAreKnown NoChangeMissed EnrolledListed
PROPERTIES ListedIsDialled
