SPECIFICATION FairSpec
CONSTANTS
  A = A
  B = B
  p = p
  x = x
  v = v
  Servers = {A, B}
  Compositions = {m1, m2}
  Included = {"tool", "template"}
  MountPrefixes <- MCPrefixes
  Variables = {v}
  Values = {p, x}
  Initial <- MCInitial
  Late <- MCLate
  Callers = {c1}
  Guesses <- MCGuesses
  NoServer = NoServer
INVARIANTS
  ListedIsServed
PROPERTIES
  ExistingStays
  CallsEnd
