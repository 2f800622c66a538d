SPECIFICATION Spec
CONSTANTS
  Nics = {nic1, nic2}
  Ids = {ann, ben}
  Handsets = {phone}
  Requests = {r1, r2}
  MaxVersion = 2
  MaxRequests = 6
  None = None
SYMMETRY Symmetric
INVARIANTS ErasureComplete ConsentIsCurrent  PurgedAreCounted
