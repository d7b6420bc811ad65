SPECIFICATION FairSpec
CONSTANTS
  FirstRows = 2
  MaxFile = 3
  Page = 1
  MaxUpsets = 2
INVARIANTS
  TypeOK
PROPERTIES
  MirrorHeals
  GhostsGo
