SPECIFICATION FairSpec
CONSTANTS
  Nodes = {n1, n2}
  Agents = {a}
  Forwarders = {wire, vault}
  MaxRecords = 2
  MaxRare = 2
INVARIANT QuietMeansKnown
PROPERTY MeshGoesQuiet
CHECK_DEADLOCK FALSE
