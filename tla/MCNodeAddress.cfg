SPECIFICATION FairSpec
CONSTANTS
  IPs <- MCIPs
  Lists <- MCLists
  None = None
INVARIANT TypeOK
INVARIANT OrderKept
PROPERTY SteadySourceFound
PROPERTY AddressFound
