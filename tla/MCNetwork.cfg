SPECIFICATION NetworkFairSpec
CONSTANTS
  VpcWants <- MCVpcWants
  Wants <- MCSubnetWants
  Scenarios <- MCScenarios
  MaxVpcs = 3
  MaxSubnets = 3
  Ipv6Quota = 2
  NetworkTags <- MCTags
CHECK_DEADLOCK FALSE
INVARIANTS NetworkInv NoOrphanSubnet
PROPERTIES BothGo NetworkConverges
