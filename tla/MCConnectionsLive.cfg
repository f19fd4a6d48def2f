SPECIFICATION FairSpec
CONSTANTS
  c1 = c1
  c2 = c2
  a1 = a1
  Conns <- MCOneConn
  Agents <- MCAgents
  AgentOf <- MCAgentOf
  PresenceCap = 1
  RawCap = 1
  TypedCap = 1
  OutboundCap = 1
  OrderCap = 1
  PresencePolicies = {"Drop", "Backpressure"}
  InboundPolicies = {"Drop", "Backpressure"}
  OutboundPolicies = {"Drop", "Disconnect"}
  Gates = {"Unlimited"}
  Order = {"Close", "Arm", "Disarm"}
PROPERTIES
  
  DepartureHeard
CHECK_DEADLOCK FALSE
