SPECIFICATION Spec
CONSTANTS
  c1 = c1
  c2 = c2
  a1 = a1
  Conns <- MCTwoConns
  Agents <- MCAgents
  AgentOf <- MCAgentOf
  PresenceCap = 2
  RawCap = 1
  TypedCap = 1
  OutboundCap = 1
  OrderCap = 1
  PresencePolicies = {"Drop"}
  InboundPolicies = {"Drop"}
  OutboundPolicies = {"Drop"}
  Gates = {"Unlimited"}
  Order = {}
PROPERTY DepartureBeforeReturn
CHECK_DEADLOCK FALSE
