CONSTANTS
  Participants = {"p1", "p2"}
  Requests = {q1}
  q1 = q1
  NoParticipant = NoParticipant
  NoToken = NoToken
  NoHost = NoHost
  RuleSet <- MCRules
  Stores = {"memory", "postgres"}
  Http <- MCHttp
  resolve <- MCResolve
  url_path <- MCUrlPath
  is_match <- MCIsMatch
  proxy_domain = "proxy.example.com"
  Styles = {"path", "virtual"}
  Endpoints = {"valid", "invalid port"}
  MaxChanges = 4
  MaxRetries = 1
SPECIFICATION Spec
CHECK_DEADLOCK FALSE
INVARIANTS ForwardedAsAddressed
PROPERTIES ForwardedUnderRule RulesHonoured
