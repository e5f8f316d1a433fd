SPECIFICATION FirewallSpec
CONSTANTS
  r1 = r1
  r2 = r2
  r3 = r3
  Rules = {r1, r2, r3}
  NoRule = NoRule
  Files <- JustRules
  FailureReply = "error_setting_iptables_rules"
  Refused <- RefusesR2
  MaxFailures = 0
  MaxDeaths = 0
  MaxCrashes = 0
CHECK_DEADLOCK FALSE
INVARIANTS
  RetriedAndLogged
