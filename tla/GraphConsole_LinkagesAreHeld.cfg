CONSTANTS
  Alerts = {"brute", "misuse", "failure"}
  Events = {"e1", "e2", "e3"}
  Incidents = {"incident-1"}
  RuleOf <- MCRuleOf
  SeverityOf <- MCSeverityOf
  AffectedService <- MCAffectedService
  EvidenceOf <- MCEvidenceOf
  UserOf <- MCUserOf
  AssetOf <- MCAssetOf
  Groups <- MCGroups
  NoName = "-"
  Loads = {l1}
  Requests = {r1}
  Sources <- MCSources
  Asks <- MCLinkage
  PictureLimit = 7
  LLMSettings = {"none", "well"}
  Terminal = tty
  MaxOutages = 0
SPECIFICATION Spec
CHECK_DEADLOCK FALSE
INVARIANT LinkagesAreHeld
