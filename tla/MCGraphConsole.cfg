CONSTANTS
  Alerts = {"brute", "misuse", "failure"}
  Events = {"e1", "e2", "e3"}
  Incidents = {"incident-1"}
  RuleOf <- MCRuleOf
  SeverityOf <- MCSeverityOf
  AffectedService <- MCAffectedService
  EvidenceOf <- MCEvidenceOf
  UserOf <- MCUserOf
  AssetOf <- MCAssetOf
  Groups <- MCGroups
  NoName = "-"
  Loads = {l1, l2}
  Requests = {r1}
  Sources <- MCSource
  Asks <- MCAsks
  PictureLimit = 7
  LLMSettings = {"none", "well", "malformed"}
  Terminal = tty
  MaxOutages = 1
SPECIFICATION Spec
SYMMETRY ConsoleSymmetry
CHECK_DEADLOCK FALSE
INVARIANT TypeOK
INVARIANT FailuresHaveCauses
INVARIANT SoloOutputIsWhole
