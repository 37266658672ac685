SPECIFICATION MaskingSpec
CONSTANTS
  sec = sec  opt = opt  key = key  codeA = codeA  codeB = codeB
  hSec = hSec  hSecPii = hSecPii  hOpt = hOpt  hOptPii = hOptPii  hKey = hKey  hFixed = hFixed
  Handle = {hSec, hSecPii, hOpt, hOptPii, hKey, hFixed}
  Val = {sec, opt, key, codeA, codeB}
  None = None
  BrokerHandle = {hSec, hOpt}
  Literal = {hFixed}
  LB = LB  RB = RB  Quote = Quote  Backslash = Backslash  Colon = Colon  Blank = Blank  Word = Word  LitEnd = LitEnd
  Restore <- MCRestore
  Turn = {t1, t2}
  t1 = t1  t2 = t2
  SecretOp <- MCSecretOp
  Detected <- MCDetected
  Required = {sec}
  Minted <- MCMinted
  Policies <- MCPolicies
  Calls <- MCCalls
  Egress = {"mcp"}
  Opaque = {"bash"}
  MaxEvents = 1
  TextLength = 3
  SecretHits <- MCSecretHits
  RuleHits <- MCRuleHits
  Reports <- MCReports
  MlReports <- MCMlReports
  Allowed <- MCAllowed
  Dated <- MCDated
  EngineConfigs <- MCEngineConfigs
  MostFound <- MCMostFound
  MaxFindings = 3
SYMMETRY Turns
INVARIANTS TokensSound NothingEscapes DetectSound
CHECK_DEADLOCK FALSE
