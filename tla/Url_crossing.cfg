SPECIFICATION CrossingSpec
CONSTANTS
  gated = gated  whole = whole  net = net  broker = broker  local = local  lit = lit  unknown = unknown
  v1 = v1  v2 = v2  v3 = v3  v4 = v4  v5 = v5  v6 = v6
  Handle = {gated, whole, net, broker, local, lit, unknown}
  Val = {v1, v2, v3, v4, v5, v6}
  None = None
  BrokerHandle = {broker}
  Literal = {lit}
  LB = LB  RB = RB  Quote = Quote  Backslash = Backslash  Colon = Colon  Blank = Blank  Word = Word  LitEnd = LitEnd
  Restore <- MCRestore
  Look <- MCLook
  Index = {1, 2}
  Script <- MCScript
  Wires = {"anthropic", "chat", "chat_early", "responses"}
  MaxTokenLen = 3
  Known <- MCLook
  Replies <- MCReplies
  Paths <- MCPaths
  MaxLeaves = 2
  AddressLength = 8
  MaxDepth = 3
  DecodeLevels = 2
INVARIANT NeverNarrowed
CHECK_DEADLOCK FALSE
