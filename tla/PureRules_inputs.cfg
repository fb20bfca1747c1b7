SPECIFICATION Spec
CONSTANTS
  A = A
  B = B
  a = a
  b = b
  Hyphen = Hyphen
  Space = Space
  Mark = Mark
  Super = Super
  Superscripts = {Super}
  None = None
  Capitals = {A, B}
  UpperOf <- MCUpperOf
  Documents <- MCDocuments
  Plates <- MCPlates
  OrderSets <- MCOrderSets
  Dsns <- MCDsns
  Channels = {"auto", "email", "log", "sms"}
  ConnectArguments = {"ssl", "passfile", "krbsrvname", "target_session_attrs"}
CHECK_DEADLOCK FALSE
INVARIANTS DocumentRulesAgree OneKeyPerThing WorkListInOrder AverageWithinRange SettingsUsable
