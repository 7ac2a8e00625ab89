SPECIFICATION Spec
CONSTANTS
  Clients = {c1}
  Handlers = {h1, h2}
  Routes = {"inbox", "media"}
  ClientBudget = 8
  GlobalBudget = 4
  Window = 2
  TTL = 5
  Modulus = 64
PROPERTIES
  RefusalIsEarned
  FreshBudgetOnlyAfterWindow
  NoLimiterStaysLocked
