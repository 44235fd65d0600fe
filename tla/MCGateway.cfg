CONSTANTS
  Slots = {r1}
  Stores = {"local", "cloudinary", "nil local"}
  Burst = 1
SPECIFICATION GatewaySpec
INVARIANTS
  ServedAsDocumented
  SessionWritesGuarded
  RefusalIsFree
