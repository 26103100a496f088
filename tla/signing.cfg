SPECIFICATION Spec
CONSTANTS
  i1 = i1
  i2 = i2
  b1 = b1
  b2 = b2
  p1 = p1
  p2 = p2
  p3 = p3
  Ids <- MCIds
  Bodies <- MCBodies
  PrivateKeys <- MCPrivateKeys
  StoredKeys <- MCStoredKeys
  MayDisable <- MCMayDisable
  KeyLists <- MCKeyLists
  TypeLists <- MCTypeLists
  DocTypes <- MCDocTypes
  Demands <- MCDemands
  LockKey <- MCLockKey
  LockId <- MCLockId
  LATEST_VERSION = 1
  MaxSteps = 4
INVARIANTS AcceptedAsSigned ArrivesIntact ProofsOfPossession StrongEnough
