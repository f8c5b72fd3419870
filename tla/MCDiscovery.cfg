\* a key file that a crash has left half-written stops its node for good
CHECK_DEADLOCK FALSE
SPECIFICATION FairSpec
CONSTANTS
  a = a
  b = b
  Node = {a, b}
  Me = a
  Address = {1, 2, 3}
  Directory = {"keys"}
  KeyDir <- OneDirectory
  \* 7 is another way to write an address
  StaticPeers = {2, 7}
  MaxKeys = 5
  MaxEvents = 3
INVARIANTS TypeOK RegistryIsCurrent KeysAgree IdentityPersists
PROPERTIES NodesStart
