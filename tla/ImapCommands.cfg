SPECIFICATION MCSpec
CONSTANTS
  s1 = s1
  s2 = s2
  u1 = u1
  u2 = u2
  Sessions = {s1, s2}
  Users = {u1, u2}
  NoUser = NoUser
  StartFolders <- MCStart
  Names <- MCNames
  SequenceSets <- MCSets
  UidSets <- MCUidSets
  ItemLists <- MCItems
  Stores <- MCStores
  PageLimit = 2
  MaxFolders = 3
  MaxMsgs = 3
  MaxUid = 3
INVARIANT TypeOK
INVARIANT OwnMailbox
 
INVARIANT ExpungeReplays
 
INVARIANT UidFetchComplete
PROPERTY OnlyOwnMessages
