SPECIFICATION TSpec
CONSTANTS
  s1 = s1 c1 = c1 c2 = c2 p1 = p1 p2 = p2 ch1 = ch1 
  k1 = k1 k2 = k2 n1 = n1 n2 = n2 e1 = e1 e2 = e2
  Servers = {s1}
  Clients = {c1, c2}
  Threads <- MCThreads
  Tasks = {p1, p2}
  TaskOf <- MCTaskOf
  NamesOf <- MCNamesOf
  Names = {n1, n2}
  Addresses <- MCAddresses
  Entries = {e1, e2}
  Head = head
  Null = Null
  Channels = {ch1}
  Connections = {k1, k2}
  ChannelSlots <- MCOneSlot
  OutSlots <- MCTwoSlots
  InSlots <- MCTwoSlots
INVARIANTS TTypeOK ChannelsListLiveConnections IdsLeadThereAndBack ConnectionsAreOwned NamesAreFound
SYMMETRY MCSymmetry
CHECK_DEADLOCK FALSE
