SPECIFICATION FairSpec
CONSTANTS
  BUFFER_SIZE = 4
  PacketSize = 2
  MaxRead = 3
  IndexMod = 16
  SizeMod = 8
  Byte = {0, 1}
  Zero = 0
INVARIANTS TypeOK ViewsInOrder NoOverwriteOfUnread CopiesFaithful
PROPERTIES ImplementsChannel ConsumerNotBlocked ProducerNotBlocked
