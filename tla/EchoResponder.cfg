\* One message of each kind, read alone or two at a time; the stream is lost
\* twice.  A stopped responder stops, so there are states without a successor.
SPECIFICATION FairSpec
CONSTANTS
  ping = ping
  blob = blob
  pub = pub
  own = own
  Msg = {ping, blob, pub, own}
  TopicOf <- MCTopicOf
  Asks <- MCAsks
  MaxDrops = 2
CHECK_DEADLOCK FALSE
INVARIANT TallyExact
PROPERTIES
  StopEnds
  ReadIsHandled
