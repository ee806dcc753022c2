SPECIFICATION Spec
CONSTANTS
  Flow <- UdpFlows
  Udp <- UdpFlows
  Peer <- OnePeer
  PeerOf <- ToOnePeer
  WireUnknown <- SecondUdp
  Renewable <- UdpFlows
  Retentions <- ZeroOrOne
  Gaps <- UnitGap
  MaxBytes = 1
  MaxAggregate = 3
INVARIANTS
  TypeOK
  IndexExact
  LiveRowsAreSnapshot
  
PROPERTIES
  RetentionHonoured
  AggregateMonotone
  RateSpansOneInterval
