SPECIFICATION Spec
CONSTANTS
  Flow <- UdpFlows
  Udp <- UdpFlows
  Peer <- OnePeer
  PeerOf <- ToOnePeer
  WireUnknown <- SecondUdp
  Renewable <- Nobody
  Retentions <- OneEach
  Gaps <- UnitGap
  MaxBytes = 1
  MaxAggregate = 3
INVARIANT
  AggregateIsSumOfMembers
