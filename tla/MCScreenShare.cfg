SPECIFICATION Spec
CONSTANTS
  v = v
  hi = hi
  lo = lo
  plain = plain
  voice = voice
  None = None
  Sink = Sink
  Viewers <- MCViewers
  Tracks <- MCTracks
  Companions <- MCCompanions
  Uplink <- MCUplink
  Asked = {"low"}
  SinkKinds = {"screen"}
  MaxActive = 2
  MaxOrders = 2
  MaxSent = 2
INVARIANTS
  GaugeExact
  EndedIsEnded
  ScreenExactAlone
