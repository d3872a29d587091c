SPECIFICATION Spec
CONSTANTS
  Frames = {f1, f2}
  NoFrame = NoFrame
  ETH_RXBUFNB = 2
  ETH_TXBUFNB = 2
  PBUF_POOL_SIZE = 2
  TCPIP_MBOX_SIZE = 1
  RawSends = 1
INVARIANTS
  RxNeverBusy
  NoFrameForgotten
  PbufsAccounted
PROPERTIES
  RxIsChannel
  TxIsChannel
SYMMETRY AnyFrame
