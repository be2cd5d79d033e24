SPECIFICATION Spec
CONSTANTS
  RXBUF_CAP = 2
  NoByte = NoByte
  Base = 9
  UIP_ARPTAB_SIZE = 1
  UIP_ARP_MAXAGE = 0
  ArpClock = 1
  NoHost = NoHost
  UIP_CONNS = 1
  UIP_RTO = 1
  UIP_MAXRTX = 1
  UIP_MAXSYNRTX = 1
  UIP_TCP_MSS = 2
  PENDING_CAP = 2
  Rtos = {1}
  Gateway = Gateway
  OpenMax = 1
  NetCap = 2
  Requests = {1}
  RequestMax = 2
  AnswerAfter = 2
  AnswerLen = 3
INVARIANTS
  TcpTypeOK
  RingIsQueue
  EndsAgree
PROPERTIES
  LossReported
  ImplementsStream
  OutstandingSettles
