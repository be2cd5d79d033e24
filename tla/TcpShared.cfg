SPECIFICATION Spec
CONSTANTS
  RXBUF_CAP = 1
  NoByte = NoByte
  Base = 9
  UIP_ARPTAB_SIZE = 1
  UIP_ARP_MAXAGE = 0
  ArpClock = 1
  NoHost = NoHost
  UIP_CONNS = 2
  UIP_RTO = 1
  UIP_MAXRTX = 1
  UIP_MAXSYNRTX = 1
  UIP_TCP_MSS = 1
  PENDING_CAP = 2
  Rtos = {1}
  Gateway = Gateway
  OpenMax = 2
  NetCap = 1
  Requests = {1}
  RequestMax = 1
  AnswerAfter = 0
  AnswerLen = 1
INVARIANT OwnAnswer
