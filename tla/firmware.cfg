SPECIFICATION FairFirmwareSpec
CONSTANTS
  Downloads = {d1, d2}
  NoDownload = NoDownload
  Rejectable = {d2}
  MaxRequests = 2
  MaxLinkFaults = 1
CHECK_DEADLOCK FALSE
INVARIANT DarkWindowEnds
PROPERTY DownloadsSettle
