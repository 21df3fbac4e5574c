SPECIFICATION FairExpirySpec
CONSTANTS
  a = a
  b = b
  Nicks <- OneNick
  NSExpire = 7
  NSRegMail = 3
  Margen = 5
  Aviso = 2
  ExpireTimeout = 2
  Outage = 4
  MaxRestarts = 1
PROPERTIES
  ConnectedKeep
  WarnedInTime
  AbandonedExpires

