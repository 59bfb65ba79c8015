SPECIFICATION MCSpec
CONSTANTS
  a = a  b = b
  CaName = "ca"
  ServerName = "server"
  Clients <- MCClients
  ForeignCerts <- MCForeignCerts
  CertTypes = {"CLIENT", "SERVER"}
  Validities = {1}
  ServerValidity = 2
  MaxSerial = 4
  MaxTime = 2
  MaxSessions = 2
  NoSession = NoSession
  NoOne = NoOne
  Texts = {t}
  Garbage = Garbage
  MaxMessages = 2
INVARIANTS
  Agreement
  HandshakesKeep
PROPERTIES
  AdmittedWithCertificate
