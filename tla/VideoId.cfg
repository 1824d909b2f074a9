SPECIFICATION Spec
CONSTANTS
  Characters <- All
  Templates <- MCTemplates
  Width = 16
  PortMax = 50
  Hosts <- MCHosts
  YTDL_ID_LEN = 2
INVARIANTS
  FieldsInBuffer
  ParsedAsWritten
  IdAsWritten
CHECK_DEADLOCK FALSE
