SPECIFICATION Spec
CONSTANTS
  p1 = p1
  p2 = p2
  crm1 = crm1
  None = None
  Device = {p1, p2}
  Crm = {crm1}
  Quotas = {0}
  TagOrder <- FirstTags
  WebTags = {"WB", "XY"}
  FirstWebTag = "WB"
  Sheets <- OneFile
  Times = {1, 2}
  MaxNumber = 2
  MaxClients = 2
  MaxContacts = 2
  MaxQueue = 1
INVARIANTS
  CodesUnique
  
PROPERTIES
  HandedOverForGood

CONSTRAINT OneFollowed
SYMMETRY Desks
