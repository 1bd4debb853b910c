SPECIFICATION Spec
CONSTANTS
  Factions = {1, 2}
  Units = {1, 2}
  Temps = {2}
  FirstOwner <- OwnerMap
  Texts <- AllTexts
  Receiver = 2
  MaxMails = 2
  LastWeek = 3
INVARIANT OneLongAction
INVARIANT TempsObeyAlone
INVARIANT NoStaleOrders
INVARIANT WorkResumes
CHECK_DEADLOCK FALSE
