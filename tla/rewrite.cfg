SPECIFICATION Spec
CONSTANTS
  Requests <- MCRequests
  NewLen = 2
  MaxHeaders = 2
  Space = 25
  MaxCalls = 3
  MaxGiven = 2
  Leads = {0, 1}
  Bodies = {0, 2}
INVARIANTS
  TypeOK
  RewrittenInFull
  
  HeadUntouched
  OnlyHostChanges
  RewriteInv
  OneHostInv
  HostOnlyInv
PROPERTIES
  RewriteIsStable
CHECK_DEADLOCK FALSE
