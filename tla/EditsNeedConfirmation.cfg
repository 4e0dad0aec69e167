SPECIFICATION Spec
CONSTANTS
  Revisions = {1}
  MaxSessions = 1
  MaxRequests = 1
  MaxDrops = 1
PROPERTY
  EditsNeedConfirmation
