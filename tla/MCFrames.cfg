SPECIFICATION Spec
CONSTANTS
  ErrorCodes <- MCErrorCodes
  StubAt <- MCStubAt
INVARIANTS
  GatesLead
  HandlerSeesInterrupt
  ReturnRestores
