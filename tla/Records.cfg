SPECIFICATION LiveSpec
CONSTANTS
  LabelOf <- MCLabelOf
  MaxKeysPerReq = 2
  MaxConcurrentReqs = 2
  DefaultKeyset = k1
  OtherKeyset = k2
  Declarations <- MCDeclarations
  Sources <- MCSources
  Batched <- MCBatched
  Labels <- MCLabels
  MaxRows = 2
  None = None
  Error = Error
INVARIANTS WellSealed OpensAsWritten AsksInScope QueryFinds
PROPERTIES ImplementsDataKeySource CallEnds
