SPECIFICATION Spec
CONSTANTS
  MaxEdits = 2
  Fills <- MCFills
  Contents <- MCContents
  AfterView <- MCAfterView
  Unset <- MCUnset
INVARIANTS
  TypeOK
  OwnHandler
  FieldsSurvive
  DataSurvives
PROPERTY
  Delivered
