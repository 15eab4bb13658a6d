\* validateInvoice as create calls it.
SPECIFICATION Spec
CONSTANTS
  Grain = 4
  Peso = 8
  LineSeqs <- ManyLines
  TaxSeqs <- ManyTaxes
  MaxLines = 2
  Textual <- AsCalled
INVARIANTS
  ValidIsAccepted
CHECK_DEADLOCK FALSE
