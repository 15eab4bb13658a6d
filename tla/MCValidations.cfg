\* validateInvoice with the totals as its interface declares them and as create
\* passes them; a cent is four grains, a peso eight.
SPECIFICATION Spec
CONSTANTS
  Grain = 4
  Peso = 8
  LineSeqs <- ManyLines
  TaxSeqs <- ManyTaxes
  MaxLines = 2
  Textual <- Either
INVARIANTS
  DriftBounded CufePartsAddUp XmlStatesTheCufe XmlAddsUp
CHECK_DEADLOCK FALSE
