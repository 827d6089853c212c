----------------------------- MODULE MCCsvImport -----------------------------
EXTENDS CsvImport, TLC

\* Keys are compared for equality only.
KeySymmetry == Permutations(Keys)

=============================================================================
