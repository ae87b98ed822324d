SPECIFICATION Spec
CONSTANTS
  Bits <- MCBits
  Programs <- MCPrograms
  Library <- MCLibrary
  FirstValid = 10
  HeapLow = 42
  HeapEnd = 47
  StackLow = 50
  StackTop = 85
  MaxCalls = 6
INVARIANTS
  OutcomeRight
  TraceRight
PROPERTY CallsNest
