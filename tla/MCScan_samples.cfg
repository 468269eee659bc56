SPECIFICATION Spec
CONSTANTS
  Width = 4
  Height = 3
  Upper = 6
  Scans <- IstScan
INVARIANT SamplesSound
