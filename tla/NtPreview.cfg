SPECIFICATION PSpec
CONSTANTS
  k1 = k1
  k2 = k2
  v1 = v1
  v2 = v2
  None = None
  Removed = Removed
  Key <- MCKey
  Value <- MCValue
  MaxSeq = 3
SYMMETRY MCSymmetry
INVARIANTS AcknowledgedRecovered SessionReadsWhatItPromised PreflightIsRight
PROPERTIES ConfirmedPayloadsImmutable
