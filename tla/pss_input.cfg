\* pss_impl.cc:191: the call uses only the input it was given.
CONSTANTS
  slot_length = 2
  symbol_sz = 1
  track_after = 2
  track_every = 1
  moving_avg_sz = 1
  MIN_PSR_THRESHOLD = 2
  BufSize = 80
  Ratio <- MCRatio
  Threshold <- MCThreshold
  PeakPos <- EdgePeaks
  Chunk <- OddChunks
SPECIFICATION Spec
INVARIANTS CopiesOnlyInput
