\* pss.h: a point is deducted from the tracking score.
CONSTANTS
  slot_length = 2
  symbol_sz = 1
  track_after = 2
  track_every = 2
  moving_avg_sz = 1
  MIN_PSR_THRESHOLD = 2
  BufSize = 60
  Ratio <- MCRatio
  Threshold <- MCThreshold
  PeakPos <- AlignedPeak
  Chunk <- HalfFrames
SPECIFICATION Spec
PROPERTIES ScoreLosesOnePoint
