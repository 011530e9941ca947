\* The scoring, the tags, the buffers, the input window, and what is eventual.
CONSTANTS
  slot_length = 2
  symbol_sz = 1
  track_after = 3
  track_every = 2
  moving_avg_sz = 5
  MIN_PSR_THRESHOLD = 2
  BufSize = 60
  Ratio <- MCRatio
  Threshold <- MCThreshold
  PeakPos <- EdgePeaks
  Chunk <- OddChunks
SPECIFICATION FairSpec
INVARIANTS TypeOK ScoreMatchesTracking LossAnnounced PsrMeanIsFresh
  CfoMeanIsOfThisCell ConvolutionNotMixed AlignedWhileTracking
  ConsumesLessThanInput
PROPERTIES StreamContract ContiguousBetweenSearches TracksSteadySignal
  LosesDeadSignal
