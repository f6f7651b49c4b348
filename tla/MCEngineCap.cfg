CONSTANTS
  Recordings <- MCRecordings
  Length = 9
  Chunks = {}
  Cap = 5
  Left = 3
  DecodeStride = 2
  Horizon = 2
  StreakMax = 2
  Silence = 1
  Spill = 2
  Settle = 1
  EndDrift = 1
  Clips <- MCClips
  Packets = {0, 1, 3}
  Staging = 2
  Frame = 2
  VadFrame = 3
  Pull = 4
  Extras = 2
  Drift = 1
  MaxDrift = 2
  MaxOverlap = 3
  Lower <- MCLower
  Fold <- MCLower
  Heads <- MCHeads
  Frames = 1
  MaxCalls = 1
  MAX_TOKENS_PER_STEP = 2
  MAX_BIAS_OVERRIDES_PER_STEP = 1
  EndpointBlanks = 2
  Lattices <- MCLattices
  Glossaries <- MCGlossaries
  Widths <- MCWidths
  Scripts <- MCScripts
  MaxTokens = 1
  MaxGap = 1
  Offsets = {7}
  NumberWords <- MCNumberWords
  Transcripts <- MCTranscripts
  Pieces <- MCPieces
  Parts <- MCParts
  DigitPieces = 2
  WINDOW_WORDS = 6
  WINDOW_OVERLAP_WORDS = 2
  MAX_WINDOW_SUBTOKENS = 9
  Boots <- MCBoots
  Configures <- MCConfigures
  Vocabulary = {"a", "b"}
  MaxWords = 2
  f1 = f1  f2 = f2
  Callers = {f1, f2}
  Nobody = Nobody
  Asks <- MCRequests
  Models = {"absent", "good", "corrupt"}
SPECIFICATION MCSpec
INVARIANT CapKeepsText
CHECK_DEADLOCK FALSE
