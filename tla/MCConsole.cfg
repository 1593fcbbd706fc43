\* The code's own timing in units of 300 ms (1000 ms and 2000 ms rounded up);
\* two of the three known models have a GGUF; two settings of the slider; three
\* operator actions that reach the child among two crashes or failed forks.
CONSTANTS
  Models = {"qwen", "mistral"}
  Known <- KnownModels
  Contexts = {4096, 8192}
  HealthInterval = 1
  Backoff = 4
  ProbeTimeout = 7
  MaxOps = 3
  MaxMishaps = 2
SPECIFICATION ConsoleSpec
INVARIANT ProbeHasChild
INVARIANT AskedExitsOnly
INVARIANT NoSilentFlip
INVARIANT LabelTrue
INVARIANT UnloadedStaysDown
PROPERTY Settles
PROPERTY ReloadEnds
