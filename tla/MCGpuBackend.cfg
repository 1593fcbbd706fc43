\* Every plane of three by two pixels of three levels of a byte, up to mirror images.
CONSTANTS
  Width = 3
  Height = 2
  Top = 255
  MaxRadius = 2
  PoolSize = 6
  Pipelines <- Kinds
  Frames <- Darkest
  MaxFrames = 1
SPECIFICATION Spec
CHECK_DEADLOCK FALSE
INVARIANT MorphologyLaws
INVARIANT ColourLaws
PROPERTY GpuExact
