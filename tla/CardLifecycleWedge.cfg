\* A target left alone by people; one lost runner or failed call.
SPECIFICATION Spec
CONSTANTS
  MaxCards = 4
  MaxActs = 2
  MaxReopens = 0
  MaxBadScans = 0
  MaxFaults = 1
PROPERTY WantedIsQueued
