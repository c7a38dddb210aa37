\* Up to two streams, layouts filled in in every order, records of up to four sources of every kind.
SPECIFICATION FormatsSpec
CONSTANTS
  None = None
  OtherStreams <- MCOtherStreams
  Names <- MCNames
  Flavors = {"flavor"}
  Given <- MCGiven
  Arrays <- MCArrays
  MaxStreams = 2
  MaxSources = 4
INVARIANTS WhatIsPassedIsWritten RoundTrip
