-------------------------- MODULE MCRecordFormats --------------------------
(* Instances of RecordFormats for TLC. *)
EXTENDS RecordFormats

\* A stream with two sized content blocks, next to those of VRSWriter.
MCOtherStreams ==
  [two_blocks |-> PyStream("", PyRecordFormat(<<MyConfiguration>>, <<>>),
                           PyRecordFormat(<<MyMetadata>>, <<1, 2>>))]

\* Each of these is unknown to one of the two functions, the last one to both.
MCNames == {"sample_with_multiple_data_layout", "two_blocks", "flavored_sample", "unknown"}

\* A piece of each layout, an array too long for its piece, and no piece at all.
MCGiven ==
  {[label |-> "image_width", value |-> "w"], [label |-> "doubles", value |-> <<"v">>],
   [label |-> "doubles", value |-> <<"v", "v", "v", "v">>], [label |-> "unknown", value |-> "w"]}

\* Contiguous arrays; with one of another step WhatIsPassedIsWritten says nothing.
MCArrays == {[id |-> "x", size |-> 1, step |-> 1], [id |-> "y", size |-> 2, step |-> 1]}
=============================================================================
