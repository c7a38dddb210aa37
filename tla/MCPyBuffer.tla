----------------------------- MODULE MCPyBuffer -----------------------------
(* Instances of PyBuffer for TLC. *)
EXTENDS PyBuffer, TLC

MCPixelInfo ==
  [p \in {"GREY8", "RGB8", "GREY16", "RGB32F", "SCALAR64F", "YUY2", "RAW10", "YUV_420_NV12",
          "RGB_IR_RAW_4X4"} |->
     CASE p \in {"GREY8", "RAW10", "YUV_420_NV12"} -> [bytes |-> 1, channels |-> 1]
       [] p = "RGB8"           -> [bytes |-> 3, channels |-> 3]
       [] p = "GREY16"         -> [bytes |-> 2, channels |-> 1]
       [] p = "RGB32F"         -> [bytes |-> 12, channels |-> 3]
       [] p = "SCALAR64F"      -> [bytes |-> 8, channels |-> 1]
       [] p = "YUY2"           -> [bytes |-> 2, channels |-> 2]
       [] p = "RGB_IR_RAW_4X4" -> [bytes |-> 1, channels |-> 3]]

Image(format, pixel, height, width, stride, raw, size) ==
  [format |-> format, pixel |-> pixel, height |-> height, width |-> width,
   stride |-> stride, raw |-> raw, size |-> size]

\* Rows with and without padding, a second plane, packed pixels, a block that is
\* shorter than its image, and compressed images.
MCImages ==
  {Image("RAW", "GREY8", 2, 2, 2, 4, 4), Image("RAW", "GREY8", 2, 2, 3, 6, 6),
   Image("RAW", "GREY8", 2, 2, 2, 4, 3), Image("RAW", "RGB8", 2, 1, 3, 6, 6),
   Image("RAW", "GREY16", 2, 1, 2, 4, 4), Image("RAW", "RGB32F", 1, 1, 12, 12, 12),
   Image("RAW", "SCALAR64F", 1, 1, 8, 8, 8), Image("RAW", "YUY2", 2, 1, 2, 4, 4),
   Image("RAW", "RAW10", 2, 2, 3, 6, 6), Image("RAW", "YUV_420_NV12", 2, 2, 2, 6, 6),
   Image("RAW", "RGB_IR_RAW_4X4", 2, 2, 2, 4, 4),
   Image("JPG", "RGB8", 2, 1, 3, 6, 2), Image("VIDEO", "GREY8", 2, 2, 2, 4, 2),
   Image("UNDEFINED", "GREY8", 2, 2, 2, 4, 0)}

Audio(bits, big, channels, count, stride, size) ==
  [bits |-> bits, bytes |-> bits \div 8, big |-> big, channels |-> channels, count |-> count,
   stride |-> stride, size |-> size]

\* One and two channels, frames with and without padding, a block that is too short.
MCAudios ==
  {Audio(bits, big, channels, 2, stride, 2 * stride) :
     bits \in {16, 24, 32, 64}, big \in BOOLEAN, channels \in {1, 2}, stride \in {2, 3, 4, 6, 8, 16}}
   \cup {Audio(8, FALSE, 2, 2, 2, 4), Audio(16, FALSE, 1, 2, 2, 3)}

MCAudiosThatFit == {a \in MCAudios : a.stride >= a.channels * a.bytes}
MCConversions == {"Off", "RawBuffer", "Decompress", "Normalize", "NormalizeGrey8", "Backdoor"}
=============================================================================
