------------------------------ MODULE PyBuffer ------------------------------
(***************************************************************************)
(* A content block of a record, from the moment the stream player reads it *)
(* (setBlock in csrc/reader/VRSReader.cpp) to the arrays Python makes of   *)
(* it (csrc/utils/PyBuffer.cpp), and the image buffers made from either.   *)
(*                                                                         *)
(* An array is no copy: it shows the memory of the block by a shape and    *)
(* strides.  pyvrs/record.py makes a new one at each access, and the first *)
(* access may rewrite the memory: samples are swapped to the byte order of *)
(* the machine in place, 24 bit samples are moved to a buffer of 32 bit    *)
(* ones.  A byte is <<"byte", k>> for the k-th one of the block as read,   *)
(* and <<"top", k>> for the byte a 24 bit sample is extended by above its  *)
(* highest byte, k.                                                        *)
(***************************************************************************)
EXTENDS Integers, FiniteSets, Sequences

CONSTANTS
  Images,       \* image blocks: [format, pixel, height, width, stride, raw, size]
  Audios,       \* audio blocks: [bits, bytes, big, channels, count, stride, size]
  PixelInfo,    \* what the library says of a pixel format: [bytes, channels]
  Conversions,  \* the image conversions in force when a block is read
  MaxArrays,    \* bounds the arrays made of one block
  None

(* The pixel formats, by how they are presented. *)
Floats == {"DEPTH32F", "RGB32F", "RGBA32F"}
Doubles == {"SCALAR64F"}
Shorts == {"GREY10", "GREY12", "GREY16", "RGB10", "RGB12", "BAYER10_GBRG"}
FirstPlane == {"YUV_I420_SPLIT", "YUV_420_NV12", "YUV_420_NV21"}
Packed == {"RAW10", "RAW10_BAYER_RGGB", "RAW10_BAYER_BGGR", "GREY10PACKED"}

(* The size Python is told the elements of an image have. *)
FormatSize(pixel) ==
  IF pixel \in Floats THEN 4 ELSE IF pixel \in Doubles THEN 8 ELSE IF pixel \in Shorts THEN 2 ELSE 1

(* The bytes of a pixel in its row: of the first plane, one. *)
RowBytes(pixel) == IF pixel \in FirstPlane THEN 1 ELSE PixelInfo[pixel].bytes

(* What the library says of pixel formats: the elements of a pixel are as  *)
(* large as their format, but for those the code presents in its own way.  *)
ASSUME PixelInfoAssumption ==
  /\ "GREY8" \in DOMAIN PixelInfo /\ PixelInfo["GREY8"].bytes = 1
  /\ \A p \in DOMAIN PixelInfo :
       LET info == PixelInfo[p] IN
       /\ info.bytes \in Nat /\ info.channels \in Nat \ {0}
       /\ CASE p = "YUY2"           -> info.bytes = 2
            [] p = "RGB_IR_RAW_4X4" -> info.bytes = 1
            [] OTHER -> p \in FirstPlane \cup Packed
                          \/ info.bytes \div info.channels = FormatSize(p)

ImageSpecType ==
  [format : {"RAW", "JPG", "PNG", "JXL", "VIDEO", "CUSTOM", "UNDEFINED"},
   pixel : DOMAIN PixelInfo, height : Nat, width : Nat, stride : Nat, raw : Nat, size : Nat]

AudioSpecType ==
  [bits : Nat, bytes : Nat, big : BOOLEAN, channels : Nat, count : Nat, stride : Nat, size : Nat]

(* raw is the library's getRawImageSize, at least the rows of the image.   *)
ASSUME PyBufferAssumption ==
  /\ Images \subseteq ImageSpecType /\ Audios \subseteq AudioSpecType
  /\ \A i \in Images : /\ i.format # "RAW" \/ i.raw >= i.height * i.stride
                       /\ i.stride >= i.width * RowBytes(i.pixel)
  /\ \A a \in Audios : /\ a.bits = 24 => a.bytes = 3
                       /\ a.stride >= a.channels * a.bytes
  /\ Conversions \subseteq {"Off", "RawBuffer", "Decompress", "Normalize", "NormalizeGrey8",
                      "Backdoor"}
  /\ MaxArrays \in Nat

VARIABLES
  block,   \* ContentBlockBuffer: content type, spec, bytes, structured, adjusted
  memory,  \* which allocation the block's bytes are: how often they were replaced
  arrays,  \* the arrays made of the block, in order
  image    \* the last ImageBuffer made, None for none or after an exception

vars == <<block, memory, arrays, image>>

AsRead(n) == [k \in 1..n |-> <<"byte", k - 1>>]

Block(content, spec, n, structured) ==
  [content |-> content, spec |-> spec, bytes |-> AsRead(n),
   structured |-> structured, adjusted |-> FALSE]

(* The spec of the frame an image decodes to: rows without padding.        *)
FrameSpec(spec) ==
  LET stride == IF spec.format = "RAW" THEN spec.stride
                ELSE spec.width * RowBytes(spec.pixel)
  IN [format |-> "RAW", pixel |-> spec.pixel, height |-> spec.height, width |-> spec.width,
      stride |-> stride,
      raw |-> IF spec.format = "RAW" THEN spec.raw ELSE spec.height * stride,
      size |-> IF spec.format = "RAW" THEN spec.raw ELSE spec.height * stride]

(* The formats normalizeFrame converts to, and a frame it has made, with   *)
(* rows without padding.  A frame it does not convert stays as it is.      *)
NormalFormats(grey16supported) ==
  DOMAIN PixelInfo \cap ({"GREY8", "RGB8"} \cup (IF grey16supported THEN {"GREY16"} ELSE {}))

NormalSpec(spec, pixel) ==
  LET stride == spec.width * RowBytes(pixel)
  IN [format |-> "RAW", pixel |-> pixel, height |-> spec.height, width |-> spec.width,
      stride |-> stride, raw |-> spec.height * stride, size |-> spec.height * stride]

NormalizeFrame(spec, grey16supported) ==
  {FrameSpec(spec)} \cup {NormalSpec(spec, p) : p \in NormalFormats(grey16supported)}

(* The unread bytes of the record as an image of one row of GREY8.         *)
BackdoorSpec(n) ==
  [format |-> "RAW", pixel |-> "GREY8", height |-> 1, width |-> n, stride |-> n,
   raw |-> n, size |-> n]

(* setBlock of an image: nothing of an empty one or one of unknown size;   *)
(* otherwise the bytes as they are, structured when they are raw pixels;   *)
(* or all that is left in the record; or the decoded frame, which may be   *)
(* converted; but nothing, unstructured, when it cannot be decoded.        *)
SetImage(i, conversion) ==
  CASE i.size = 0              -> {Block("image", i, 0, FALSE)}
    [] conversion = "Off"       -> {Block("image", i, i.size, i.format = "RAW")}
    [] conversion = "RawBuffer" -> {Block("image", i, i.size, FALSE)}
    [] conversion = "Backdoor"  -> {Block("image", BackdoorSpec(n), n, FALSE) :
                                      n \in {i.size, i.size + 1}}
    [] OTHER ->
         {Block("image", i, 0, FALSE)} \cup
         {Block("image", frame, frame.raw, TRUE) :
            frame \in IF conversion = "Decompress" THEN {FrameSpec(i)}
                      ELSE NormalizeFrame(i, conversion = "Normalize")}

(* setBlock of an audio block, and of one of any other content. *)
SetAudio(a) == Block("audio", a, a.size, TRUE)
SetCustom(n) == Block("custom", None, n, FALSE)

(* A record was read. *)
Init ==
  /\ block \in (UNION {SetImage(i, c) : i \in Images, c \in Conversions})
                 \cup {SetAudio(a) : a \in Audios} \cup {SetCustom(n) : n \in {0, 3}}
  /\ memory = 0 /\ arrays = <<>> /\ image = None

-----------------------------------------------------------------------------
(* Arrays.  item is the size of an element, format that of the Python      *)
(* format string it is given.                                              *)

Array(item, format, shape, strides) ==
  [memory |-> memory, item |-> item, format |-> format, shape |-> shape, strides |-> strides]

(* bufferInfoFromVector *)
Flat(bytes) == Array(1, 1, <<Len(bytes)>>, <<1>>)

(* How a pixel format is presented: only the first plane of several, YUY2  *)
(* as two channels, packed pixels as the bytes of their row, and, of a     *)
(* block only, RGB_IR_RAW_4X4 as one channel.                              *)
PixelLayout(spec, ofBlock) ==
  LET as(bytes, channels, width) == [bytes |-> bytes, channels |-> channels, width |-> width]
      info == PixelInfo[spec.pixel]
  IN CASE spec.pixel \in FirstPlane -> as(1, 1, spec.width)
       [] spec.pixel = "YUY2"       -> as(2, 2, spec.width)
       [] spec.pixel \in Packed     -> as(1, 1, spec.stride)
       [] spec.pixel = "RGB_IR_RAW_4X4" /\ ofBlock -> as(info.bytes, 1, spec.width)
       [] OTHER -> as(info.bytes, info.channels, spec.width)

(* Rows and columns, and channels when there are several. *)
ImageArray(spec, ofBlock) ==
  LET layout == PixelLayout(spec, ofBlock)
      item == layout.bytes \div layout.channels
      several == IF layout.channels > 1 THEN 1 ELSE 0
  IN Array(item, FormatSize(spec.pixel),
           SubSeq(<<spec.height, layout.width, layout.channels>>, 1, 2 + several),
           SubSeq(<<spec.stride, layout.bytes, item>>, 1, 2 + several))

(* Frames are taken to have no padding. *)
WidenedUnpadded(a, bytes) ==
  [k \in 1..(4 * a.count * a.channels) |->
     LET first == ((k - 1) \div 4) * 3
         place(j) == bytes[1 + first + (IF a.big THEN 2 - j ELSE j)]
     IN IF (k - 1) % 4 = 3 THEN <<"top", place(2)[2]>> ELSE place((k - 1) % 4)]

(* A buffer of 32 bit samples made of the 24 bit ones: each is put in the  *)
(* machine's byte order and extended.                                      *)
Widened(a, bytes) ==
  [k \in 1..(4 * a.count * a.channels) |->
     LET sample == (k - 1) \div 4
         first == (sample \div a.channels) * a.stride + (sample % a.channels) * 3
         place(j) == bytes[1 + first + (IF a.big THEN 2 - j ELSE j)]
     IN IF (k - 1) % 4 = 3 THEN <<"top", place(2)[2]>> ELSE place((k - 1) % 4)]

(* The byte order of words as wide as a frame is reversed.  The pointer to *)
(* them is both moved and indexed by the channel, so that a frame reaches  *)
(* every other word from its own on, also behind the end of the buffer.    *)
Reversals(a, w) == Cardinality({c \in 0..(a.channels - 1) : w - 2 * c \in 0..(a.count - 1)})

Swapped(a, bytes) ==
  [k \in 1..Len(bytes) |->
     LET w == (k - 1) \div a.stride IN
     IF Reversals(a, w) % 2 = 1 THEN bytes[w * a.stride + a.stride - ((k - 1) % a.stride)]
                                ELSE bytes[k]]

(* Samples are widened, or swapped, at every access. *)
AdjustAgain(a) ==
  /\ a.bits = 24 \/ ~a.big \/ a.stride \in {1, 2, 4, 8}
  /\ block' = [block EXCEPT !.adjusted = TRUE,
                            !.bytes = IF a.bits = 24 THEN Widened(a, @)
                                      ELSE IF a.big /\ a.stride > 1 THEN Swapped(a, @)
                                      ELSE @]
  /\ memory' = IF a.bits = 24 THEN memory + 1 ELSE memory

(* What an access does to the bytes of an audio block, once: 24 bit        *)
(* samples are widened; other big endian ones are swapped, but frames of   *)
(* other than 1, 2, 4 and 8 bytes are refused with an exception.           *)
Adjust(a) ==
  IF block.adjusted \/ (a.bits # 24 /\ (~a.big \/ a.stride = 1))
    THEN UNCHANGED <<block, memory>>
    ELSE /\ a.bits = 24 \/ a.stride \in {2, 4, 8}
         /\ block' = [block EXCEPT !.adjusted = TRUE,
                                   !.bytes = IF a.bits = 24 THEN Widened(a, @) ELSE Swapped(a, @)]
         /\ memory' = IF a.bits = 24 THEN memory + 1 ELSE memory

AudioArray(a) ==
  LET bytes == IF a.bits = 24 THEN 4 ELSE a.bytes
      stride == IF a.bits = 24 THEN 4 * a.channels ELSE a.stride
  IN [Array(bytes, bytes, <<a.count, a.channels>>, <<stride, bytes>>) EXCEPT !.memory = memory']

(* The size is not looked at. *)
StructuredAnyway(content) == block.structured /\ block.content = content

(* A block is presented by its spec only if it has the bytes for it. *)
Structured(content) ==
  /\ block.structured /\ block.content = content
  /\ Len(block.bytes) = IF content = "image" THEN block.spec.raw
                                             ELSE block.spec.stride * block.spec.count

(* convertContentBlockBuffer: an image is presented by its spec, audio is  *)
(* adjusted and presented by frames and channels, the rest is bytes.       *)
ConvertImage ==
  /\ Structured("image")
  /\ arrays' = Append(arrays, ImageArray(block.spec, TRUE))
  /\ UNCHANGED <<block, memory>>

ConvertAudio ==
  /\ Structured("audio")
  /\ Adjust(block.spec)
  /\ arrays' = Append(arrays, AudioArray(block.spec))

ConvertBytes ==
  /\ ~Structured("image") /\ ~Structured("audio")
  /\ arrays' = Append(arrays, Flat(block.bytes))
  /\ UNCHANGED <<block, memory>>

(* np.asarray(record.image_blocks[k]) and the like. *)
ConvertContentBlockBuffer ==
  /\ Len(arrays) < MaxArrays
  /\ ConvertImage \/ ConvertAudio \/ ConvertBytes
  /\ UNCHANGED image

-----------------------------------------------------------------------------
(* Image buffers.                                                          *)

(* An ImageBuffer, or an exception, is what the last call made. *)
MakeImage(spec, bytes) ==
  /\ image' = [spec |-> spec, bytes |-> bytes]
  /\ UNCHANGED <<block, memory, arrays>>
Raise == image' = None /\ UNCHANGED <<block, memory, arrays>>

(* The images there are: the block's and the last image buffer. *)
ImageSpecs == (IF block.content = "image" THEN {block.spec} ELSE {})
                \cup (IF image = None THEN {} ELSE {image.spec})

(* jpgCompress, jxlCompress: of raw images only, and they may fail. *)
Compress(spec, format) ==
  \/ /\ spec.format = "RAW"
     /\ MakeImage([spec EXCEPT !.format = format, !.raw = 0], <<>>)
  \/ Raise

(* decompress: of compressed images only, and it may fail. *)
Decompress(spec) ==
  \/ /\ spec.format \notin {"RAW", "CUSTOM", "UNDEFINED"}
     /\ MakeImage(FrameSpec(spec), AsRead(FrameSpec(spec).raw))
  \/ Raise

(* An array has up to three dimensions. *)
Length(array, d) == IF d <= Len(array.shape) THEN array.shape[d] ELSE 1

(* Where in memory the element of a row, column and channel of an array is. *)
Offset(array, row, column, channel) ==
  (row - 1) * array.strides[1]
    + (IF Len(array.shape) > 1 THEN (column - 1) * array.strides[2] ELSE 0)
    + (IF Len(array.shape) > 2 THEN (channel - 1) * array.strides[3] ELSE 0)

Offsets(array) ==
  {Offset(array, r, c, h) :
     r \in 1..Length(array, 1), c \in 1..Length(array, 2), h \in 1..Length(array, 3)}

BytesOf(array) == array.item * Length(array, 1) * Length(array, 2) * Length(array, 3)

(* What Python sees of an array, element by element: the channels of a     *)
(* column, the columns of a row, the rows.                                 *)
Shown(array, bytes) ==
  [k \in 1..BytesOf(array) |->
     LET element == (k - 1) \div array.item
         pixel == element \div Length(array, 3)
     IN bytes[1 + Offset(array, 1 + (pixel \div Length(array, 2)),
                         1 + (pixel % Length(array, 2)), 1 + (element % Length(array, 3)))
                + ((k - 1) % array.item)]]

(* As many bytes are taken as the array has, whatever the spec says. *)
InitBytesUnchecked(spec, array) ==
  IF Len(block.bytes) < BytesOf(array) THEN Raise
  ELSE MakeImage(spec, SubSeq(block.bytes, 1, BytesOf(array)))

(* initBytesFromPyBuffer: an ImageBuffer of a spec and an array.  The size *)
(* of the array must be that of a raw image; the bytes are then taken one  *)
(* after the other, whatever the strides.                                  *)
InitBytesFromPyBuffer(spec, array) ==
  IF \/ spec.format = "UNDEFINED"
     \/ spec.format = "RAW" /\ BytesOf(array) # spec.raw
  THEN Raise
  ELSE MakeImage(spec, SubSeq(block.bytes, 1, BytesOf(array)))

(* An array of the block handed back, to be written as the image it was.   *)
WriteBack(k) ==
  /\ block.content = "image" /\ arrays[k].memory = memory
  /\ InitBytesFromPyBuffer(block.spec, arrays[k])

(* convertImageBlockBuffer: raw images with the bytes for it are presented *)
(* by their spec, all others as bytes.                                     *)
ConvertImageBlockBuffer ==
  IF image.spec.format = "RAW" /\ Len(image.bytes) = image.spec.raw
    THEN ImageArray(image.spec, FALSE)
    ELSE Flat(image.bytes)

Next ==
  \/ ConvertContentBlockBuffer
  \/ \E spec \in ImageSpecs, format \in {"JPG", "JXL"} : Compress(spec, format)
  \/ \E spec \in ImageSpecs : Decompress(spec)
  \/ \E k \in DOMAIN arrays : WriteBack(k)

Spec == Init /\ [][Next]_vars

-----------------------------------------------------------------------------
(* Properties.                                                             *)

InBounds(array, bytes) == \A o \in Offsets(array) : o + array.item <= Len(bytes)

(* Every array, of a block or of an image buffer, is a valid buffer: all   *)
(* of it is inside the memory it was made of, which no later access has    *)
(* freed, and its elements are as large as their format says.  Of the      *)
(* elements of an image buffer this leaves RGB_IR_RAW_4X4 out, which only  *)
(* a block presents as one channel.                                        *)
ArraysAreValid ==
  /\ \A k \in DOMAIN arrays : /\ arrays[k].memory = memory
                              /\ InBounds(arrays[k], block.bytes)
                              /\ arrays[k].item = arrays[k].format
  /\ image # None => InBounds(ConvertImageBlockBuffer, image.bytes)
  /\ image # None /\ image.spec.pixel # "RGB_IR_RAW_4X4" =>
       ConvertImageBlockBuffer.item = ConvertImageBlockBuffer.format

(* An access does not change what the arrays made before it show.          *)
ArraysKeepTheirBytes ==
  [][arrays # <<>> => block'.bytes = block.bytes /\ memory' = memory]_vars

(* Byte j, the lowest first, of a recorded sample. *)
Recorded(a, frame, channel, j) ==
  <<"byte", frame * a.stride + channel * a.bytes + (IF a.big THEN a.bytes - 1 - j ELSE j)>>

(* The byte order of samples of one channel without padding can be swapped *)
(* by frames; see the README for the others.                               *)
Swappable(a) == a.bits = 24 \/ ~a.big \/ (a.channels = 1 /\ a.stride = a.bytes)

(* A structured array of an audio block has the value recorded for each    *)
(* channel of each frame, in the machine's byte order, 24 bit samples      *)
(* extended to 32, at the first access and at every later one.             *)
SamplesAreRecorded ==
  \A k \in DOMAIN arrays :
    LET array == arrays[k]  a == block.spec IN
    block.content = "audio" /\ Len(array.shape) = 2 /\ Swappable(a) =>
      \A frame \in 0..(a.count - 1), channel \in 0..(a.channels - 1), j \in 0..(array.item - 1) :
        block.bytes[1 + frame * array.strides[1] + channel * array.strides[2] + j] =
          IF j = a.bytes THEN <<"top", Recorded(a, frame, channel, j - 1)[2]>>
                         ELSE Recorded(a, frame, channel, j)

(* An array of an image that is written back as an image of the same spec  *)
(* is refused, or gives the elements it shows: an array with padded rows,  *)
(* or of one plane of several, must not pass for the whole image.          *)
WrittenBackIsShown ==
  [][\A k \in DOMAIN arrays :
       WriteBack(k) /\ image' # None => image'.bytes = Shown(arrays[k], block.bytes)]_vars

(* Every access to a block of 24 bit audio gives the 32 bit samples: "we   *)
(* create a new buffer, with 32 bit values" (csrc/utils/PyBuffer.cpp:325). *)
AudioStaysStructured ==
  \A j, k \in DOMAIN arrays : block.content = "audio" => arrays[j].shape = arrays[k].shape
=============================================================================
