---------------------------- MODULE PyBufferProofs ----------------------------
(***************************************************************************)
(* Theorems about PyBuffer, for any image and audio block, any number of   *)
(* arrays made of it and any pixel format the library knows.               *)
(***************************************************************************)
EXTENDS PyBuffer, SequenceTheorems, FiniteSetTheorems, TLAPS

-----------------------------------------------------------------------------
(* The state, typed, and what the properties rest on.                      *)

ArraySet == [memory : Nat, item : Nat, format : Nat, shape : Seq(Nat), strides : Seq(Nat)]

(* The rows of a raw image are within its size, and the pixels of a row    *)
(* within its stride.                                                      *)
SpecOK(spec) ==
  /\ spec \in ImageSpecType
  /\ spec.format = "RAW" => /\ spec.raw >= spec.height * spec.stride
                            /\ spec.stride >= spec.width * RowBytes(spec.pixel)

BlockShape ==
  block = [content |-> block.content, spec |-> block.spec, bytes |-> block.bytes,
           structured |-> block.structured, adjusted |-> block.adjusted]

Typed ==
  /\ BlockShape /\ Len(block.bytes) \in Nat /\ block.adjusted \in BOOLEAN
  /\ memory \in Nat /\ arrays \in Seq(ArraySet)
  /\ block.content = "image" =>
       SpecOK(block.spec) /\ (block.structured => block.spec.format = "RAW")
  /\ block.content = "audio" => block.spec \in Audios
  /\ image # None => SpecOK(image.spec) /\ Len(image.bytes) \in Nat

(* Samples that are presented as they were read. *)
AsRecorded(a) == a.bits # 24 /\ (~a.big \/ a.stride = 1)

(* The bytes of an audio block are those read, or those the one access     *)
(* that adjusts them leaves.                                               *)
AudioInv ==
  block.content = "audio" =>
    LET a == block.spec IN
    IF block.adjusted
      THEN /\ a.size = a.stride * a.count /\ ~AsRecorded(a)
           /\ a.bits = 24 \/ a.stride \in {2, 4, 8}
           /\ block.bytes = IF a.bits = 24 THEN Widened(a, AsRead(a.size))
                                           ELSE Swapped(a, AsRead(a.size))
      ELSE block.bytes = AsRead(a.size)

(* Once there is an array, nothing is left to adjust. *)
KeepInv ==
  arrays # <<>> /\ Structured("audio") => block.adjusted \/ AsRecorded(block.spec)

(* An array of frames and channels shows samples that are adjusted.        *)
FramesOK(array) ==
  block.content = "audio" /\ Len(array.shape) = 2 =>
    LET a == block.spec IN
    /\ block.adjusted \/ AsRecorded(a)
    /\ a.size = a.stride * a.count
    /\ array.item = IF a.bits = 24 THEN 4 ELSE a.bytes
    /\ array.strides = <<IF a.bits = 24 THEN 4 * a.channels ELSE a.stride, array.item>>

(* An array of an image presents the bytes there are, by the spec or as    *)
(* they come.                                                              *)
ImageOK(array) ==
  block.content = "image" =>
    array = Flat(block.bytes) \/ (Structured("image") /\ array = ImageArray(block.spec, TRUE))

ArrayOK(array) ==
  /\ array.memory = memory /\ InBounds(array, block.bytes) /\ array.item = array.format
  /\ FramesOK(array) /\ ImageOK(array)

ArraysInv == \A k \in DOMAIN arrays : ArrayOK(arrays[k])

IInv == Typed /\ AudioInv /\ KeepInv /\ ArraysInv

-----------------------------------------------------------------------------
(* The offsets of an array of one, two or three dimensions end within a    *)
(* memory that its rows fit in.                                            *)

LEMMA MulLe ==
  \A a, b, c \in Nat : a <= b => a * c <= b * c
<1>1. ASSUME NEW a \in Nat, NEW b \in Nat, NEW c \in Nat, a <= b PROVE a * c <= b * c
  <2>1. PICK d \in Nat : b = a + d
    <3>1. b - a \in Nat /\ b = a + (b - a) BY <1>1
    <3> QED BY <3>1
  <2>2. b * c = a * c + d * c BY <2>1
  <2>3. d * c \in Nat /\ a * c \in Nat OBVIOUS
  <2> QED BY <2>2, <2>3
<1> QED BY <1>1

LEMMA StepInside ==
  \A n \in Nat, d \in Nat : \A i \in 1..n :
    (i - 1) * d \in Nat /\ (i - 1) * d + d <= n * d /\ n * d \in Nat
<1>1. ASSUME NEW n \in Nat, NEW d \in Nat, NEW i \in 1..n
      PROVE  (i - 1) * d \in Nat /\ (i - 1) * d + d <= n * d /\ n * d \in Nat
  <2>1. i \in Nat /\ i - 1 \in Nat /\ i <= n OBVIOUS
  <2>2. i * d <= n * d BY <2>1, MulLe
  <2>3. i * d = (i - 1) * d + d BY <2>1
  <2>4. (i - 1) * d \in Nat /\ n * d \in Nat BY <2>1
  <2> QED BY <2>2, <2>3, <2>4
<1> QED BY <1>1

LEMMA OffsetsInside ==
  ASSUME NEW A \in Nat, NEW B \in Nat, NEW C \in Nat, NEW item \in Nat, NEW step \in Nat,
         NEW stride \in Nat, NEW length \in Nat,
         C + item <= step, B + step <= stride, A + stride <= length
  PROVE  A + B + C + item <= length
OBVIOUS

LEMMA LeTrans == \A a, b, x, c \in Nat : a + b <= x /\ x <= c => a + b <= c
OBVIOUS

(* The offset of an element. *)
LEMMA OffsetForm ==
  ASSUME NEW array, NEW o \in Offsets(array)
  PROVE  \E r \in 1..Length(array, 1), c \in 1..Length(array, 2), h \in 1..Length(array, 3) :
           o = (r - 1) * array.strides[1]
                 + (IF Len(array.shape) > 1 THEN (c - 1) * array.strides[2] ELSE 0)
                 + (IF Len(array.shape) > 2 THEN (h - 1) * array.strides[3] ELSE 0)
BY DEF Offsets, Offset

LEMMA QuotientFits ==
  \A a \in Nat, b \in Nat \ {0} : a \div b \in Nat /\ b * (a \div b) <= a /\ a \div b <= a
<1>1. ASSUME NEW a \in Nat, NEW b \in Nat \ {0} PROVE a \div b \in Nat /\ b * (a \div b) <= a
  OBVIOUS
<1>2. ASSUME NEW a \in Nat, NEW b \in Nat \ {0} PROVE a \div b <= a
  <2>1. PICK q : q = a \div b OBVIOUS
  <2>2. q \in Nat /\ b * q <= a BY <2>1, <1>1
  <2>3. 1 * q <= b * q BY <2>2, MulLe, 1 \in Nat, b \in Nat, 1 <= b
  <2>4. b * q \in Nat BY <2>2
  <2> QED BY <2>1, <2>2, <2>3, <2>4
<1> QED BY <1>1, <1>2

LEMMA DivMod ==
  \A q \in Nat, d \in Nat \ {0} : \A r \in 0..(d - 1) :
    (q * d + r) \div d = q /\ (q * d + r) % d = r
<1>1. ASSUME NEW q \in Nat, NEW d \in Nat \ {0}, NEW r \in 0..(d - 1)
      PROVE  (q * d + r) \div d = q /\ (q * d + r) % d = r
  <2>1. PICK x : x = q * d + r OBVIOUS
  <2>2. x \in Nat /\ d \in Int /\ d > 0
    <3>1. q * d \in Nat OBVIOUS
    <3> QED BY <2>1, <3>1
  <2>3. PICK Q, R : Q = x \div d /\ R = x % d OBVIOUS
  <2>4. Q \in Nat /\ R \in 0..(d - 1) /\ x = Q * d + R BY <2>2, <2>3
  <2>5. q * d \in Nat /\ Q * d \in Nat /\ (q + 1) * d = q * d + d /\ (Q + 1) * d = Q * d + d BY <2>4
  <2>6. ~(q + 1 <= Q)
    <3>1. q + 1 <= Q => (q + 1) * d <= Q * d BY <2>4, MulLe, q + 1 \in Nat
    <3> QED BY <3>1, <2>1, <2>4, <2>5
  <2>7. ~(Q + 1 <= q)
    <3>1. Q + 1 <= q => (Q + 1) * d <= q * d BY <2>4, MulLe, Q + 1 \in Nat
    <3> QED BY <3>1, <2>1, <2>4, <2>5
  <2>8. Q = q BY <2>4, <2>6, <2>7
  <2>9. R = r BY <2>1, <2>4, <2>5, <2>8
  <2> QED BY <2>1, <2>3, <2>8, <2>9
<1> QED BY <1>1

LEMMA PairOrTriple ==
  /\ \A s \in Seq(Nat) : Len(s) = 3 => s = <<s[1], s[2], s[3]>>
  /\ \A s \in Seq(Nat) : Len(s) = 2 => s = <<s[1], s[2]>>
<1>1. ASSUME NEW s \in Seq(Nat), Len(s) = 3 PROVE s = <<s[1], s[2], s[3]>>
  <2> DEFINE t == <<s[1], s[2], s[3]>>
  <2>a. \A i \in 1..Len(s) : s[i] \in Nat BY ElementOfSeq
  <2>b. 1 \in 1..3 /\ 2 \in 1..3 /\ 3 \in 1..3 OBVIOUS
  <2>1. s[1] \in Nat /\ s[2] \in Nat /\ s[3] \in Nat BY <1>1, <2>a, <2>b
  <2>2. t \in Seq(Nat) /\ Len(t) = 3 BY <2>1
  <2>3. \A i \in 1..3 : s[i] = t[i] OBVIOUS
  <2> HIDE DEF t
  <2>4. s = t BY <1>1, <2>2, <2>3, SeqEqual
  <2> QED BY <2>4 DEF t
<1>2. ASSUME NEW s \in Seq(Nat), Len(s) = 2 PROVE s = <<s[1], s[2]>>
  <2> DEFINE t == <<s[1], s[2]>>
  <2>1. s[1] \in Nat /\ s[2] \in Nat BY <1>2
  <2>2. t \in Seq(Nat) /\ Len(t) = 2 BY <2>1
  <2>3. \A i \in 1..2 : s[i] = t[i] OBVIOUS
  <2> HIDE DEF t
  <2>4. s = t BY <1>2, <2>2, <2>3, SeqEqual
  <2> QED BY <2>4 DEF t
<1> QED BY <1>1, <1>2

LEMMA FirstOf ==
  \A a, b, c \in Nat :
    SubSeq(<<a, b, c>>, 1, 3) = <<a, b, c>> /\ SubSeq(<<a, b, c>>, 1, 2) = <<a, b>>
<1>1. ASSUME NEW a \in Nat, NEW b \in Nat, NEW c \in Nat
      PROVE  /\ SubSeq(<<a, b, c>>, 1, 3) = <<a, b, c>>
             /\ SubSeq(<<a, b, c>>, 1, 2) = <<a, b>>
  <2> DEFINE s == <<a, b, c>>
  <2>1. s \in Seq(Nat) /\ Len(s) = 3 /\ s[1] = a /\ s[2] = b /\ s[3] = c OBVIOUS
  <2> HIDE DEF s
  <2>2. /\ SubSeq(s, 1, 3) \in Seq(Nat) /\ Len(SubSeq(s, 1, 3)) = 3
        /\ SubSeq(s, 1, 3)[1] = a /\ SubSeq(s, 1, 3)[2] = b /\ SubSeq(s, 1, 3)[3] = c
    BY <2>1, SubSeqProperties
  <2>3. /\ SubSeq(s, 1, 2) \in Seq(Nat) /\ Len(SubSeq(s, 1, 2)) = 2
        /\ SubSeq(s, 1, 2)[1] = a /\ SubSeq(s, 1, 2)[2] = b
    BY <2>1, SubSeqProperties
  <2>4. SubSeq(s, 1, 3) = <<a, b, c>> BY <2>2, PairOrTriple
  <2>5. SubSeq(s, 1, 2) = <<a, b>> BY <2>3, PairOrTriple
  <2> QED BY <2>4, <2>5 DEF s
<1> QED BY <1>1

LEMMA FlatOffsets ==
  ASSUME NEW array, NEW n \in Nat, array.shape = <<n>>, array.strides = << 1 >>, array.item = 1,
         NEW bytes, Len(bytes) \in Nat, n <= Len(bytes)
  PROVE  InBounds(array, bytes)
<1>1. Len(array.shape) = 1 /\ array.shape[1] = n /\ array.strides[1] = 1 OBVIOUS
<1>2. ASSUME NEW o \in Offsets(array) PROVE o + array.item <= Len(bytes)
  <2>1. PICK r \in 1..n : o = (r - 1) * 1 + 0 + 0 BY <1>1 DEF Offsets, Offset, Length
  <2> QED BY <2>1
<1> QED BY <1>2 DEF InBounds

LEMMA PlaneOffsets ==
  ASSUME NEW array, NEW rows \in Nat, NEW columns \in Nat, NEW stride \in Nat, NEW step \in Nat,
         array.shape = <<rows, columns>>, array.strides = <<stride, step>>,
         array.item \in Nat, array.item <= step, columns * step <= stride,
         NEW bytes, Len(bytes) \in Nat, rows * stride <= Len(bytes)
  PROVE  InBounds(array, bytes)
<1>1. /\ Len(array.shape) = 2 /\ array.strides[1] = stride /\ array.strides[2] = step
      /\ Length(array, 1) = rows /\ Length(array, 2) = columns /\ Length(array, 3) = 1
  BY DEF Length
<1>2. ASSUME NEW o \in Offsets(array) PROVE o + array.item <= Len(bytes)
  <2>1. PICK r \in 1..rows, c \in 1..columns : o = (r - 1) * stride + (c - 1) * step + 0
    <3>1. PICK r \in 1..Length(array, 1), c \in 1..Length(array, 2), h \in 1..Length(array, 3) :
            o = (r - 1) * array.strides[1]
                  + (IF Len(array.shape) > 1 THEN (c - 1) * array.strides[2] ELSE 0)
                  + (IF Len(array.shape) > 2 THEN (h - 1) * array.strides[3] ELSE 0)
      BY <1>2, OffsetForm
    <3>2. Len(array.shape) > 1 /\ ~(Len(array.shape) > 2) BY <1>1
    <3> QED BY <3>1, <3>2, <1>1, Zenon
  <2>2. /\ (r - 1) * stride \in Nat /\ (r - 1) * stride + stride <= rows * stride
        /\ rows * stride \in Nat
    BY StepInside, Zenon
  <2>3. /\ (c - 1) * step \in Nat /\ (c - 1) * step + step <= columns * step
        /\ columns * step \in Nat
    BY StepInside, Zenon
  <2>4. PICK A, B, x, y :
          A = (r - 1) * stride /\ B = (c - 1) * step /\ x = rows * stride /\ y = columns * step
    OBVIOUS
  <2>5. /\ A \in Nat /\ B \in Nat /\ x \in Nat /\ y \in Nat
        /\ A + stride <= x /\ B + step <= y
    BY <2>2, <2>3, <2>4, Zenon
  <2>6. x <= Len(bytes) /\ y <= stride BY <2>4, Zenon
  <2>7. A + stride <= Len(bytes) BY <2>5, <2>6, LeTrans, Zenon
  <2>8. B + step <= stride BY <2>5, <2>6, LeTrans, Zenon
  <2>9. 0 + array.item <= step OBVIOUS
  <2>10. A + B + 0 + array.item <= Len(bytes) BY <2>5, <2>7, <2>8, <2>9, OffsetsInside
  <2>11. o = A + B + 0 BY <2>1, <2>4, Zenon
  <2> QED BY <2>10, <2>11, Zenon
<1> QED BY <1>2 DEF InBounds

LEMMA ChannelOffsets ==
  ASSUME NEW array, NEW rows \in Nat, NEW columns \in Nat, NEW channels \in Nat,
         NEW stride \in Nat, NEW step \in Nat, NEW item \in Nat,
         array.shape = <<rows, columns, channels>>, array.strides = <<stride, step, item>>,
         array.item = item, channels * item <= step, columns * step <= stride,
         NEW bytes, Len(bytes) \in Nat, rows * stride <= Len(bytes)
  PROVE  InBounds(array, bytes)
<1>1. /\ Len(array.shape) = 3
      /\ array.shape[1] = rows /\ array.shape[2] = columns /\ array.shape[3] = channels
  OBVIOUS
<1>2. array.strides[1] = stride /\ array.strides[2] = step /\ array.strides[3] = item
  OBVIOUS
<1>3. Length(array, 1) = rows /\ Length(array, 2) = columns /\ Length(array, 3) = channels
  BY <1>1 DEF Length
<1>4. ASSUME NEW o \in Offsets(array) PROVE o + item <= Len(bytes)
  <2>1. PICK r \in 1..rows, c \in 1..columns, h \in 1..channels :
          o = (r - 1) * stride + (c - 1) * step + (h - 1) * item
    <3>1. PICK r \in 1..Length(array, 1), c \in 1..Length(array, 2), h \in 1..Length(array, 3) :
            o = (r - 1) * array.strides[1]
                  + (IF Len(array.shape) > 1 THEN (c - 1) * array.strides[2] ELSE 0)
                  + (IF Len(array.shape) > 2 THEN (h - 1) * array.strides[3] ELSE 0)
      BY <1>4, OffsetForm
    <3>2. Len(array.shape) > 1 /\ Len(array.shape) > 2 BY <1>1
    <3> QED BY <3>1, <3>2, <1>2, <1>3, Zenon
  <2>2. /\ (r - 1) * stride \in Nat /\ (r - 1) * stride + stride <= rows * stride
        /\ rows * stride \in Nat
    BY StepInside, Zenon
  <2>3. /\ (c - 1) * step \in Nat /\ (c - 1) * step + step <= columns * step
        /\ columns * step \in Nat
    BY StepInside, Zenon
  <2>4. /\ (h - 1) * item \in Nat /\ (h - 1) * item + item <= channels * item
        /\ channels * item \in Nat
    BY StepInside, Zenon
  <2>5. PICK A, B, C : A = (r - 1) * stride /\ B = (c - 1) * step /\ C = (h - 1) * item
    OBVIOUS
  <2>6. PICK x, y, z : x = rows * stride /\ y = columns * step /\ z = channels * item
    OBVIOUS
  <2>7. /\ A \in Nat /\ B \in Nat /\ C \in Nat /\ x \in Nat /\ y \in Nat /\ z \in Nat
        /\ A + stride <= x /\ B + step <= y /\ C + item <= z
    BY <2>2, <2>3, <2>4, <2>5, <2>6, Zenon
  <2>8. x <= Len(bytes) /\ y <= stride /\ z <= step BY <2>6, Zenon
  <2>9. o = A + B + C BY <2>1, <2>5, Zenon
  <2>10. A + stride <= Len(bytes) BY <2>7, <2>8, LeTrans, Zenon
  <2>11. B + step <= stride BY <2>7, <2>8, LeTrans, Zenon
  <2>12. C + item <= step BY <2>7, <2>8, LeTrans, Zenon
  <2>13. A + B + C + item <= Len(bytes) BY <2>7, <2>10, <2>11, <2>12, OffsetsInside
  <2> QED BY <2>9, <2>13, Zenon
<1> QED BY <1>4 DEF InBounds

-----------------------------------------------------------------------------
(* How an image is presented.                                              *)

LEMMA FormatSizeType == \A pixel : FormatSize(pixel) \in Nat
BY DEF FormatSize

(* The row of a raw image holds its pixels as they are presented, and the  *)
(* elements have the size of the format.                                   *)
LEMMA LayoutFits ==
  ASSUME NEW spec, SpecOK(spec), NEW ofBlock \in BOOLEAN
  PROVE  LET layout == PixelLayout(spec, ofBlock) IN
         /\ layout.bytes \in Nat /\ layout.channels \in Nat \ {0} /\ layout.width \in Nat
         /\ spec.format = "RAW" => layout.width * layout.bytes <= spec.stride
         /\ spec.pixel # "RGB_IR_RAW_4X4" \/ ofBlock =>
              layout.bytes \div layout.channels = FormatSize(spec.pixel)
<1> DEFINE info == PixelInfo[spec.pixel]
<1>1. /\ info.bytes \in Nat /\ info.channels \in Nat \ {0} /\ spec.width \in Nat
      /\ spec.stride \in Nat /\ spec.pixel \in DOMAIN PixelInfo
  BY PixelInfoAssumption DEF SpecOK, ImageSpecType
<1>2. spec.format = "RAW" => spec.stride >= spec.width * RowBytes(spec.pixel) BY DEF SpecOK
<1>3. CASE spec.pixel \in FirstPlane
  <2>1. /\ RowBytes(spec.pixel) = 1 /\ spec.pixel # "RGB_IR_RAW_4X4"
        /\ spec.pixel \notin Packed /\ spec.pixel # "YUY2" /\ FormatSize(spec.pixel) = 1
    BY <1>3 DEF RowBytes, FirstPlane, Packed, FormatSize, Floats, Doubles, Shorts
  <2>2. PixelLayout(spec, ofBlock) = [bytes |-> 1, channels |-> 1, width |-> spec.width]
    BY <1>3, <2>1 DEF PixelLayout
  <2> QED BY <2>1, <2>2, <1>1, <1>2
<1>4. CASE spec.pixel = "YUY2"
  <2>1. /\ RowBytes(spec.pixel) = 2 /\ FormatSize(spec.pixel) = 1
        /\ spec.pixel \notin FirstPlane \cup Packed /\ spec.pixel # "RGB_IR_RAW_4X4"
    BY <1>4, <1>1, PixelInfoAssumption
       DEF RowBytes, FirstPlane, Packed, FormatSize, Floats, Doubles, Shorts
  <2>2. PixelLayout(spec, ofBlock) = [bytes |-> 2, channels |-> 2, width |-> spec.width]
    BY <1>4, <2>1 DEF PixelLayout
  <2>3. 2 \div 2 = 1 OBVIOUS
  <2> QED BY <2>1, <2>2, <2>3, <1>1, <1>2, <1>4
<1>5. CASE spec.pixel \in Packed
  <2>1. /\ spec.pixel \notin FirstPlane /\ spec.pixel # "YUY2"
        /\ spec.pixel # "RGB_IR_RAW_4X4" /\ FormatSize(spec.pixel) = 1
    BY <1>5 DEF Packed, FirstPlane, FormatSize, Floats, Doubles, Shorts
  <2>2. PixelLayout(spec, ofBlock) = [bytes |-> 1, channels |-> 1, width |-> spec.stride]
    BY <1>5, <2>1 DEF PixelLayout
  <2> QED BY <2>1, <2>2, <1>1
<1>6. CASE spec.pixel = "RGB_IR_RAW_4X4" /\ ofBlock
  <2>1. /\ spec.pixel \notin FirstPlane \cup Packed /\ spec.pixel # "YUY2"
        /\ FormatSize(spec.pixel) = 1 /\ info.bytes = 1 /\ RowBytes(spec.pixel) = 1
    BY <1>6, <1>1, PixelInfoAssumption
       DEF Packed, FirstPlane, FormatSize, Floats, Doubles, Shorts, RowBytes
  <2>2. PixelLayout(spec, ofBlock) = [bytes |-> info.bytes, channels |-> 1, width |-> spec.width]
    BY <1>6, <2>1 DEF PixelLayout
  <2> QED BY <2>1, <2>2, <1>1, <1>2
<1>7. CASE ~(\/ spec.pixel \in FirstPlane \/ spec.pixel = "YUY2" \/ spec.pixel \in Packed
             \/ spec.pixel = "RGB_IR_RAW_4X4" /\ ofBlock)
  <2>1. RowBytes(spec.pixel) = info.bytes BY <1>7 DEF RowBytes
  <2>2. PixelLayout(spec, ofBlock)
          = [bytes |-> info.bytes, channels |-> info.channels, width |-> spec.width]
    BY <1>7 DEF PixelLayout
  <2>3. spec.pixel # "RGB_IR_RAW_4X4" => info.bytes \div info.channels = FormatSize(spec.pixel)
    BY <1>7, <1>1, PixelInfoAssumption
  <2> QED BY <2>1, <2>2, <2>3, <1>1, <1>2, <1>7
<1> QED BY <1>3, <1>4, <1>5, <1>6, <1>7

(* The frame an image decodes to, and the backdoor's, are well formed.     *)
LEMMA FrameFits ==
  ASSUME NEW spec, SpecOK(spec)
  PROVE  SpecOK(FrameSpec(spec)) /\ FrameSpec(spec).raw \in Nat
<1>1. /\ spec.pixel \in DOMAIN PixelInfo /\ spec.height \in Nat /\ spec.width \in Nat
      /\ spec.stride \in Nat /\ spec.raw \in Nat /\ RowBytes(spec.pixel) \in Nat
  BY PixelInfoAssumption DEF SpecOK, ImageSpecType, RowBytes
<1>2. PICK stride : stride = IF spec.format = "RAW" THEN spec.stride
                             ELSE spec.width * RowBytes(spec.pixel) OBVIOUS
<1>3. PICK raw : raw = IF spec.format = "RAW" THEN spec.raw ELSE spec.height * stride OBVIOUS
<1>4. stride \in Nat BY <1>1, <1>2
<1>5. raw \in Nat BY <1>1, <1>3, <1>4
<1>6. stride >= spec.width * RowBytes(spec.pixel) BY <1>1, <1>2 DEF SpecOK
<1>7. raw >= spec.height * stride BY <1>1, <1>2, <1>3, <1>4 DEF SpecOK
<1>8. FrameSpec(spec)
        = [format |-> "RAW", pixel |-> spec.pixel, height |-> spec.height, width |-> spec.width,
           stride |-> stride, raw |-> raw, size |-> raw]
  BY <1>2, <1>3, Zenon DEF FrameSpec
<1> QED BY <1>1, <1>4, <1>5, <1>6, <1>7, <1>8 DEF SpecOK, ImageSpecType

(* So is a frame converted to a format of the library. *)
LEMMA NormalFits ==
  ASSUME NEW spec, SpecOK(spec), NEW pixel \in DOMAIN PixelInfo
  PROVE  SpecOK(NormalSpec(spec, pixel)) /\ NormalSpec(spec, pixel).raw \in Nat
<1>1. spec.height \in Nat /\ spec.width \in Nat /\ RowBytes(pixel) \in Nat
  BY PixelInfoAssumption DEF SpecOK, ImageSpecType, RowBytes
<1>2. PICK stride : stride = spec.width * RowBytes(pixel) OBVIOUS
<1>3. PICK raw : raw = spec.height * stride OBVIOUS
<1>4. stride \in Nat BY <1>1, <1>2
<1>5. raw \in Nat BY <1>1, <1>3, <1>4
<1>6. stride >= spec.width * RowBytes(pixel) BY <1>2, <1>4
<1>7. raw >= spec.height * stride BY <1>3, <1>5
<1>8. NormalSpec(spec, pixel)
        = [format |-> "RAW", pixel |-> pixel, height |-> spec.height, width |-> spec.width,
           stride |-> stride, raw |-> raw, size |-> raw]
  BY <1>2, <1>3, Zenon DEF NormalSpec
<1> QED BY <1>1, <1>4, <1>5, <1>6, <1>7, <1>8 DEF SpecOK, ImageSpecType

LEMMA BackdoorFits ==
  ASSUME NEW n \in Nat PROVE SpecOK(BackdoorSpec(n))
<1>1. RowBytes("GREY8") = 1 BY PixelInfoAssumption DEF RowBytes, FirstPlane
<1>2. BackdoorSpec(n) \in ImageSpecType
  BY PixelInfoAssumption DEF BackdoorSpec, ImageSpecType
<1> QED BY <1>1, <1>2 DEF SpecOK, BackdoorSpec

(* A raw image whose bytes are there is presented inside them.             *)
LEMMA ImageArrayFits ==
  ASSUME NEW spec, SpecOK(spec), spec.format = "RAW", NEW ofBlock \in BOOLEAN,
         memory \in Nat, NEW bytes, Len(bytes) = spec.raw
  PROVE  LET array == ImageArray(spec, ofBlock) IN
         /\ array \in ArraySet /\ array.memory = memory /\ InBounds(array, bytes)
         /\ spec.pixel # "RGB_IR_RAW_4X4" \/ ofBlock => array.item = array.format
<1>1. PICK layout : layout = PixelLayout(spec, ofBlock) OBVIOUS
<1>2. /\ layout.bytes \in Nat /\ layout.channels \in Nat \ {0} /\ layout.width \in Nat
      /\ layout.width * layout.bytes <= spec.stride
      /\ spec.pixel # "RGB_IR_RAW_4X4" \/ ofBlock =>
           layout.bytes \div layout.channels = FormatSize(spec.pixel)
  BY <1>1, LayoutFits
<1>3. PICK item : item = layout.bytes \div layout.channels OBVIOUS
<1>4. item \in Nat /\ layout.channels * item <= layout.bytes /\ item <= layout.bytes
  BY <1>2, <1>3, QuotientFits
<1>5. /\ spec.height \in Nat /\ spec.stride \in Nat /\ spec.raw \in Nat
      /\ spec.height * spec.stride <= Len(bytes) /\ Len(bytes) \in Nat
  BY DEF SpecOK, ImageSpecType
<1>6. CASE layout.channels > 1
  <2>1. PICK shape : shape = <<spec.height, layout.width, layout.channels>> OBVIOUS
  <2>2. PICK strides : strides = <<spec.stride, layout.bytes, item>> OBVIOUS
  <2>3. SubSeq(shape, 1, 3) = shape /\ SubSeq(strides, 1, 3) = strides
    BY <2>1, <2>2, <1>2, <1>4, <1>5, FirstOf
  <2>a. 2 + (IF layout.channels > 1 THEN 1 ELSE 0) = 3 BY <1>6
  <2>4. ImageArray(spec, ofBlock)
          = [memory |-> memory, item |-> item, format |-> FormatSize(spec.pixel),
             shape |-> shape, strides |-> strides]
    BY <1>1, <1>3, <2>a, <2>1, <2>2, <2>3, Zenon DEF ImageArray, Array
  <2>5. shape \in Seq(Nat) /\ strides \in Seq(Nat) BY <2>1, <2>2, <1>2, <1>4, <1>5
  <2>6. PICK array : array = ImageArray(spec, ofBlock) OBVIOUS
  <2>7. array \in ArraySet /\ array.memory = memory
    BY <2>4, <2>5, <2>6, <1>4, FormatSizeType DEF ArraySet
  <2>8. InBounds(array, bytes)
    BY <2>4, <2>6, <2>1, <2>2, <1>2, <1>4, <1>5, ChannelOffsets
  <2> QED BY <2>4, <2>6, <2>7, <2>8, <1>2, <1>3
<1>7. CASE ~(layout.channels > 1)
  <2>1. PICK shape : shape = <<spec.height, layout.width>> OBVIOUS
  <2>2. PICK strides : strides = <<spec.stride, layout.bytes>> OBVIOUS
  <2>3. /\ SubSeq(<<spec.height, layout.width, layout.channels>>, 1, 2) = shape
        /\ SubSeq(<<spec.stride, layout.bytes, item>>, 1, 2) = strides
    BY <2>1, <2>2, <1>2, <1>4, <1>5, FirstOf
  <2>a. 2 + (IF layout.channels > 1 THEN 1 ELSE 0) = 2 BY <1>7
  <2>4. ImageArray(spec, ofBlock)
          = [memory |-> memory, item |-> item, format |-> FormatSize(spec.pixel),
             shape |-> shape, strides |-> strides]
    BY <1>1, <1>3, <2>a, <2>3, Zenon DEF ImageArray, Array
  <2>5. shape \in Seq(Nat) /\ strides \in Seq(Nat) BY <2>1, <2>2, <1>2, <1>4, <1>5
  <2>6. PICK array : array = ImageArray(spec, ofBlock) OBVIOUS
  <2>7. array \in ArraySet /\ array.memory = memory
    BY <2>4, <2>5, <2>6, <1>4, FormatSizeType DEF ArraySet
  <2>8. InBounds(array, bytes)
    BY <2>4, <2>6, <2>1, <2>2, <1>2, <1>4, <1>5, PlaneOffsets
  <2> QED BY <2>4, <2>6, <2>7, <2>8, <1>2, <1>3
<1> QED BY <1>6, <1>7

-----------------------------------------------------------------------------
(* How audio is presented.                                                 *)

LEMMA AudioType ==
  ASSUME NEW a \in Audios
  PROVE  /\ a.bits \in Nat /\ a.bytes \in Nat /\ a.big \in BOOLEAN /\ a.channels \in Nat
         /\ a.count \in Nat /\ a.stride \in Nat /\ a.size \in Nat
         /\ a.bits = 24 => a.bytes = 3
         /\ a.stride >= a.channels * a.bytes
<1>1. a \in AudioSpecType BY PyBufferAssumption
<1> QED BY <1>1, PyBufferAssumption DEF AudioSpecType

LEMMA AsReadLength == \A n \in Nat : Len(AsRead(n)) = n
BY DEF AsRead

LEMMA WidenedLength ==
  \A a \in Audios : \A bytes : Len(Widened(a, bytes)) = 4 * a.count * a.channels
<1>1. ASSUME NEW a \in Audios, NEW bytes
      PROVE  Len(Widened(a, bytes)) = 4 * a.count * a.channels
  <2>1. PICK n : n = 4 * a.count * a.channels OBVIOUS
  <2>2. n \in Nat BY <2>1, AudioType
  <2>3. PICK w : w = Widened(a, bytes) OBVIOUS
  <2>4. DOMAIN w = 1..n /\ w = [k \in 1..n |-> w[k]] BY <2>1, <2>3, Zenon DEF Widened
  <2>5. Len(w) = n BY <2>2, <2>4
  <2> QED BY <2>1, <2>3, <2>5
<1> QED BY <1>1

LEMMA SwappedLength ==
  \A a : \A bytes : Len(bytes) \in Nat => Len(Swapped(a, bytes)) = Len(bytes)
BY DEF Swapped

LEMMA SetMemory ==
  ASSUME NEW array \in ArraySet, NEW m \in Nat
  PROVE  [array EXCEPT !.memory = m] =
           [memory |-> m, item |-> array.item, format |-> array.format,
            shape |-> array.shape, strides |-> array.strides]
BY DEF ArraySet

LEMMA Adjusted ==
  ASSUME NEW b, NEW x,
         b = [content |-> b.content, spec |-> b.spec, bytes |-> b.bytes,
              structured |-> b.structured, adjusted |-> b.adjusted]
  PROVE  [b EXCEPT !.adjusted = TRUE, !.bytes = x] =
           [content |-> b.content, spec |-> b.spec, bytes |-> x,
            structured |-> b.structured, adjusted |-> TRUE]
<1>1. b \in [content : {b.content}, spec : {b.spec}, bytes : {b.bytes},
             structured : {b.structured}, adjusted : {b.adjusted}]
  OBVIOUS
<1>2. PICK c : c = [b EXCEPT !.adjusted = TRUE] OBVIOUS
<1>3. /\ c = [content |-> b.content, spec |-> b.spec, bytes |-> b.bytes,
              structured |-> b.structured, adjusted |-> TRUE]
      /\ c \in [content : {b.content}, spec : {b.spec}, bytes : {b.bytes},
                structured : {b.structured}, adjusted : BOOLEAN]
  BY <1>1, <1>2
<1>4. /\ c.content = b.content /\ c.spec = b.spec /\ c.structured = b.structured
      /\ c.adjusted = TRUE
  BY <1>3
<1>5. [c EXCEPT !.bytes = x] = [content |-> c.content, spec |-> c.spec, bytes |-> x,
                               structured |-> c.structured, adjusted |-> c.adjusted]
  <2>1. c \in [content : {b.content}, spec : {b.spec}, bytes : {b.bytes},
               structured : {b.structured}, adjusted : BOOLEAN]
    BY <1>3
  <2> QED BY <2>1
<1>6. [b EXCEPT !.adjusted = TRUE, !.bytes = x] = [c EXCEPT !.bytes = x] BY <1>2
<1> QED BY <1>4, <1>5, <1>6, Zenon

(* The frames of an audio block whose bytes are there are presented inside *)
(* them.                                                                   *)
LEMMA AudioArrayFits ==
  ASSUME NEW a \in Audios, memory \in Nat, memory' \in Nat, NEW bytes,
         Len(bytes) = IF a.bits = 24 THEN 4 * a.count * a.channels ELSE a.stride * a.count
  PROVE  LET array == AudioArray(a) IN
         /\ array \in ArraySet /\ array.memory = memory' /\ InBounds(array, bytes)
         /\ array.item = array.format
         /\ array.item = IF a.bits = 24 THEN 4 ELSE a.bytes
         /\ array.strides = <<IF a.bits = 24 THEN 4 * a.channels ELSE a.stride, array.item>>
<1>1. PICK item : item = IF a.bits = 24 THEN 4 ELSE a.bytes OBVIOUS
<1>2. PICK stride : stride = IF a.bits = 24 THEN 4 * a.channels ELSE a.stride OBVIOUS
<1>3. /\ item \in Nat /\ stride \in Nat /\ a.count \in Nat /\ a.channels \in Nat
      /\ Len(bytes) \in Nat
  BY <1>1, <1>2, AudioType
<1>4. PICK shape : shape = <<a.count, a.channels>> OBVIOUS
<1>5. PICK strides : strides = <<stride, item>> OBVIOUS
<1>6. shape \in Seq(Nat) /\ strides \in Seq(Nat) BY <1>3, <1>4, <1>5
<1>7. PICK made : made = Array(item, item, shape, strides) OBVIOUS
<1>8. /\ made \in ArraySet /\ made.item = item /\ made.format = item
      /\ made.shape = shape /\ made.strides = strides
  BY <1>7, <1>3, <1>6 DEF Array, ArraySet
<1>9. PICK array : array = AudioArray(a) OBVIOUS
<1>10. array = [made EXCEPT !.memory = memory']
  BY <1>1, <1>2, <1>4, <1>5, <1>7, <1>9, Zenon DEF AudioArray
<1>11. array = [memory |-> memory', item |-> made.item, format |-> made.format,
                shape |-> made.shape, strides |-> made.strides]
  BY <1>8, <1>10, SetMemory
<1>12. /\ array.memory = memory' /\ array.item = item /\ array.format = item
       /\ array.shape = shape /\ array.strides = strides
  BY <1>8, <1>11
<1>13. array \in ArraySet BY <1>3, <1>6, <1>8, <1>11 DEF ArraySet
<1>14. a.channels * item <= stride
  <2>1. CASE a.bits = 24 BY <2>1, <1>1, <1>2, <1>3
  <2>2. CASE a.bits # 24 BY <2>2, <1>1, <1>2, AudioType
  <2> QED BY <2>1, <2>2
<1>15. a.count * stride <= Len(bytes)
  <2>1. CASE a.bits = 24
    <3>1. a.count * (4 * a.channels) = 4 * a.count * a.channels BY <1>3
    <3> QED BY <2>1, <3>1, <1>2, <1>3
  <2>2. CASE a.bits # 24
    <3>1. a.count * a.stride = a.stride * a.count BY AudioType
    <3> QED BY <2>2, <3>1, <1>2, <1>3
  <2> QED BY <2>1, <2>2
<1>16. InBounds(array, bytes)
  <2>1. array.shape = <<a.count, a.channels>> /\ array.strides = <<stride, item>>
    BY <1>4, <1>5, <1>12
  <2>2. array.item \in Nat /\ array.item <= item BY <1>3, <1>12
  <2> QED BY <2>1, <2>2, <1>3, <1>14, <1>15, PlaneOffsets
<1> QED BY <1>1, <1>2, <1>5, <1>9, <1>12, <1>13, <1>16

-----------------------------------------------------------------------------
(* The inductive invariant holds.                                          *)

(* A structured audio block has all its frames, as they were read or, once *)
(* adjusted, of the samples the adjustment makes.                          *)
LEMMA AudioLength ==
  ASSUME IInv, Structured("audio")
  PROVE  /\ block.spec \in Audios
         /\ block.spec.size = block.spec.stride * block.spec.count
         /\ Len(block.bytes) = block.spec.stride * block.spec.count
         /\ block.adjusted /\ block.spec.bits = 24 =>
              Len(block.bytes) = 4 * block.spec.count * block.spec.channels
<1>1. /\ block.content = "audio" /\ block.spec \in Audios
      /\ Len(block.bytes) = block.spec.stride * block.spec.count
  BY DEF IInv, Typed, Structured
<1>2. PICK a : a = block.spec OBVIOUS
<1>3. a \in Audios /\ a.size \in Nat BY <1>1, <1>2, AudioType
<1>4. CASE block.adjusted
  <2>1. /\ a.size = a.stride * a.count
        /\ block.bytes = IF a.bits = 24 THEN Widened(a, AsRead(a.size))
                                        ELSE Swapped(a, AsRead(a.size))
    BY <1>1, <1>2, <1>4, Zenon DEF IInv, AudioInv
  <2>2. a.bits = 24 => Len(block.bytes) = 4 * a.count * a.channels
    BY <2>1, <1>3, WidenedLength
  <2> QED BY <1>1, <1>2, <2>1, <2>2
<1>5. CASE ~block.adjusted
  <2>1. block.bytes = AsRead(a.size) BY <1>1, <1>2, <1>5, Zenon DEF IInv, AudioInv
  <2>2. Len(block.bytes) = a.size BY <2>1, <1>3, AsReadLength
  <2> QED BY <1>1, <1>2, <1>5, <2>2
<1> QED BY <1>4, <1>5

(* Another array of the same bytes.                                        *)
LEMMA OneMoreArray ==
  ASSUME IInv, NEW array \in ArraySet, ArrayOK(array),
         UNCHANGED <<block, memory, image>>, arrays' = Append(arrays, array),
         Structured("audio") => block.adjusted \/ AsRecorded(block.spec)
  PROVE  IInv'
<1>1. arrays \in Seq(ArraySet) BY DEF IInv, Typed
<1>2. /\ arrays' \in Seq(ArraySet) /\ DOMAIN arrays' = 1..(Len(arrays) + 1)
      /\ \A k \in 1..Len(arrays) : arrays'[k] = arrays[k]
      /\ arrays'[Len(arrays) + 1] = array
  BY <1>1
<1>3. Typed' BY <1>2 DEF IInv, Typed, BlockShape
<1>4. AudioInv' BY DEF IInv, AudioInv
<1>5. KeepInv' BY DEF IInv, KeepInv, Structured
<1>6. \A x : ArrayOK(x)' <=> ArrayOK(x)
  BY DEF ArrayOK, FramesOK, ImageOK, Flat, ImageArray, Array, Structured
<1>7. ArraysInv'
  <2>1. ASSUME NEW k \in DOMAIN arrays' PROVE ArrayOK(arrays'[k])
    <3>1. CASE k = Len(arrays) + 1 BY <3>1, <1>2
    <3>2. CASE k # Len(arrays) + 1
      <4>1. k \in DOMAIN arrays /\ arrays'[k] = arrays[k] BY <3>2, <1>1, <1>2
      <4> QED BY <4>1 DEF IInv, ArraysInv
    <3> QED BY <3>1, <3>2
  <2> QED BY <2>1, <1>6 DEF ArraysInv
<1> QED BY <1>3, <1>4, <1>5, <1>7 DEF IInv

LEMMA FlatFits ==
  ASSUME NEW bytes, Len(bytes) \in Nat, memory \in Nat
  PROVE  LET array == Flat(bytes) IN
         /\ array \in ArraySet /\ array.memory = memory /\ InBounds(array, bytes)
         /\ array.item = array.format /\ Len(array.shape) = 1
<1>1. PICK array : array = Flat(bytes) OBVIOUS
<1>2. /\ array.memory = memory /\ array.item = 1 /\ array.format = 1
      /\ array.shape = <<Len(bytes)>> /\ array.strides = << 1 >>
      /\ array \in ArraySet
  BY <1>1 DEF Flat, Array, ArraySet
<1>3. InBounds(array, bytes) BY <1>2, FlatOffsets
<1> QED BY <1>1, <1>2, <1>3

LEMMA InitHolds == Init => IInv
<1> SUFFICES ASSUME Init PROVE IInv OBVIOUS
<1>1. memory = 0 /\ arrays = <<>> /\ image = None BY DEF Init
<1>2. ASSUME NEW content, NEW spec, NEW n \in Nat, NEW structured,
             block = Block(content, spec, n, structured)
      PROVE  /\ BlockShape /\ Len(block.bytes) = n /\ block.adjusted = FALSE
             /\ block.structured = structured /\ block.content = content /\ block.spec = spec /\ block.bytes = AsRead(n)
  <2>1. Len(AsRead(n)) = n BY AsReadLength
  <2> QED BY <2>1, <1>2 DEF Block, BlockShape
<1>3. ASSUME NEW content, NEW spec, NEW n \in Nat, NEW structured,
             block = Block(content, spec, n, structured),
             content = "image" => SpecOK(spec) /\ (structured => spec.format = "RAW"),
             content = "audio" => spec \in Audios /\ n = spec.size
      PROVE  IInv
  <2>1. BlockShape /\ Len(block.bytes) = n /\ block.adjusted = FALSE
    BY <1>2, <1>3
  <2>2. /\ block.content = content /\ block.spec = spec /\ block.bytes = AsRead(n)
        /\ block.structured = structured
    BY <1>2, <1>3
  <2>3. arrays \in Seq(ArraySet) BY <1>1
  <2>4. Typed BY <2>1, <2>2, <2>3, <1>1, <1>3, Zenon, 0 \in Nat DEF Typed
  <2>5. AudioInv BY <2>1, <2>2, <1>3 DEF AudioInv
  <2>6. KeepInv BY <1>1 DEF KeepInv
  <2>7. ArraysInv BY <1>1 DEF ArraysInv
  <2> QED BY <2>4, <2>5, <2>6, <2>7 DEF IInv
<1>4. CASE \E a \in Audios : block = SetAudio(a)
  <2>1. PICK a \in Audios : block = Block("audio", a, a.size, TRUE) BY <1>4 DEF SetAudio
  <2>2. a.size \in Nat BY AudioType
  <2> QED BY <2>1, <2>2, <1>3, "audio" # "image", Zenon
<1>5. CASE \E n \in {0, 3} : block = SetCustom(n)
  <2>1. PICK n \in {0, 3} : block = Block("custom", None, n, FALSE) BY <1>5 DEF SetCustom
  <2>2. n \in Nat OBVIOUS
  <2> QED BY <2>1, <2>2, <1>3, "custom" # "image", "custom" # "audio", Zenon
<1>6. CASE \E i \in Images, c \in Conversions : block \in SetImage(i, c)
  <2>1. PICK i \in Images, c \in Conversions : block \in SetImage(i, c) BY <1>6
  <2>2. SpecOK(i) /\ i.size \in Nat BY PyBufferAssumption DEF SpecOK, ImageSpecType
  <2>3. ASSUME NEW spec, NEW n \in Nat, NEW structured, SpecOK(spec),
               structured => spec.format = "RAW", block = Block("image", spec, n, structured)
        PROVE  IInv
    BY <2>3, <1>3, "image" # "audio", Zenon
  <2>4. CASE block = Block("image", i, 0, FALSE) BY <2>2, <2>3, <2>4, 0 \in Nat, Zenon
  <2>5. CASE block = Block("image", i, i.size, i.format = "RAW")
    BY <2>2, <2>3, <2>5, Zenon
  <2>6. CASE block = Block("image", i, i.size, FALSE) BY <2>2, <2>3, <2>6, Zenon
  <2>7. CASE \E n \in {i.size, i.size + 1} : block = Block("image", BackdoorSpec(n), n, FALSE)
    <3>1. PICK n \in {i.size, i.size + 1} : block = Block("image", BackdoorSpec(n), n, FALSE)
      BY <2>7
    <3>2. n \in Nat BY <2>2
    <3>3. SpecOK(BackdoorSpec(n)) BY <3>2, BackdoorFits
    <3> QED BY <3>1, <3>2, <3>3, <2>3, Zenon
  <2>8. CASE block = Block("image", FrameSpec(i), FrameSpec(i).raw, TRUE)
    <3>1. SpecOK(FrameSpec(i)) /\ FrameSpec(i).raw \in Nat BY <2>2, FrameFits
    <3>2. FrameSpec(i).format = "RAW" BY DEF FrameSpec
    <3> QED BY <3>1, <3>2, <2>8, <2>3, Zenon
  <2>9. ASSUME NEW p \in DOMAIN PixelInfo,
               block = Block("image", NormalSpec(i, p), NormalSpec(i, p).raw, TRUE)
        PROVE  IInv
    <3>1. SpecOK(NormalSpec(i, p)) /\ NormalSpec(i, p).raw \in Nat BY <2>2, NormalFits
    <3>2. NormalSpec(i, p).format = "RAW" BY DEF NormalSpec
    <3> QED BY <3>1, <3>2, <2>9, <2>3, Zenon
  <2>10. CASE \E frame \in NormalizeFrame(i, TRUE) :
                block = Block("image", frame, frame.raw, TRUE)
    BY <2>8, <2>9, <2>10, Zenon DEF NormalizeFrame, NormalFormats
  <2>11. CASE \E frame \in NormalizeFrame(i, FALSE) :
                block = Block("image", frame, frame.raw, TRUE)
    BY <2>8, <2>9, <2>11, Zenon DEF NormalizeFrame, NormalFormats
  <2>12. (c = "Normalize") \in BOOLEAN OBVIOUS
  <2> QED BY <2>1, <2>4, <2>5, <2>6, <2>7, <2>8, <2>10, <2>11, <2>12 DEF SetImage
<1> QED BY <1>4, <1>5, <1>6 DEF Init

LEMMA ConvertImageKeeps ==
  ASSUME IInv, ConvertImage, UNCHANGED image
  PROVE  IInv'
<1>1. /\ block.content = "image" /\ SpecOK(block.spec) /\ block.spec.format = "RAW"
      /\ Len(block.bytes) = block.spec.raw /\ memory \in Nat
      /\ arrays' = Append(arrays, ImageArray(block.spec, TRUE))
      /\ UNCHANGED <<block, memory, image>>
  BY DEF IInv, Typed, ConvertImage, Structured
<1>2. PICK array : array = ImageArray(block.spec, TRUE) OBVIOUS
<1>3. /\ array \in ArraySet /\ array.memory = memory /\ InBounds(array, block.bytes)
      /\ array.item = array.format
  BY <1>1, <1>2, ImageArrayFits
<1>4. Structured("image") BY DEF ConvertImage
<1>5. ImageOK(array) BY <1>2, <1>4 DEF ImageOK
<1>6. ArrayOK(array) BY <1>1, <1>3, <1>5 DEF ArrayOK, FramesOK
<1>7. ~Structured("audio") BY <1>1 DEF Structured
<1> QED BY <1>1, <1>2, <1>3, <1>6, <1>7, OneMoreArray

LEMMA ConvertBytesKeeps ==
  ASSUME IInv, ConvertBytes, UNCHANGED image
  PROVE  IInv'
<1>1. /\ memory \in Nat /\ Len(block.bytes) \in Nat
      /\ arrays' = Append(arrays, Flat(block.bytes)) /\ ~Structured("audio")
      /\ UNCHANGED <<block, memory, image>>
  BY DEF IInv, Typed, ConvertBytes
<1>2. PICK array : array = Flat(block.bytes) OBVIOUS
<1>3. /\ array \in ArraySet /\ array.memory = memory /\ InBounds(array, block.bytes)
      /\ array.item = array.format /\ Len(array.shape) = 1
  BY <1>1, <1>2, FlatFits
<1>4. ArrayOK(array) BY <1>2, <1>3 DEF ArrayOK, FramesOK, ImageOK
<1> QED BY <1>1, <1>2, <1>3, <1>4, OneMoreArray

(* An access to audio that has nothing to adjust.                          *)
LEMMA ConvertAudioAgain ==
  ASSUME IInv, ConvertAudio, UNCHANGED image, block.adjusted \/ AsRecorded(block.spec)
  PROVE  IInv'
<1>1. Structured("audio") /\ memory \in Nat BY DEF ConvertAudio, IInv, Typed
<1>2. PICK a : a = block.spec OBVIOUS
<1>3. /\ a \in Audios /\ a.size = a.stride * a.count
      /\ Len(block.bytes) = a.stride * a.count
      /\ block.adjusted /\ a.bits = 24 => Len(block.bytes) = 4 * a.count * a.channels
  BY <1>1, <1>2, AudioLength
<1>4. UNCHANGED <<block, memory>> /\ arrays' = Append(arrays, AudioArray(a))
  BY <1>2 DEF ConvertAudio, Adjust, AsRecorded
<1>5. Len(block.bytes) = IF a.bits = 24 THEN 4 * a.count * a.channels ELSE a.stride * a.count
  BY <1>2, <1>3 DEF AsRecorded
<1>6. PICK array : array = AudioArray(a) OBVIOUS
<1>7. /\ array \in ArraySet /\ array.memory = memory' /\ InBounds(array, block.bytes)
      /\ array.item = array.format
      /\ array.item = IF a.bits = 24 THEN 4 ELSE a.bytes
      /\ array.strides = <<IF a.bits = 24 THEN 4 * a.channels ELSE a.stride, array.item>>
  BY <1>1, <1>3, <1>4, <1>5, <1>6, AudioArrayFits
<1>8. FramesOK(array) BY <1>2, <1>3, <1>7, Zenon DEF FramesOK
<1>9. ImageOK(array) BY <1>1 DEF ImageOK, Structured
<1>10. ArrayOK(array) BY <1>4, <1>7, <1>8, <1>9 DEF ArrayOK
<1> QED BY <1>4, <1>6, <1>7, <1>10, OneMoreArray

(* The access that adjusts audio is the first one.                         *)
LEMMA ConvertAudioFirst ==
  ASSUME IInv, ConvertAudio, UNCHANGED image, ~(block.adjusted \/ AsRecorded(block.spec))
  PROVE  IInv'
<1>1. Structured("audio") /\ memory \in Nat /\ BlockShape BY DEF ConvertAudio, IInv, Typed
<1>2. PICK a : a = block.spec OBVIOUS
<1>3. /\ a \in Audios /\ a.size \in Nat /\ a.size = a.stride * a.count /\ block.content = "audio"
  BY <1>1, <1>2, AudioLength, AudioType DEF Structured
<1>4. block.bytes = AsRead(a.size) BY <1>2, <1>3, Zenon DEF IInv, AudioInv
<1>5. arrays = <<>> BY <1>1 DEF IInv, KeepInv
<1>6. PICK bytes : bytes = IF a.bits = 24 THEN Widened(a, AsRead(a.size))
                                          ELSE Swapped(a, AsRead(a.size))
  OBVIOUS
<1>7. /\ a.bits = 24 \/ a.stride \in {2, 4, 8}
      /\ block' = [block EXCEPT !.adjusted = TRUE, !.bytes = bytes]
      /\ memory' = IF a.bits = 24 THEN memory + 1 ELSE memory
      /\ arrays' = Append(arrays, AudioArray(a))
  BY <1>2, <1>4, <1>6, Zenon DEF ConvertAudio, Adjust, AsRecorded
<1>8. block' = [content |-> block.content, spec |-> block.spec, bytes |-> bytes,
                structured |-> block.structured, adjusted |-> TRUE]
  BY <1>1, <1>7, Adjusted DEF BlockShape
<1>9. /\ block'.content = "audio" /\ block'.spec = a /\ block'.bytes = bytes
      /\ block'.adjusted = TRUE
  BY <1>2, <1>3, <1>8
<1>10. Len(bytes) = IF a.bits = 24 THEN 4 * a.count * a.channels ELSE a.stride * a.count
  <2>1. CASE a.bits = 24 BY <2>1, <1>3, <1>6, WidenedLength
  <2>2. CASE a.bits # 24
    <3>1. Len(AsRead(a.size)) = a.size BY <1>3, AsReadLength
    <3> QED BY <2>2, <3>1, <1>3, <1>6, SwappedLength
  <2> QED BY <2>1, <2>2
<1>11. memory' \in Nat /\ Len(bytes) \in Nat BY <1>1, <1>3, <1>7, <1>10, AudioType
<1>12. PICK array : array = AudioArray(a) OBVIOUS
<1>13. /\ array \in ArraySet /\ array.memory = memory' /\ InBounds(array, bytes)
       /\ array.item = array.format
       /\ array.item = IF a.bits = 24 THEN 4 ELSE a.bytes
       /\ array.strides = <<IF a.bits = 24 THEN 4 * a.channels ELSE a.stride, array.item>>
  BY <1>1, <1>3, <1>10, <1>11, <1>12, AudioArrayFits
<1>14. arrays' = <<array>> BY <1>5, <1>7, <1>12
<1>15. Typed'
  <2>1. BlockShape' BY <1>8, <1>9 DEF BlockShape
  <2>a. Len(block'.bytes) \in Nat /\ block'.adjusted \in BOOLEAN BY <1>9, <1>11
  <2>b. array \in ArraySet /\ arrays' = <<array>> BY <1>13, <1>14
  <2>2. arrays' \in Seq(ArraySet) BY <2>b
  <2>3. image' # None => SpecOK(image'.spec) /\ Len(image'.bytes) \in Nat BY DEF IInv, Typed
  <2> QED BY <2>1, <2>a, <2>2, <2>3, <1>3, <1>9, <1>11, "audio" # "image", Zenon DEF Typed
<1>16. AudioInv'
  <2>1. ~AsRecorded(a) BY <1>2
  <2> QED BY <2>1, <1>3, <1>6, <1>7, <1>9, Zenon DEF AudioInv
<1>17. KeepInv' BY <1>9 DEF KeepInv
<1>18. FramesOK(array)'
  BY <1>3, <1>9, <1>13, Zenon DEF FramesOK
<1>19. ArrayOK(array)'
  <2>1. ImageOK(array)' BY <1>9 DEF ImageOK
  <2> QED BY <2>1, <1>9, <1>13, <1>18 DEF ArrayOK
<1>20. ArraysInv'
  <2>1. DOMAIN arrays' = {1} /\ arrays'[1] = array BY <1>14
  <2> QED BY <2>1, <1>19 DEF ArraysInv
<1> QED BY <1>15, <1>16, <1>17, <1>20 DEF IInv

(* An image buffer is made, or an exception raised.                        *)
LEMMA ImageKeeps ==
  ASSUME IInv, UNCHANGED <<block, memory, arrays>>, image' # None => SpecOK(image'.spec) /\ Len(image'.bytes) \in Nat
  PROVE  IInv'
<1>1. Typed' BY DEF IInv, Typed, BlockShape
<1>2. AudioInv' BY DEF IInv, AudioInv
<1>3. KeepInv' BY DEF IInv, KeepInv, Structured
<1>4. ArraysInv'
  BY DEF IInv, ArraysInv, ArrayOK, FramesOK, ImageOK, Flat, ImageArray, Array, Structured
<1> QED BY <1>1, <1>2, <1>3, <1>4 DEF IInv

LEMMA BytesOfType == \A array \in ArraySet : BytesOf(array) \in Nat
<1>1. ASSUME NEW array \in ArraySet PROVE BytesOf(array) \in Nat
  <2>1. array.item \in Nat /\ array.shape \in Seq(Nat) BY DEF ArraySet
  <2>2. \A d \in 1..3 : Length(array, d) \in Nat
    <3>1. ASSUME NEW d \in 1..3, d <= Len(array.shape) PROVE array.shape[d] \in Nat
      BY <2>1, <3>1, ElementOfSeq
    <3> QED BY <3>1 DEF Length
  <2>3. PICK l1, l2, l3 : l1 = Length(array, 1) /\ l2 = Length(array, 2) /\ l3 = Length(array, 3)
    OBVIOUS
  <2>4. l1 \in Nat /\ l2 \in Nat /\ l3 \in Nat BY <2>2, <2>3
  <2>5. array.item * l1 * l2 * l3 \in Nat BY <2>1, <2>4
  <2> QED BY <2>3, <2>5 DEF BytesOf
<1> QED BY <1>1

LEMMA SubSeqLength ==
  \A n \in Nat : \A s : Len(SubSeq(s, 1, n)) \in Nat
OBVIOUS

LEMMA Compressed ==
  ASSUME NEW spec, SpecOK(spec), NEW format \in {"JPG", "JXL"}
  PROVE  SpecOK([spec EXCEPT !.format = format, !.raw = 0])
<1>1. PICK made : made = [spec EXCEPT !.format = format, !.raw = 0] OBVIOUS
<1>2. PICK half : half = [spec EXCEPT !.format = format] OBVIOUS
<1>3. half \in ImageSpecType /\ half.format = format
  BY <1>2 DEF SpecOK, ImageSpecType
<1>4. [half EXCEPT !.raw = 0] \in ImageSpecType /\ [half EXCEPT !.raw = 0].format = format
  BY <1>3 DEF ImageSpecType
<1>5. made = [half EXCEPT !.raw = 0] BY <1>1, <1>2
<1>6. format # "RAW" OBVIOUS
<1>7. made \in ImageSpecType /\ made.format # "RAW" BY <1>4, <1>5, <1>6
<1> QED BY <1>1, <1>7 DEF SpecOK

LEMMA ImageStepKeeps ==
  ASSUME IInv, NEW spec, SpecOK(spec), NEW bytes, Len(bytes) \in Nat,
         MakeImage(spec, bytes) \/ Raise
  PROVE  IInv'
<1>1. UNCHANGED <<block, memory, arrays>> BY DEF MakeImage, Raise
<1>2. image' # None => SpecOK(image'.spec) /\ Len(image'.bytes) \in Nat BY DEF MakeImage, Raise
<1> QED BY <1>1, <1>2, ImageKeeps

LEMMA StepKeeps == IInv /\ [Next]_vars => IInv'
<1> SUFFICES ASSUME IInv, [Next]_vars PROVE IInv' OBVIOUS
<1>1. ASSUME NEW spec \in ImageSpecs PROVE SpecOK(spec)
  BY <1>1 DEF IInv, Typed, ImageSpecs
<1>2. CASE ConvertContentBlockBuffer
  <2>1. ConvertImage \/ ConvertAudio \/ ConvertBytes BY <1>2 DEF ConvertContentBlockBuffer
  <2>2. UNCHANGED image BY <1>2 DEF ConvertContentBlockBuffer
  <2> QED BY <2>1, <2>2, ConvertImageKeeps, ConvertBytesKeeps, ConvertAudioAgain,
             ConvertAudioFirst
<1>3. CASE \E spec \in ImageSpecs, format \in {"JPG", "JXL"} : Compress(spec, format)
  <2>1. PICK spec \in ImageSpecs, format \in {"JPG", "JXL"} : Compress(spec, format) BY <1>3
  <2>2. PICK made : made = [spec EXCEPT !.format = format, !.raw = 0] OBVIOUS
  <2>3. SpecOK(made) BY <1>1, <2>2, Compressed
  <2>4. MakeImage(made, <<>>) \/ Raise BY <2>1, <2>2 DEF Compress
  <2>5. Len(<<>>) \in Nat OBVIOUS
  <2> QED BY <2>3, <2>4, <2>5, ImageStepKeeps
<1>4. CASE \E spec \in ImageSpecs : Decompress(spec)
  <2>1. PICK spec \in ImageSpecs : Decompress(spec) BY <1>4
  <2>2. SpecOK(FrameSpec(spec)) /\ FrameSpec(spec).raw \in Nat BY <1>1, FrameFits
  <2>4. Len(AsRead(FrameSpec(spec).raw)) \in Nat BY <2>2, AsReadLength
  <2>3. MakeImage(FrameSpec(spec), AsRead(FrameSpec(spec).raw)) \/ Raise BY <2>1 DEF Decompress
  <2> QED BY <2>2, <2>3, <2>4, ImageStepKeeps
<1>5. CASE \E k \in DOMAIN arrays : WriteBack(k)
  <2>1. PICK k \in DOMAIN arrays : WriteBack(k) BY <1>5
  <2>2. SpecOK(block.spec) BY <2>1 DEF WriteBack, IInv, Typed
  <2>3. \/ MakeImage(block.spec, SubSeq(block.bytes, 1, BytesOf(arrays[k])))
        \/ Raise
    BY <2>1 DEF WriteBack, InitBytesFromPyBuffer
  <2>4. arrays[k] \in ArraySet BY DEF IInv, Typed
  <2>5. BytesOf(arrays[k]) \in Nat BY <2>4, BytesOfType
  <2>6. Len(SubSeq(block.bytes, 1, BytesOf(arrays[k]))) \in Nat BY <2>5, SubSeqLength
  <2> QED BY <2>2, <2>3, <2>6, ImageStepKeeps
<1>6. CASE UNCHANGED vars
  <2>1. UNCHANGED <<block, memory, arrays, image>> BY <1>6 DEF vars
  <2> QED BY <2>1, ImageKeeps DEF IInv, Typed
<1> QED BY <1>2, <1>3, <1>4, <1>5, <1>6 DEF Next

(* The inductive invariant holds in every state of every block.            *)
THEOREM IInvHolds == Spec => []IInv
BY InitHolds, StepKeeps, PTL DEF Spec

-----------------------------------------------------------------------------
(* The properties.                                                         *)

(* An image buffer is presented inside its bytes, raw or not.              *)
LEMMA ImageBufferFits ==
  ASSUME IInv, image # None
  PROVE  /\ InBounds(ConvertImageBlockBuffer, image.bytes)
         /\ image.spec.pixel # "RGB_IR_RAW_4X4" =>
              ConvertImageBlockBuffer.item = ConvertImageBlockBuffer.format
<1>1. SpecOK(image.spec) /\ memory \in Nat /\ Len(image.bytes) \in Nat BY DEF IInv, Typed
<1>2. CASE image.spec.format = "RAW" /\ Len(image.bytes) = image.spec.raw
  BY <1>1, <1>2, ImageArrayFits DEF ConvertImageBlockBuffer
<1>3. CASE ~(image.spec.format = "RAW" /\ Len(image.bytes) = image.spec.raw)
  <2>1. ConvertImageBlockBuffer = Flat(image.bytes) BY <1>3 DEF ConvertImageBlockBuffer
  <2> QED BY <2>1, <1>1, FlatFits
<1> QED BY <1>2, <1>3

(* Every array made of a block, and of an image buffer, is inside the      *)
(* memory it was made of, which is still there, and its elements are as    *)
(* large as their format says (PyBuffer.cpp, bufferInfoFrom... and         *)
(* convertContentBlockBuffer).                                             *)
THEOREM ArraysStayValid == Spec => []ArraysAreValid
<1>1. IInv => ArraysAreValid
  <2> SUFFICES ASSUME IInv PROVE ArraysAreValid OBVIOUS
  <2>1. ASSUME NEW k \in DOMAIN arrays
        PROVE  /\ arrays[k].memory = memory /\ InBounds(arrays[k], block.bytes)
               /\ arrays[k].item = arrays[k].format
    BY DEF IInv, ArraysInv, ArrayOK
  <2> QED BY <2>1, ImageBufferFits, Zenon DEF ArraysAreValid
<1> QED BY <1>1, IInvHolds, PTL

(* Once there is an array no access moves or rewrites the bytes it shows.  *)
LEMMA KeepStep ==
  IInv /\ [Next]_vars => [arrays # <<>> => block'.bytes = block.bytes /\ memory' = memory]_vars
<1> SUFFICES ASSUME IInv, Next, arrays # <<>>
             PROVE  block'.bytes = block.bytes /\ memory' = memory
  OBVIOUS
<1>1. CASE ConvertContentBlockBuffer
  <2>1. CASE ConvertAudio
    <3>1. Structured("audio") BY <2>1 DEF ConvertAudio
    <3>2. block.adjusted \/ AsRecorded(block.spec) BY <3>1 DEF IInv, KeepInv
    <3> QED BY <2>1, <3>2 DEF ConvertAudio, Adjust, AsRecorded
  <2>2. CASE ConvertImage BY <2>2 DEF ConvertImage
  <2>3. CASE ConvertBytes BY <2>3 DEF ConvertBytes
  <2> QED BY <1>1, <2>1, <2>2, <2>3 DEF ConvertContentBlockBuffer
<1>2. CASE \E spec \in ImageSpecs, format \in {"JPG", "JXL"} : Compress(spec, format)
  BY <1>2 DEF Compress, MakeImage, Raise
<1>3. CASE \E spec \in ImageSpecs : Decompress(spec)
  BY <1>3 DEF Decompress, MakeImage, Raise
<1>4. CASE \E k \in DOMAIN arrays : WriteBack(k)
  BY <1>4 DEF WriteBack, InitBytesFromPyBuffer, MakeImage, Raise
<1> QED BY <1>1, <1>2, <1>3, <1>4 DEF Next

THEOREM ArraysKeepWhatTheyShow == Spec => ArraysKeepTheirBytes
BY KeepStep, IInvHolds, PTL DEF Spec, ArraysKeepTheirBytes

(* The bytes of an audio block as read, and as the adjustment leaves them. *)
LEMMA ReadByte ==
  \A n \in Nat : \A o \in 0..(n - 1) : AsRead(n)[1 + o] = <<"byte", o>>
BY DEF AsRead

(* The bytes of a sample are inside its frame, and its frame in the block. *)
LEMMA SampleBytes ==
  ASSUME NEW a \in Audios, a.size = a.stride * a.count,
         NEW frame \in 0..(a.count - 1), NEW channel \in 0..(a.channels - 1),
         NEW j \in 0..(a.bytes - 1)
  PROVE  /\ frame * a.stride + channel * a.bytes + j \in 0..(a.size - 1)
         /\ frame * a.stride \in Nat /\ channel * a.bytes \in Nat
<1>1. /\ a.stride \in Nat /\ a.count \in Nat /\ a.channels \in Nat /\ a.bytes \in Nat
      /\ a.channels * a.bytes <= a.stride /\ a.size \in Nat
  BY AudioType
<1>2. PICK n, m, p, q : n = a.stride /\ m = a.count /\ p = a.channels /\ q = a.bytes OBVIOUS
<1>3. /\ frame * n \in Nat /\ (frame + 1) * n = frame * n + n /\ m * n = n * m
      /\ channel * q \in Nat /\ (channel + 1) * q = channel * q + q /\ p * q \in Nat /\ m * n \in Nat
  BY <1>1, <1>2
<1>4. (frame + 1) * n <= m * n BY <1>1, <1>2, MulLe, frame + 1 \in Nat, frame + 1 <= m
<1>5. (channel + 1) * q <= p * q BY <1>1, <1>2, MulLe, channel + 1 \in Nat, channel + 1 <= p
<1>6. a.size = m * n BY <1>1, <1>2, <1>3
<1>7. j + channel * q + 1 <= n BY <1>1, <1>2, <1>3, <1>5
<1>8. frame * n + channel * q + j + 1 <= m * n BY <1>1, <1>2, <1>3, <1>4, <1>7
<1>9. frame * n + channel * q + j \in 0..(a.size - 1) BY <1>1, <1>3, <1>6, <1>8
<1> QED BY <1>2, <1>3, <1>9

(* Samples presented as they were read.                                    *)
LEMMA ReadSamples ==
  ASSUME NEW a \in Audios, a.size = a.stride * a.count, AsRecorded(a),
         NEW frame \in 0..(a.count - 1), NEW channel \in 0..(a.channels - 1),
         NEW j \in 0..(a.bytes - 1)
  PROVE  AsRead(a.size)[1 + frame * a.stride + channel * a.bytes + j]
           = Recorded(a, frame, channel, j)
<1>1. PICK o : o = frame * a.stride + channel * a.bytes + j OBVIOUS
<1>2. /\ o \in 0..(a.size - 1) /\ frame * a.stride \in Nat /\ channel * a.bytes \in Nat
      /\ a.size \in Nat /\ a.bytes \in Nat
  BY <1>1, SampleBytes, AudioType
<1>3. AsRead(a.size)[1 + o] = <<"byte", o>> BY <1>2, ReadByte
<1>4. 1 + frame * a.stride + channel * a.bytes + j = 1 + o BY <1>1, <1>2
<1>5. a.big => a.bytes - 1 - j = j
  <2>1. SUFFICES ASSUME a.big PROVE a.bytes = 1 BY <1>2
  <2>2. a.stride = 1 BY <2>1 DEF AsRecorded
  <2>3. /\ a.channels \in Nat /\ a.channels * a.bytes <= 1 /\ 1 <= a.channels BY <2>2, AudioType
  <2>4. 1 * a.bytes <= a.channels * a.bytes BY <2>3, <1>2, MulLe, 1 \in Nat
  <2>5. a.channels * a.bytes \in Nat BY <2>3, <1>2
  <2> QED BY <2>3, <2>4, <2>5, <1>2
<1>6. frame * a.stride + channel * a.bytes + (IF a.big THEN a.bytes - 1 - j ELSE j) = o
  BY <1>1, <1>5
<1> QED BY <1>3, <1>4, <1>6, Zenon DEF Recorded

(* Samples of one channel without padding, in the other byte order.        *)
LEMMA SwappedSamples ==
  ASSUME NEW a \in Audios, a.size = a.stride * a.count, a.bits # 24, a.big,
         a.channels = 1, a.stride = a.bytes,
         NEW frame \in 0..(a.count - 1), NEW j \in 0..(a.bytes - 1)
  PROVE  Swapped(a, AsRead(a.size))[1 + frame * a.stride + 0 * a.bytes + j]
           = Recorded(a, frame, 0, j)
<1>1. PICK o : o = frame * a.stride + j OBVIOUS
<1>2. /\ a.size \in Nat /\ a.bytes \in Nat /\ a.count \in Nat /\ a.channels \in Nat
      /\ a.stride \in Nat
  BY AudioType
<1>3. /\ frame * a.stride \in Nat /\ 0 * a.bytes = 0 /\ o \in 0..(a.size - 1)
  <2>1. 0 \in 0..(a.channels - 1) BY <1>2
  <2> QED BY <2>1, <1>1, <1>2, SampleBytes
<1>4. o \div a.stride = frame /\ o % a.stride = j
  <2>1. j \in 0..(a.stride - 1) /\ a.stride \in Nat \ {0} /\ frame \in Nat BY <1>2
  <2> QED BY <2>1, <1>1, DivMod
<1>5. Len(AsRead(a.size)) = a.size BY <1>2, AsReadLength
<1>6. Reversals(a, frame) % 2 = 1
  <2>1. {c \in 0..(a.channels - 1) : frame - 2 * c \in 0..(a.count - 1)} = {0}
    BY <1>2
  <2>2. Reversals(a, frame) = 1 BY <2>1, FS_Singleton DEF Reversals
  <2> QED BY <2>2
<1>7. Swapped(a, AsRead(a.size))[1 + o]
        = AsRead(a.size)[frame * a.stride + a.stride - j]
  <2>1. 1 + o \in 1..Len(AsRead(a.size)) /\ (1 + o) - 1 = o BY <1>3, <1>5, <1>2
  <2> QED BY <2>1, <1>4, <1>6 DEF Swapped
<1>8. PICK p : p = frame * a.stride + (a.bytes - 1 - j) OBVIOUS
<1>9. p \in 0..(a.size - 1)
  <2>1. a.bytes - 1 - j \in 0..(a.bytes - 1) /\ 0 \in 0..(a.channels - 1) BY <1>2
  <2>2. frame * a.stride + 0 * a.bytes + (a.bytes - 1 - j) \in 0..(a.size - 1)
    BY <2>1, SampleBytes
  <2> QED BY <2>2, <1>2, <1>3, <1>8
<1>10. AsRead(a.size)[1 + p] = <<"byte", p>> BY <1>2, <1>9, ReadByte
<1>11. frame * a.stride + a.stride - j = 1 + p BY <1>2, <1>3, <1>8
<1>12. 1 + frame * a.stride + 0 * a.bytes + j = 1 + o BY <1>1, <1>2, <1>3
<1>13. frame * a.stride + 0 * a.bytes + (IF a.big THEN a.bytes - 1 - j ELSE j) = p
  BY <1>2, <1>3, <1>8
<1> QED BY <1>7, <1>10, <1>11, <1>12, <1>13, Zenon DEF Recorded

(* A byte of a 24 bit sample, and the byte it is extended by.              *)
LEMMA WidenedSamples ==
  ASSUME NEW a \in Audios, a.size = a.stride * a.count, a.bits = 24,
         NEW frame \in 0..(a.count - 1), NEW channel \in 0..(a.channels - 1), NEW j \in 0..3
  PROVE  Widened(a, AsRead(a.size))[1 + frame * (4 * a.channels) + channel * 4 + j]
           = IF j = a.bytes THEN <<"top", Recorded(a, frame, channel, j - 1)[2]>>
                            ELSE Recorded(a, frame, channel, j)
<1>1. /\ a.bytes = 3 /\ a.size \in Nat /\ a.count \in Nat /\ a.channels \in Nat \ {0}
      /\ a.stride \in Nat /\ frame \in Nat /\ channel \in Nat
  BY AudioType
<1>2. PICK sample : sample = frame * a.channels + channel OBVIOUS
<1>3. frame * a.channels \in Nat /\ sample \in Nat BY <1>1, <1>2
<1>4. sample \div a.channels = frame /\ sample % a.channels = channel BY <1>1, <1>2, DivMod
<1>5. PICK o : o = sample * 4 + j OBVIOUS
<1>6. o \div 4 = sample /\ o % 4 = j BY <1>3, <1>5, DivMod, 4 \in Nat \ {0}, j \in 0..(4 - 1)
<1>7. 1 + frame * (4 * a.channels) + channel * 4 + j = 1 + o
  <2>1. frame * (4 * a.channels) = 4 * (frame * a.channels) BY <1>1
  <2> QED BY <2>1, <1>1, <1>2, <1>3, <1>5
<1>8. 1 + o \in 1..(4 * a.count * a.channels)
  <2>1. (frame + 1) * a.channels <= a.count * a.channels
    BY <1>1, MulLe, frame + 1 \in Nat, frame + 1 <= a.count
  <2>2. (frame + 1) * a.channels = frame * a.channels + a.channels BY <1>1
  <2>3. a.count * a.channels \in Nat BY <1>1
  <2>4. 4 * a.count * a.channels = 4 * (a.count * a.channels) BY <1>1
  <2>5. sample + 1 <= a.count * a.channels BY <1>1, <1>2, <1>3, <2>1, <2>2, <2>3
  <2> QED BY <1>3, <1>5, <2>3, <2>4, <2>5
<1>9. PICK first : first = frame * a.stride + channel * 3 OBVIOUS
<1>10. frame * a.stride \in Nat /\ first \in Nat BY <1>1, <1>9
<1> DEFINE place(i) == AsRead(a.size)[1 + first + (IF a.big THEN 2 - i ELSE i)]
<1>11. ASSUME NEW i \in 0..2 PROVE place(i) = Recorded(a, frame, channel, i)
  <2>1. PICK d \in 0..2 : d = IF a.big THEN 2 - i ELSE i
    <3>1. (IF a.big THEN 2 - i ELSE i) \in 0..2 OBVIOUS
    <3> QED BY <3>1
  <2>2. first + d \in 0..(a.size - 1)
    <3>1. d \in 0..(a.bytes - 1) BY <1>1
    <3>2. frame * a.stride + channel * a.bytes + d \in 0..(a.size - 1) BY <3>1, SampleBytes
    <3> QED BY <3>2, <1>1, <1>9
  <2>3. AsRead(a.size)[1 + (first + d)] = <<"byte", first + d>> BY <1>1, <2>2, ReadByte
  <2>4. 1 + (first + d) = 1 + first + d BY <1>10
  <2>5. place(i) = <<"byte", first + d>> BY <2>1, <2>3, <2>4
  <2>6. frame * a.stride + channel * a.bytes + (IF a.big THEN a.bytes - 1 - i ELSE i) = first + d
    BY <1>1, <1>9, <1>10, <2>1
  <2> QED BY <2>5, <2>6, Zenon DEF Recorded
<1>12. Widened(a, AsRead(a.size))[1 + o]
         = IF j = 3 THEN <<"top", place(2)[2]>> ELSE place(j)
  <2>1. (1 + o) - 1 = o BY <1>3, <1>5
  <2> QED BY <2>1, <1>4, <1>6, <1>8, <1>9 DEF Widened
<1> HIDE DEF place
<1>13. CASE j = 3
  <2>1. place(2) = Recorded(a, frame, channel, 2) BY <1>11
  <2>2. j - 1 = 2 /\ j = a.bytes BY <1>13, <1>1
  <2> QED BY <1>7, <1>12, <1>13, <2>1, <2>2, Zenon
<1>14. CASE j # 3
  <2>1. j \in 0..2 BY <1>14
  <2>2. place(j) = Recorded(a, frame, channel, j) BY <2>1, <1>11
  <2> QED BY <1>1, <1>7, <1>12, <1>14, <2>2, Zenon
<1> QED BY <1>13, <1>14

(* A structured array of an audio block shows the recorded value of each   *)
(* channel of each frame, at the first access and at every later one       *)
(* (convertAudioContentBlockBuffer and convertSamples).                    *)
THEOREM SamplesStayRecorded == Spec => []SamplesAreRecorded
<1>1. IInv => SamplesAreRecorded
  <2> SUFFICES ASSUME IInv, NEW k \in DOMAIN arrays, block.content = "audio",
                      Len(arrays[k].shape) = 2, Swappable(block.spec),
                      NEW frame \in 0..(block.spec.count - 1),
                      NEW channel \in 0..(block.spec.channels - 1),
                      NEW j \in 0..(arrays[k].item - 1)
               PROVE  block.bytes[1 + frame * arrays[k].strides[1]
                                    + channel * arrays[k].strides[2] + j] =
                        IF j = block.spec.bytes
                          THEN <<"top", Recorded(block.spec, frame, channel, j - 1)[2]>>
                          ELSE Recorded(block.spec, frame, channel, j)
    BY DEF SamplesAreRecorded
  <2>1. PICK a : a = block.spec OBVIOUS
  <2>2. PICK array : array = arrays[k] OBVIOUS
  <2>3. a \in Audios BY <2>1 DEF IInv, Typed
  <2>4. FramesOK(array) BY <2>2 DEF IInv, ArraysInv, ArrayOK
  <2>5. /\ block.adjusted \/ AsRecorded(a)
        /\ a.size = a.stride * a.count
        /\ array.item = IF a.bits = 24 THEN 4 ELSE a.bytes
        /\ array.strides = <<IF a.bits = 24 THEN 4 * a.channels ELSE a.stride, array.item>>
    BY <2>1, <2>2, <2>4, Zenon DEF FramesOK
  <2>6. /\ array.strides[1] = IF a.bits = 24 THEN 4 * a.channels ELSE a.stride
        /\ array.strides[2] = array.item
    BY <2>5
  <2>7. frame \in 0..(a.count - 1) /\ channel \in 0..(a.channels - 1) BY <2>1
  <2>8. j \in 0..(array.item - 1) BY <2>2
  <2>9. IF block.adjusted
          THEN /\ ~AsRecorded(a)
               /\ a.bits = 24 \/ a.stride \in {2, 4, 8}
               /\ block.bytes = IF a.bits = 24 THEN Widened(a, AsRead(a.size))
                                               ELSE Swapped(a, AsRead(a.size))
          ELSE block.bytes = AsRead(a.size)
    BY <2>1, Zenon DEF IInv, AudioInv
  <2>10. CASE AsRecorded(a)
    <3>1. /\ array.item = a.bytes /\ array.strides[1] = a.stride /\ array.strides[2] = a.bytes
      BY <2>5, <2>6, <2>10 DEF AsRecorded
    <3>2. block.bytes = AsRead(a.size) BY <2>9, <2>10
    <3>3. j \in 0..(a.bytes - 1) /\ a.bytes \in Nat BY <2>3, <2>8, <3>1, AudioType
    <3>4. AsRead(a.size)[1 + frame * a.stride + channel * a.bytes + j]
            = Recorded(a, frame, channel, j)
      BY <2>3, <2>5, <2>7, <2>10, <3>3, ReadSamples
    <3>5. j # a.bytes BY <3>3
    <3> QED BY <2>1, <2>2, <3>1, <3>2, <3>4, <3>5, Zenon
  <2>11. CASE ~AsRecorded(a) /\ a.bits = 24
    <3>1. /\ array.item = 4 /\ array.strides[1] = 4 * a.channels /\ array.strides[2] = 4
      BY <2>5, <2>6, <2>11
    <3>2. block.bytes = Widened(a, AsRead(a.size)) BY <2>5, <2>9, <2>11
    <3>3. j \in 0..3 BY <2>8, <3>1
    <3>4. Widened(a, AsRead(a.size))[1 + frame * (4 * a.channels) + channel * 4 + j]
            = IF j = a.bytes THEN <<"top", Recorded(a, frame, channel, j - 1)[2]>>
                             ELSE Recorded(a, frame, channel, j)
      <4>1. a.size = a.stride * a.count /\ a.bits = 24 BY <2>5, <2>11
      <4> QED BY <4>1, <2>3, <2>7, <3>3, WidenedSamples, Zenon
    <3> QED BY <2>1, <2>2, <3>1, <3>2, <3>4, Zenon
  <2>12. CASE ~AsRecorded(a) /\ a.bits # 24
    <3>1. /\ array.item = a.bytes /\ array.strides[1] = a.stride /\ array.strides[2] = a.bytes
      BY <2>5, <2>6, <2>12
    <3>2. block.bytes = Swapped(a, AsRead(a.size)) BY <2>5, <2>9, <2>12
    <3>3. j \in 0..(a.bytes - 1) /\ a.bytes \in Nat BY <2>3, <2>8, <3>1, AudioType
    <3>4. a.big /\ a.channels = 1 /\ a.stride = a.bytes
      BY <2>1, <2>12 DEF Swappable, AsRecorded
    <3>5. channel = 0 BY <2>7, <3>4
    <3>6. Swapped(a, AsRead(a.size))[1 + frame * a.stride + 0 * a.bytes + j]
            = Recorded(a, frame, 0, j)
      BY <2>3, <2>5, <2>7, <2>12, <3>3, <3>4, SwappedSamples
    <3>7. j # a.bytes BY <3>3
    <3> QED BY <2>1, <2>2, <3>1, <3>2, <3>5, <3>6, <3>7, Zenon
  <2> QED BY <2>10, <2>11, <2>12
<1> QED BY <1>1, IInvHolds, PTL
-----------------------------------------------------------------------------
(* What is written back.                                                   *)

LEMMA Euclid ==
  \A a \in Nat, d \in Nat \ {0} :
    /\ a \div d \in Nat /\ a % d \in 0..(d - 1) /\ a % d \in Nat
    /\ a = (a \div d) * d + (a % d)
<1>1. ASSUME NEW a \in Nat, NEW d \in Nat \ {0}
      PROVE  /\ a \div d \in Nat /\ a % d \in 0..(d - 1) /\ a % d \in Nat
             /\ a = (a \div d) * d + (a % d)
  <2>1. a \in Int /\ d \in Int /\ d > 0 OBVIOUS
  <2>2. PICK q, r : q = a \div d /\ r = a % d OBVIOUS
  <2>3. q \in Nat /\ r \in 0..(d - 1) /\ a = q * d + r BY <2>1, <2>2
  <2> QED BY <2>2, <2>3
<1> QED BY <1>1

LEMMA Tight ==
  \A a, b, c \in Nat : a <= b /\ b * c <= a * c /\ c # 0 => a = b
<1>1. ASSUME NEW a \in Nat, NEW b \in Nat, NEW c \in Nat, a <= b, b * c <= a * c, c # 0, a # b
      PROVE  FALSE
  <2>1. (a + 1) * c <= b * c BY <1>1, MulLe, a + 1 \in Nat, a + 1 <= b
  <2>2. (a + 1) * c = a * c + c /\ a * c \in Nat /\ b * c \in Nat OBVIOUS
  <2> QED BY <1>1, <2>1, <2>2
<1> QED BY <1>1

(* A byte is found by the row, column and channel of its element.          *)
PlacedBy(item, columns, channels, m) ==
  LET element == m \div item
      pixel == element \div channels
  IN /\ pixel \div columns \in Nat
     /\ pixel % columns \in 0..(columns - 1)
     /\ element % channels \in 0..(channels - 1)
     /\ m % item \in Nat
     /\ m = (pixel \div columns) * (columns * (channels * item))
              + (pixel % columns) * (channels * item)
              + (element % channels) * item + (m % item)

LEMMA BytePlace ==
  ASSUME NEW item \in Nat \ {0}, NEW columns \in Nat \ {0}, NEW channels \in Nat \ {0},
         NEW m \in Nat
  PROVE  PlacedBy(item, columns, channels, m)
<1>1. PICK e, b : e = m \div item /\ b = m % item OBVIOUS
<1>2. e \in Nat /\ b \in Nat /\ m = e * item + b BY <1>1, Euclid
<1>3. PICK p, h : p = e \div channels /\ h = e % channels OBVIOUS
<1>4. p \in Nat /\ h \in 0..(channels - 1) /\ h \in Nat /\ e = p * channels + h
  BY <1>2, <1>3, Euclid
<1>5. PICK r, c : r = p \div columns /\ c = p % columns OBVIOUS
<1>6. r \in Nat /\ c \in 0..(columns - 1) /\ c \in Nat /\ p = r * columns + c
  BY <1>4, <1>5, Euclid
<1>7. e * item = p * (channels * item) + h * item BY <1>2, <1>4
<1>8. p * (channels * item) = r * (columns * (channels * item)) + c * (channels * item)
  <2>1. PICK x \in Nat : x = channels * item OBVIOUS
  <2>2. p * x = r * (columns * x) + c * x BY <1>4, <1>6, <2>1
  <2> QED BY <2>1, <2>2
<1>9. m = r * (columns * (channels * item)) + c * (channels * item) + h * item + b
  BY <1>2, <1>7, <1>8
<1> QED BY <1>1, <1>2, <1>3, <1>4, <1>5, <1>6, <1>9, Zenon DEF PlacedBy

(* An array without padding shows the bytes as they come. *)
LEMMA DenseShown ==
  ASSUME NEW array \in ArraySet, NEW columns \in Nat, NEW channels \in Nat,
         columns = Length(array, 2), channels = Length(array, 3),
         BytesOf(array) # 0 =>
           \A r \in Nat : \A c \in 0..(columns - 1) : \A h \in 0..(channels - 1) :
             Offset(array, 1 + r, 1 + c, 1 + h)
               = r * (columns * (channels * array.item)) + c * (channels * array.item)
                   + h * array.item,
         NEW bytes
  PROVE  Shown(array, bytes) = SubSeq(bytes, 1, BytesOf(array))
<1>1. PICK n : n = BytesOf(array) OBVIOUS
<1>2. n \in Nat BY <1>1, BytesOfType
<1> DEFINE element(k) == (k - 1) \div array.item
           pixel(k) == element(k) \div Length(array, 3)
           place(k) == 1 + Offset(array, 1 + (pixel(k) \div Length(array, 2)),
                                  1 + (pixel(k) % Length(array, 2)),
                                  1 + (element(k) % Length(array, 3)))
                         + ((k - 1) % array.item)
<1>3. ASSUME NEW k \in 1..n PROVE place(k) = k
  <2>1. array.item \in Nat \ {0} /\ columns \in Nat \ {0} /\ channels \in Nat \ {0}
    <3>1. PICK i, l : i = array.item /\ l = Length(array, 1) OBVIOUS
    <3>2. i \in Nat /\ l \in Nat
      <4>1. array.shape \in Seq(Nat) /\ array.item \in Nat BY DEF ArraySet
      <4>2. 1 <= Len(array.shape) => array.shape[1] \in Nat BY <4>1
      <4> QED BY <3>1, <4>1, <4>2 DEF Length
    <3>3. n = i * l * columns * channels BY <1>1, <3>1 DEF BytesOf
    <3>4. n # 0 BY <1>2
    <3>5. i # 0 /\ columns # 0 /\ channels # 0
      <4>1. i = 0 => n = 0 BY <3>2, <3>3
      <4>2. columns = 0 => n = 0 BY <3>2, <3>3
      <4>3. channels = 0 => n = 0 BY <3>2, <3>3
      <4> QED BY <3>4, <4>1, <4>2, <4>3
    <3> QED BY <3>1, <3>2, <3>5
  <2>2. PICK m : m = k - 1 OBVIOUS
  <2>3. m \in Nat /\ k = 1 + m BY <1>2, <2>2
  <2>4. PICK item \in Nat \ {0} : item = array.item BY <2>1
  <2>5. PICK e : e = m \div item OBVIOUS
  <2>6. PICK p : p = e \div channels OBVIOUS
  <2>7. PICK r, c, h, b :
          r = p \div columns /\ c = p % columns /\ h = e % channels /\ b = m % item
    OBVIOUS
  <2>8. /\ r \in Nat /\ c \in 0..(columns - 1) /\ h \in 0..(channels - 1) /\ b \in Nat
        /\ m = r * (columns * (channels * item)) + c * (channels * item) + h * item + b
    <3>1. PlacedBy(item, columns, channels, m) BY <2>1, <2>3, BytePlace
    <3> QED BY <3>1, <2>5, <2>6, <2>7, Zenon DEF PlacedBy
  <2>9. PICK o : o = Offset(array, 1 + r, 1 + c, 1 + h) OBVIOUS
  <2>10. o = r * (columns * (channels * item)) + c * (channels * item) + h * item
    <3>1. BytesOf(array) # 0 BY <1>1, <1>2
    <3> QED BY <3>1, <2>4, <2>8, <2>9
  <2>11. place(k) = 1 + o + b BY <2>2, <2>4, <2>5, <2>6, <2>7, <2>9, Zenon
  <2>12. r * (columns * (channels * item)) \in Nat /\ c * (channels * item) \in Nat
           /\ h * item \in Nat
    BY <2>8
  <2> QED BY <2>3, <2>8, <2>10, <2>11, <2>12
<1>4. Shown(array, bytes) = [k \in 1..n |-> bytes[place(k)]] BY <1>1, Zenon DEF Shown
<1> HIDE DEF place
<1>5. SubSeq(bytes, 1, n) = [k \in 1..n |-> bytes[k]] BY <1>2
<1> QED BY <1>1, <1>3, <1>4, <1>5

(* Rows, columns and channels that are together as many as the n bytes     *)
(* their rows are within leave no padding between them.                    *)
Unpadded(item, rows, columns, channels, step, stride, n) ==
  step = channels * item /\ stride = columns * (channels * item)

LEMMA NoPadding ==
  ASSUME NEW item \in Nat, NEW rows \in Nat, NEW columns \in Nat, NEW channels \in Nat,
         NEW step \in Nat, NEW stride \in Nat, NEW n \in Nat \ {0},
         channels * item <= step, columns * step <= stride, rows * stride <= n,
         n = item * rows * columns * channels
  PROVE  Unpadded(item, rows, columns, channels, step, stride, n)
<1>1. PICK s, t \in Nat : s = channels * item /\ t = columns * s OBVIOUS
<1>2. rows # 0 /\ columns # 0
  <2>1. rows = 0 => n = 0 OBVIOUS
  <2>2. columns = 0 => n = 0 OBVIOUS
  <2> QED BY <2>1, <2>2
<1>3. n = t * rows BY <1>1
<1>4. s * columns <= step * columns BY <1>1, MulLe
<1>5. s * columns = t /\ step * columns = columns * step /\ columns * step \in Nat BY <1>1
<1>6. t <= stride BY <1>4, <1>5
<1>7. stride * rows <= t * rows
  <2>1. rows * stride = stride * rows OBVIOUS
  <2> QED BY <2>1, <1>3
<1>8. t = stride BY <1>2, <1>6, <1>7, Tight
<1>9. step * columns <= s * columns BY <1>5, <1>8
<1>10. s = step BY <1>1, <1>2, <1>9, Tight
<1> QED BY <1>1, <1>8, <1>10 DEF Unpadded

(* An image that has as many bytes as its array shows no other.            *)
LEMMA ImageShown ==
  ASSUME NEW spec, SpecOK(spec), spec.format = "RAW", memory \in Nat,
         NEW bytes, Len(bytes) = spec.raw, BytesOf(ImageArray(spec, TRUE)) = spec.raw
  PROVE  Shown(ImageArray(spec, TRUE), bytes) = SubSeq(bytes, 1, spec.raw)
<1>1. PICK layout : layout = PixelLayout(spec, TRUE) OBVIOUS
<1>2. PICK step, n, w : step = layout.bytes /\ n = layout.channels /\ w = layout.width OBVIOUS
<1>3. /\ step \in Nat /\ n \in Nat \ {0} /\ w \in Nat /\ w * step <= spec.stride
  BY <1>1, <1>2, LayoutFits
<1>4. PICK item : item = step \div n OBVIOUS
<1>5. item \in Nat /\ n * item <= step BY <1>3, <1>4, QuotientFits
<1>6. /\ spec.height \in Nat /\ spec.stride \in Nat /\ spec.raw \in Nat
      /\ spec.height * spec.stride <= spec.raw
  BY DEF SpecOK, ImageSpecType
<1>7. PICK array : array = ImageArray(spec, TRUE) OBVIOUS
<1>8. array \in ArraySet BY <1>7, ImageArrayFits
<1>9. CASE n > 1
  <2>1. PICK shape : shape = <<spec.height, w, n>> OBVIOUS
  <2>2. PICK strides : strides = <<spec.stride, step, item>> OBVIOUS
  <2>3. SubSeq(shape, 1, 3) = shape /\ SubSeq(strides, 1, 3) = strides
    BY <2>1, <2>2, <1>3, <1>5, <1>6, FirstOf
  <2>4. 2 + (IF n > 1 THEN 1 ELSE 0) = 3 BY <1>9
  <2>5. array = [memory |-> memory, item |-> item, format |-> FormatSize(spec.pixel),
                 shape |-> shape, strides |-> strides]
    BY <1>1, <1>2, <1>4, <1>7, <2>1, <2>2, <2>3, <2>4, Zenon DEF ImageArray, Array
  <2>6. /\ array.item = item /\ array.shape = shape /\ array.strides = strides BY <2>5
  <2>7. /\ Len(shape) = 3 /\ shape[1] = spec.height /\ shape[2] = w /\ shape[3] = n
        /\ strides[1] = spec.stride /\ strides[2] = step /\ strides[3] = item
    BY <2>1, <2>2
  <2>8. /\ Length(array, 1) = spec.height /\ Length(array, 2) = w /\ Length(array, 3) = n
    BY <2>6, <2>7 DEF Length
  <2>9. BytesOf(array) = item * spec.height * w * n BY <2>6, <2>8, Zenon DEF BytesOf
  <2>10. ASSUME BytesOf(array) # 0, NEW r \in Nat, NEW c \in 0..(w - 1), NEW h \in 0..(n - 1)
         PROVE  Offset(array, 1 + r, 1 + c, 1 + h)
                  = r * (w * (n * array.item)) + c * (n * array.item) + h * array.item
    <3>1. step = n * item /\ spec.stride = w * (n * item)
      <4>1. PICK raw \in Nat \ {0} : raw = spec.raw BY <2>10, <1>6, <1>7
      <4>2. raw = item * spec.height * w * n BY <4>1, <2>9, <1>7
      <4>3. n \in Nat BY <1>3
      <4>4. spec.height * spec.stride <= raw BY <4>1, <1>6
      <4>5. Unpadded(item, spec.height, w, n, step, spec.stride, raw)
        BY <4>1, <4>2, <4>3, <4>4, <1>3, <1>5, <1>6, NoPadding
      <4> QED BY <4>5 DEF Unpadded
    <3>2. Len(array.shape) > 1 /\ Len(array.shape) > 2 BY <2>6, <2>7
    <3>3. Offset(array, 1 + r, 1 + c, 1 + h)
            = ((1 + r) - 1) * array.strides[1] + ((1 + c) - 1) * array.strides[2]
                + ((1 + h) - 1) * array.strides[3]
      BY <3>2, Zenon DEF Offset
    <3>4. (1 + r) - 1 = r /\ (1 + c) - 1 = c /\ (1 + h) - 1 = h OBVIOUS
    <3> QED BY <3>1, <3>3, <3>4, <2>6, <2>7, Zenon
  <2>11. Shown(array, bytes) = SubSeq(bytes, 1, BytesOf(array))
    BY <1>3, <1>8, <2>8, <2>10, DenseShown
  <2> QED BY <1>7, <2>11
<1>10. CASE ~(n > 1)
  <2>1. n = 1 BY <1>3, <1>10
  <2>2. PICK shape : shape = <<spec.height, w>> OBVIOUS
  <2>3. PICK strides : strides = <<spec.stride, step>> OBVIOUS
  <2>4. /\ SubSeq(<<spec.height, w, n>>, 1, 2) = shape
        /\ SubSeq(<<spec.stride, step, item>>, 1, 2) = strides
    BY <2>2, <2>3, <1>3, <1>5, <1>6, FirstOf
  <2>5. 2 + (IF n > 1 THEN 1 ELSE 0) = 2 BY <1>10
  <2>6. array = [memory |-> memory, item |-> item, format |-> FormatSize(spec.pixel),
                 shape |-> shape, strides |-> strides]
    BY <1>1, <1>2, <1>4, <1>7, <2>4, <2>5, Zenon DEF ImageArray, Array
  <2>7. /\ array.item = item /\ array.shape = shape /\ array.strides = strides BY <2>6
  <2>8. /\ Len(shape) = 2 /\ shape[1] = spec.height /\ shape[2] = w
        /\ strides[1] = spec.stride /\ strides[2] = step
    BY <2>2, <2>3
  <2>9. /\ Length(array, 1) = spec.height /\ Length(array, 2) = w /\ Length(array, 3) = 1
    BY <2>7, <2>8 DEF Length
  <2>10. BytesOf(array) = item * spec.height * w * 1 BY <2>7, <2>9, Zenon DEF BytesOf
  <2>11. ASSUME BytesOf(array) # 0, NEW r \in Nat, NEW c \in 0..(w - 1), NEW h \in 0..(1 - 1)
         PROVE  Offset(array, 1 + r, 1 + c, 1 + h)
                  = r * (w * (1 * array.item)) + c * (1 * array.item) + h * array.item
    <3>1. step = 1 * item /\ spec.stride = w * (1 * item)
      <4>1. PICK raw \in Nat \ {0} : raw = spec.raw BY <2>11, <1>6, <1>7
      <4>2. raw = item * spec.height * w * 1 BY <4>1, <2>10, <1>7
      <4>3. 1 * item <= step /\ 1 \in Nat BY <1>5, <2>1
      <4>4. spec.height * spec.stride <= raw BY <4>1, <1>6
      <4>5. Unpadded(item, spec.height, w, 1, step, spec.stride, raw)
        BY <4>1, <4>2, <4>3, <4>4, <1>3, <1>5, <1>6, NoPadding
      <4> QED BY <4>5 DEF Unpadded
    <3>2. Len(array.shape) > 1 /\ ~(Len(array.shape) > 2) BY <2>7, <2>8
    <3>3. Offset(array, 1 + r, 1 + c, 1 + h)
            = ((1 + r) - 1) * array.strides[1] + ((1 + c) - 1) * array.strides[2] + 0
      BY <3>2, Zenon DEF Offset
    <3>4. (1 + r) - 1 = r /\ (1 + c) - 1 = c /\ h * item = 0 BY <1>5
    <3> QED BY <3>1, <3>3, <3>4, <2>7, <2>8, Zenon
  <2>12. Shown(array, bytes) = SubSeq(bytes, 1, BytesOf(array))
    BY <1>3, <1>8, <2>9, <2>11, DenseShown, 1 \in Nat
  <2> QED BY <1>7, <2>12
<1> QED BY <1>9, <1>10

LEMMA FlatShown ==
  ASSUME memory \in Nat, NEW bytes, Len(bytes) \in Nat
  PROVE  Shown(Flat(bytes), bytes) = SubSeq(bytes, 1, BytesOf(Flat(bytes)))
<1>1. PICK array : array = Flat(bytes) OBVIOUS
<1>2. array \in ArraySet BY <1>1, FlatFits
<1>3. /\ array.item = 1 /\ array.shape = <<Len(bytes)>> /\ array.strides = << 1 >>
  BY <1>1 DEF Flat, Array
<1>4. Len(array.shape) = 1 /\ array.strides[1] = 1 BY <1>3
<1>5. Length(array, 2) = 1 /\ Length(array, 3) = 1 BY <1>4 DEF Length
<1>6. ASSUME NEW r \in Nat, NEW c \in 0..(1 - 1), NEW h \in 0..(1 - 1)
      PROVE  Offset(array, 1 + r, 1 + c, 1 + h)
               = r * (1 * (1 * array.item)) + c * (1 * array.item) + h * array.item
  <2>1. ~(Len(array.shape) > 1) /\ ~(Len(array.shape) > 2) BY <1>4
  <2>2. Offset(array, 1 + r, 1 + c, 1 + h) = ((1 + r) - 1) * array.strides[1] + 0 + 0
    BY <2>1, Zenon DEF Offset
  <2> QED BY <2>2, <1>3, <1>4
<1>7. Shown(array, bytes) = SubSeq(bytes, 1, BytesOf(array))
  BY <1>2, <1>5, <1>6, DenseShown, 1 \in Nat
<1> QED BY <1>1, <1>7

LEMMA WriteBackStep ==
  ASSUME IInv, NEW k \in DOMAIN arrays, WriteBack(k), image' # None
  PROVE  image'.bytes = Shown(arrays[k], block.bytes)
<1>1. PICK array : array = arrays[k] OBVIOUS
<1>2. /\ block.content = "image" /\ SpecOK(block.spec) /\ memory \in Nat
      /\ Len(block.bytes) \in Nat
  BY DEF WriteBack, IInv, Typed
<1>3. /\ block.spec.format = "RAW" => BytesOf(array) = block.spec.raw
      /\ image' = [spec |-> block.spec, bytes |-> SubSeq(block.bytes, 1, BytesOf(array))]
  BY <1>1 DEF WriteBack, InitBytesFromPyBuffer, MakeImage, Raise
<1>4. image'.bytes = SubSeq(block.bytes, 1, BytesOf(array)) BY <1>3
<1>5. ImageOK(array) BY <1>1 DEF IInv, ArraysInv, ArrayOK
<1>6. CASE array = Flat(block.bytes) BY <1>1, <1>2, <1>4, <1>6, FlatShown
<1>7. CASE Structured("image") /\ array = ImageArray(block.spec, TRUE)
  <2>1. /\ block.spec.format = "RAW" /\ Len(block.bytes) = block.spec.raw
    BY <1>2, <1>7 DEF IInv, Typed, Structured
  <2>2. Shown(array, block.bytes) = SubSeq(block.bytes, 1, block.spec.raw)
    BY <1>2, <1>3, <1>7, <2>1, ImageShown
  <2> QED BY <1>1, <1>3, <1>4, <2>1, <2>2
<1> QED BY <1>2, <1>5, <1>6, <1>7 DEF ImageOK

(* An array of an image handed back to be written as that image is refused *)
(* or gives the elements it shows (ImageBuffer::initBytesFromPyBuffer,     *)
(* whose size check lets no padded rows and no single plane pass).         *)
THEOREM WrittenBackStaysShown == Spec => WrittenBackIsShown
<1>1. IInv /\ [Next]_vars =>
        [\A k \in DOMAIN arrays :
           WriteBack(k) /\ image' # None => image'.bytes = Shown(arrays[k], block.bytes)]_vars
  BY WriteBackStep
<1> QED BY <1>1, IInvHolds, PTL DEF Spec, WrittenBackIsShown
=============================================================================
