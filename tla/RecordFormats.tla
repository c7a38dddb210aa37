--------------------------- MODULE RecordFormats ---------------------------
(***************************************************************************)
(* What goes into a record: the streams a factory makes, the data layouts  *)
(* and content blocks of their record formats (csrc/writer/PyRecordable.*, *)
(* StreamFactory.cpp, PyDataPiece.h), the layouts Python fills in and the  *)
(* sources it creates a record from (pyvrs/writer.py, datalayout.py).      *)
(*                                                                         *)
(* The caller names the layouts of a record next to its arrays, but the    *)
(* record is made from the layouts of the stream's format: the names are   *)
(* only checked.  When records may be created, in which order they are     *)
(* written and what a flush does is in VRSWriter.                          *)
(***************************************************************************)
EXTENDS Integers, FiniteSets, Sequences, SequencesExt

CONSTANTS
  OtherStreams, \* the streams an application registers besides those of VRSWriter, by name
  Names,        \* names asked for
  Flavors,      \* flavors asked for
  Given,        \* what layouts are given: [label, value]; an array's value is a sequence
  Arrays,       \* numpy arrays: [id, size, step]; with a step of 1 contiguous
  MaxStreams,   \* bounds the streams made
  MaxSources,   \* bounds the sources given for a record
  None

FormatTypes == {"configuration", "data", "state"}

-----------------------------------------------------------------------------
(* The record formats: data layouts, which are sets of pieces, and the     *)
(* sizes of the content blocks behind them, None for one that takes what   *)
(* is left, as a raw image of unknown dimensions does.                     *)

Piece(label, kind, size) == [label |-> label, kind |-> kind, size |-> size]

MyConfiguration ==
  {Piece("image_width", "value", 1), Piece("image_height", "value", 1),
   Piece("image_pixel_format", "value", 1)}

MyMetadata ==
  {Piece("room_temperature", "value", 1), Piece("camera_id", "value", 1),
   Piece("some_string_int_map", "string map", None), Piece("doubles", "array", 3),
   Piece("some_string", "string", None)}

PyRecordFormat(layouts, blocks) == [layouts |-> layouts, blocks |-> blocks]

(* A stream has a format for each record type, an empty one for a type it  *)
(* is given none for, as the state records of all streams here.            *)
PyStream(flavor, configuration, data) ==
  [flavor |-> flavor,
   formats |-> [configuration |-> configuration, data |-> data,
                state |-> PyRecordFormat(<<>>, <<>>)]]

SampleStream(flavor) ==
  PyStream(flavor, PyRecordFormat(<<MyConfiguration>>, <<>>), PyRecordFormat(<<MyMetadata>>, <<>>))

SampleStreamWithImage ==
  PyStream("", PyRecordFormat(<<MyConfiguration>>, <<>>), PyRecordFormat(<<MyMetadata>>, <<None>>))

SampleStreamWithMultipleDataLayout ==
  PyStream("", PyRecordFormat(<<MyConfiguration>>, <<>>),
           PyRecordFormat(<<MyMetadata, MyMetadata>>, <<None>>))

(* VRSWriter::init registers these streams under their names. *)
WriterStreams ==
  [sample |-> SampleStream(""),
   sample_with_flavor_1 |-> SampleStream("flavor_1"),
   sample_with_flavor_2 |-> SampleStream("flavor_2"),
   sample_with_image |-> SampleStreamWithImage,
   sample_with_multiple_data_layout |-> SampleStreamWithMultipleDataLayout]

RegisteredStreams ==
  [name \in DOMAIN WriterStreams \cup DOMAIN OtherStreams |->
     IF name \in DOMAIN WriterStreams THEN WriterStreams[name] ELSE OtherStreams[name]]

FlavoredStreams == [flavored_sample |-> [flavor \in Flavors |-> SampleStream(flavor)]]

(* The constructors of a record format take two layouts at most. *)
IsPyRecordFormat(format) ==
  /\ Len(format.layouts) \in 0..2 /\ DOMAIN format.layouts = 1..Len(format.layouts)
  /\ format.blocks \in Seq(Nat \cup {None})

ASSUME RecordFormatsAssumption ==
  /\ \A name \in DOMAIN OtherStreams, type \in FormatTypes :
       IsPyRecordFormat(OtherStreams[name].formats[type])
  /\ MaxStreams \in Nat /\ MaxSources \in Nat
  /\ \A a \in Arrays : a.size \in Nat /\ a.step \in Nat \ {0}

-----------------------------------------------------------------------------
VARIABLES
  made,    \* the streams made, in order
  staged,  \* per layout <<stream, type, index>>, the values of its pieces
  record   \* the last record created, with what was passed for it; None after an exception

formatsVars == <<made, staged, record>>

FormatOf(s, type) == made[s].formats[type]

(* getMembers: the pieces of a layout that have a wrapper to fill them in. *)
GetMembers(layout) ==
  {piece \in layout : piece.kind \in {"value", "array", "vector", "string map", "string"}}

(* The layouts of a stream with nothing filled in. *)
NewLayouts(s, stream) ==
  LET places(type) == {<<s, type, i>> : i \in DOMAIN stream.formats[type].layouts}
      labels(l) == {piece.label : piece \in GetMembers(stream.formats[l[2]].layouts[l[3]])}
  IN [l \in UNION {places(type) : type \in FormatTypes} |-> [label \in labels(l) |-> None]]

FormatsInit == made = <<>> /\ staged = [l \in {} |-> <<>>] /\ record = None

(* A stream has layouts of its own, whatever streams of that name there    *)
(* are.                                                                    *)
AddStream(stream) ==
  /\ Len(made) < MaxStreams
  /\ made' = Append(made, stream)
  /\ staged' = staged @@ NewLayouts(Len(made) + 1, stream)
  /\ record' = None

(* createStream, createFlavoredStream: a name nobody registered with the   *)
(* function is a ValueError.                                               *)
CreateStreamNamed(name) ==
  IF name \in DOMAIN RegisteredStreams THEN AddStream(RegisteredStreams[name])
  ELSE record' = None /\ UNCHANGED <<made, staged>>

CreateFlavoredStream(name, flavor) ==
  IF name \in DOMAIN FlavoredStreams THEN AddStream(FlavoredStreams[name][flavor])
  ELSE record' = None /\ UNCHANGED <<made, staged>>

(* The wrappers of an array refuse more values than it has room for with a *)
(* ValueError; all others hold what they are given.                        *)
Holds(piece, value) == piece.kind = "array" => Len(value) <= piece.size

(* layout.label = value: what is refused, or has no member to hold it (an  *)
(* AttributeError), leaves the layout as it was.                           *)
SetPiece(l, label, value) ==
  /\ staged' = IF \E piece \in GetMembers(FormatOf(l[1], l[2]).layouts[l[3]]) :
                    piece.label = label /\ Holds(piece, value)
                 THEN [staged EXCEPT ![l][label] = value] ELSE staged
  /\ record' = None
  /\ UNCHANGED made

-----------------------------------------------------------------------------
(* A source is <<"layout", layout>>, <<"array", array>>, or something else *)
(* that is passed over.                                                    *)

Sources == {<<"layout", l>> : l \in DOMAIN staged} \cup {<<"array", a>> : a \in Arrays}
             \cup {<<"other">>}

(* Those of a kind, in their order: the sources are gone through once.     *)
Of(kind, srcs) ==
  LET of[k \in 0..Len(srcs)] ==
        IF k = 0 THEN <<>>
        ELSE IF srcs[k][1] = kind THEN Append(of[k - 1], srcs[k][2]) ELSE of[k - 1]
  IN of[Len(srcs)]

(* A layout of the same type and index will do. *)
LayoutsMatchByPlace(s, type, layouts) ==
  /\ Len(layouts) = Len(FormatOf(s, type).layouts)
  /\ \A i \in DOMAIN layouts : layouts[i][2] = type /\ layouts[i][3] = i

(* The layouts given must be the format's own objects, all and in order.   *)
LayoutsMatch(s, type, layouts) ==
  layouts = [i \in DOMAIN FormatOf(s, type).layouts |-> <<s, type, i>>]

(* parse_create_record_params accepts the sources. *)
ParseCreateRecordParams(s, type, srcs) ==
  /\ LayoutsMatch(s, type, Of("layout", srcs))
  /\ Len(Of("array", srcs)) <= 3

(* The memory a data source chunk takes of an array: as many bytes as the  *)
(* array has, one after the other, whatever its strides.                   *)
Chunk(array) == [k \in 1..array.size |-> <<array.id, k - 1>>]

(* What the array has: the elements a step apart.                          *)
Elements(array) == [k \in 1..array.size |-> <<array.id, (k - 1) * array.step>>]

(* Of two layouts the second is left out. *)
GetDataSourceOne(s, type, arrays) ==
  [i \in DOMAIN FormatOf(s, type).layouts \ {2} |-> staged[<<s, type, i>>]]
    \o FlattenSeq([k \in DOMAIN arrays |-> Chunk(arrays[k])])

(* getDataSource, copied into the record: the layouts as they are by now,  *)
(* then the chunks.                                                        *)
GetDataSource(s, type, arrays) ==
  [i \in DOMAIN FormatOf(s, type).layouts |-> staged[<<s, type, i>>]]
    \o FlattenSeq([k \in DOMAIN arrays |-> Chunk(arrays[k])])

(* create_config_record, create_data_record, create_state_record.  They do *)
(* not depend on the last record: one is made after each other call.       *)
CreateRecordFrom(s, type, srcs) ==
  /\ record = None
  /\ record' = IF ParseCreateRecordParams(s, type, srcs)
                 THEN [stream |-> s, type |-> type,
                       layouts |-> [k \in DOMAIN Of("layout", srcs) |->
                                      staged[Of("layout", srcs)[k]]],
                       arrays |-> Of("array", srcs),
                       payload |-> GetDataSource(s, type, Of("array", srcs))]
                 ELSE None
  /\ UNCHANGED <<made, staged>>

FormatsNext ==
  \/ \E name \in Names : CreateStreamNamed(name)
  \/ \E name \in Names, flavor \in Flavors : CreateFlavoredStream(name, flavor)
  \/ \E l \in DOMAIN staged, given \in Given : SetPiece(l, given.label, given.value)
  \/ \E s \in DOMAIN made, type \in FormatTypes, n \in 0..MaxSources :
       \E srcs \in [1..n -> Sources] : CreateRecordFrom(s, type, srcs)

FormatsSpec == FormatsInit /\ [][FormatsNext]_formatsVars

-----------------------------------------------------------------------------
(* Reading a record back, as the library does with the record format that  *)
(* addRecordFormat gave it (getRecordFormat): the layouts, which know      *)
(* their sizes, then the content blocks, each as many bytes as its size    *)
(* says.                                                                   *)

(* The payload behind the layouts, cut by the sizes of the content blocks. *)
CutBySizes(bytes, sizes) ==
  LET first[j \in 1..Len(sizes)] == IF j = 1 THEN 1 ELSE first[j - 1] + sizes[j - 1] IN
  [j \in DOMAIN sizes |->
     SubSeq(bytes, first[j], IF sizes[j] = None THEN Len(bytes) ELSE first[j] + sizes[j] - 1)]

ReadBack ==
  LET format == FormatOf(record.stream, record.type)
      n == Len(format.layouts)
  IN [layouts |-> SubSeq(record.payload, 1, n),
      blocks |-> CutBySizes(SubSeq(record.payload, n + 1, Len(record.payload)), format.blocks)]

-----------------------------------------------------------------------------
(* Properties.                                                             *)

(* The arrays are as many and as large as the content blocks of the format. *)
ArraysFit ==
  LET sizes == FormatOf(record.stream, record.type).blocks IN
  /\ Len(record.arrays) = Len(sizes)
  /\ \A k \in DOMAIN sizes : sizes[k] \in {None, record.arrays[k].size}

Contiguous == \A k \in DOMAIN record.arrays : record.arrays[k].step = 1

(* A record has the values of the very layouts that were passed for it, in *)
(* the order they were passed in, and then the elements of the arrays:     *)
(* although it is made from the format's layouts, and other streams and    *)
(* record types have layouts that look the same.  The arrays must be       *)
(* contiguous; see the README for the others.                              *)
WhatIsPassedIsWritten ==
  record # None /\ Contiguous =>
    record.payload =
      record.layouts \o FlattenSeq([k \in DOMAIN record.arrays |-> Elements(record.arrays[k])])

(* Read back by the format of its stream, a record with arrays that fit    *)
(* the content blocks gives each layout and each array as it was passed.   *)
RoundTrip ==
  record # None /\ Contiguous /\ ArraysFit =>
    /\ ReadBack.layouts = record.layouts
    /\ ReadBack.blocks = [k \in DOMAIN record.arrays |-> Elements(record.arrays[k])]
=============================================================================
