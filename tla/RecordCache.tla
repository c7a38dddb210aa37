----------------------------- MODULE RecordCache -----------------------------
(***************************************************************************)
(* The content blocks of a record as the stream player delivers them to    *)
(* the reader's lastRecord_ (RecordCache, csrc/utils/PyRecord.h, and       *)
(* BaseVRSReaderStreamPlayer::setBlock, csrc/reader/VRSReader.cpp).        *)
(*                                                                         *)
(* A cache has one list of blocks per kind; a block is named by the record *)
(* it was read from and its position in that record.  The bytes are left   *)
(* out.  A block of unknown size is put into the cache and ends the        *)
(* record: setBlock returns false (line 303) and none behind it is read.   *)
(***************************************************************************)
EXTENDS Naturals, Sequences, Functions

CONSTANT Blocks     \* for each record, the sequence of the kinds of its blocks,
                    \* up to the first of unknown size

Kinds == {"layout", "image", "audio", "custom", "unsupported"}

EmptyCache == [k \in Kinds |-> <<>>]

(* setBlock: a list at least as long as the block's index in its record is *)
(* taken for what an earlier record left there.                            *)
SetBlock(blocks, r, blockIndex) ==
  IF Len(blocks) >= blockIndex
    THEN <<<<r, blockIndex>>>>
    ELSE Append(blocks, <<r, blockIndex>>)

(* A list of one kind after one more block of the record, at a 0-based     *)
(* index: onDataLayoutRead appends, the others go through setBlock.        *)
AddBlock(kind, blocks, r, blockIndex) ==
  IF Blocks[r][blockIndex + 1] # kind THEN blocks
  ELSE IF kind = "layout" THEN Append(blocks, <<r, blockIndex>>)
  ELSE SetBlock(blocks, r, blockIndex)

(* The cache after the first n blocks of record r. *)
ReadBlocks(cache, r, n) ==
  [kind \in Kinds |->
     LET read[b \in 0..n] ==
           IF b = 0 THEN cache[kind] ELSE AddBlock(kind, read[b - 1], r, b - 1)
     IN read[n]]

(* What the record itself has of a kind in its first n blocks. *)
OwnBlocks(r, n, kind) == {<<r, b - 1>> : b \in {i \in 1..n : Blocks[r][i] = kind}}

(* A list holds these blocks and no other, in the order of the record. *)
ListsOwnBlocks(list, r, n, kind) ==
  /\ Range(list) = OwnBlocks(r, n, kind)
  /\ \A i, j \in DOMAIN list : i < j => list[i][2] < list[j][2]

HoldsOwnBlocks(lists, r, n) == \A kind \in Kinds : ListsOwnBlocks(lists[kind], r, n, kind)
=============================================================================
