----------------------------- MODULE MetadataKeys -----------------------------
(***************************************************************************)
(* The keys under which Python finds the values of a data layout           *)
(* (stringify_metadata_keys in pyvrs/utils.py): the label of a piece, or   *)
(* label<type> where several pieces share the label, with more brackets    *)
(* where that key is taken.                                                *)
(*                                                                         *)
(* A label is a sequence of tokens, and label<<type>> is the label         *)
(* followed by as many "<" as there are brackets and by the type.          *)
(***************************************************************************)
EXTENDS Integers, FiniteSets, Sequences, SequencesExt

CONSTANT
  PieceLists  \* the pieces of a layout as they come: sequences of [label, type]

(* Each label and type is there once: they are the keys of a dictionary.   *)
ASSUME MetadataKeysAssumption ==
  \A pieces \in PieceLists :
    /\ pieces \in Seq([label : Seq(STRING), type : STRING])
    /\ \A j, k \in DOMAIN pieces : pieces[j] = pieces[k] => j = k

Put(f, key, value) == [x \in DOMAIN f \cup {key} |-> IF x = key THEN value ELSE f[x]]
Without(f, key) == [x \in DOMAIN f \ {key} |-> f[x]]

(* The label and the type with i brackets. *)
Key(label, type, i) == label \o [j \in 1..i |-> "<"] \o <<type>>

(* _unique_string_for_key: the first of these keys that is not taken. *)
UniqueStringForKey(label, type, taken) ==
  Key(label, type,
      CHOOSE i \in 1..(Cardinality(taken) + 1) :
        /\ Key(label, type, i) \notin taken
        /\ \A j \in 1..(i - 1) : Key(label, type, j) \in taken)

(* The loop's state: filtered takes keys to pieces by their place,         *)
(* removed_types labels to types; raised stands for a KeyError.            *)
State(filtered, removed, ambiguous, raised) ==
  [filtered |-> filtered, removed |-> removed, ambiguous |-> ambiguous, raised |-> raised]

Start == State([x \in {} |-> 0], [x \in {} |-> ""], {}, FALSE)

(* The place of a piece is put under a key of its label and type. *)
PutUnique(filtered, label, type, k) ==
  Put(filtered, UniqueStringForKey(label, type, DOMAIN filtered), k)

(* A label found twice may be taken as a key again. *)
TakePieceForgetting(pieces, state, k) ==
  LET label == pieces[k].label
      old == PutUnique(Without(state.filtered, label), label, state.removed[label],
                       state.filtered[label])
  IN IF label \in DOMAIN state.removed
       THEN State(PutUnique(old, label, pieces[k].type, k), Without(state.removed, label),
                  {}, FALSE)
       ELSE State(Put(state.filtered, label, k), Put(state.removed, label, pieces[k].type),
                  {}, FALSE)

(* One round: a label known to be shared gets a key with its type; one     *)
(* that is no key yet is its own key; one found for the second time gives  *)
(* both pieces keys with their types, but if it is a key made for another  *)
(* label it has no type to be found again, and raises.                     *)
TakePiece(pieces, state, k) ==
  LET label == pieces[k].label
      old == PutUnique(Without(state.filtered, label), label, state.removed[label],
                       state.filtered[label])
  IN IF state.raised THEN state
     ELSE IF label \in state.ambiguous
       THEN State(PutUnique(state.filtered, label, pieces[k].type, k), state.removed,
                  state.ambiguous, FALSE)
     ELSE IF label \notin DOMAIN state.filtered
       THEN State(Put(state.filtered, label, k), Put(state.removed, label, pieces[k].type),
                  state.ambiguous, FALSE)
     ELSE IF label \in DOMAIN state.removed
       THEN State(PutUnique(old, label, pieces[k].type, k), Without(state.removed, label),
                  state.ambiguous \cup {label}, FALSE)
     ELSE State(state.filtered, state.removed, state.ambiguous, TRUE)

(* stringify_metadata_keys *)
StringifyMetadataKeys(pieces) ==
  LET state[k \in 0..Len(pieces)] ==
        IF k = 0 THEN Start ELSE TakePiece(pieces, state[k - 1], k)
  IN state[Len(pieces)]

(* A label that reads like a key made for another one: a<t> next to a.     *)
KeyLikeLabel(pieces) ==
  \E j, k \in DOMAIN pieces : IsStrictPrefix(pieces[j].label, pieces[k].label)
=============================================================================
