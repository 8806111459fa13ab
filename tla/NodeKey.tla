------------------------------ MODULE NodeKey ------------------------------
(***************************************************************************)
(* node_key.rs: the file that keeps the node's identity. The file is an    *)
(* Option of the key its text encodes and of the number of characters that *)
(* are there: fs::write creates the file empty and then fills it, and a    *)
(* process that dies in between leaves the first part. A part never reads  *)
(* as a key: hex::decode refuses an odd length and SecretKey::from_slice   *)
(* every length but its own.                                               *)
(***************************************************************************)
EXTENDS Integers

CONSTANT KeyLen     \* characters of the text of a key (64)

ASSUME KeyLenAssumption == KeyLen \in Nat \ {0}

\* A mutant of encoded_len: leading zeros are not written.
encoded_len_unpadded == KeyLen - 1

\* hex::encode: two characters for every byte of the key.
encoded_len == KeyLen

\* fs::write, first the creation of the file, then its text.
created(key)     == {[key |-> key, len |-> 0]}
longer(file, n)  == {[key |-> f.key, len |-> n] : f \in file}
written(file)    == \A f \in file : f.len = encoded_len

\* A mutant of exists: a key is generated on every start.
exists_never(file) == FALSE

\* path.exists(), and whether the text is read as a key.
exists(file) == file # {}
decodes(file) == \E f \in file : f.len = KeyLen
=============================================================================
