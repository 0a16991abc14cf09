----------------------------- MODULE BlobStore ------------------------------
(***************************************************************************)
(* The file blob store of internal/store/file_blob.go: a directory of      *)
(* blobs, which outlives the process, and a delete-at-height (DAH) map,    *)
(* which lives in the memory of the process that wrote the blob.  A DAH of *)
(* NoDAH means the key has no entry in the map.                            *)
(***************************************************************************)
EXTENDS Naturals

NoDAH == 0

EmptyDAH(Key) == [k \in Key |-> NoDAH]

(* The DAH half of Set: an option of 0 leaves an older entry in place. *)
SetDAH(dah, key, height) ==
    IF height > 0 THEN [dah EXCEPT ![key] = height] ELSE dah

(* The keys SetCurrentBlockHeight(height) removes. *)
Expired(dah, height) ==
    {k \in DOMAIN dah : dah[k] # NoDAH /\ height >= dah[k]}

(* The DAH map SetCurrentBlockHeight(height) leaves. *)
PrunedDAH(dah, height) ==
    [k \in DOMAIN dah |-> IF k \in Expired(dah, height) THEN NoDAH ELSE dah[k]]
=============================================================================
