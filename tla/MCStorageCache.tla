--------------------------- MODULE MCStorageCache ---------------------------
(* StorageCache over two keys that are written once, as under a content    *)
(* hash, and one that is rewritten and removed.                            *)
EXTENDS StorageCache

MCValue == [k \in {"hash1", "hash2", "rewritten"} |-> IF k = "rewritten" THEN {"v", "w"} ELSE {"v"}]
=============================================================================
