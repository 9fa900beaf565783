SPECIFICATION Spec
CONSTANTS
  Thread = {t1, t2}
  Key = {"hash1", "hash2", "rewritten"}
  Value <- MCValue
  Absent = Absent
  Capacity = 2
  Removed = {"rewritten"}
INVARIANTS TypeOK Coherent CachedIsDurable
