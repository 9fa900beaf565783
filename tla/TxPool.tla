------------------------------- MODULE TxPool -------------------------------
(***************************************************************************)
(* The transaction pool: imports by peers and users, the notification of a *)
(* new head with its culling and the return of retracted transactions, and *)
(* the cache of account sequence numbers that all readers of pending       *)
(* transactions share.  Every lock is held for one step; a client, which   *)
(* is a view of the chain state at the head it was made for, is kept       *)
(* across the steps of an operation.                                       *)
(***************************************************************************)
EXTENDS Integers, FiniteSets

CONSTANTS
    Account, Txn,
    Sender, SequenceNumber, GasPrice, Expiration,  \* of each transaction
    Head, Genesis,
    Path,            \* the blocks of the chain of each head
    Body,            \* the transactions of each block
    Timestamp,       \* of each head
    Weight,          \* total difficulty of each head
    MinGasPrice,
    MaxCount, MaxPerSender,
    StaleGap,        \* insertions after which a future transaction is stale
    MaxInsertions,   \* bound on verified imports
    Importer, Reader

None == -1

VARIABLES
    header,        \* chain_header
    nonces,        \* sequence_number_cache
    pool,          \* insertion id of each pooled transaction, 0 if not pooled
    boosted,       \* pooled transactions with Priority::Retracted
    insertion_id,  \* number of verified transactions so far
    job,           \* the connector's chain_new_block: its next step, the
                   \* transactions still to return, and two history fields:
                   \* those owed to the pool, and whether a reader was at
                   \* work when the header was written
    importer,      \* import_txns under way
    reader         \* get_pending or next_sequence_number under way

vars == <<header, nonces, pool, boosted, insertion_id, job, importer, reader>>

Included(h) == UNION {Body[b] : b \in Path[h]}

(* latest_sequence_number: the account's sequence number in the state.     *)
Nonce(h, a) == Cardinality({x \in Included(h) : Sender[x] = a})

Retracted(old, new) == UNION {Body[b] : b \in Path[old] \ Path[new]}

ASSUME TxPoolAssumption ==
    /\ \A x \in Txn : Sender[x] \in Account /\ SequenceNumber[x] \in Nat /\ GasPrice[x] \in Nat
    /\ \A h \in Head : \A a \in Account :
        {SequenceNumber[x] : x \in {y \in Included(h) : Sender[y] = a}} = 0 .. Nonce(h, a) - 1
    /\ MaxCount \in Nat \ {0} /\ MaxPerSender \in Nat \ {0}

Init ==
    /\ header = Genesis
    /\ nonces = [a \in Account |-> None]
    /\ pool = [x \in Txn |-> 0]
    /\ boosted = {}
    /\ insertion_id = 0
    /\ job = [pc |-> "idle", todo |-> {}, owed |-> {}, spanned |-> FALSE]
    /\ importer = [i \in Importer |-> [pc |-> "idle"]]
    /\ reader = [r \in Reader |-> [pc |-> "idle"]]

-----------------------------------------------------------------------------
(* The pool.  Its lock is taken for writing by the steps that change it.   *)

WriteLock == \A r \in Reader : reader[r].pc \notin {"locked", "miss"}

Pooled(p) == {x \in Txn : p[x] > 0}

Of(p, a) == {x \in Pooled(p) : Sender[x] = a}

Twins(p, x) == {y \in Of(p, Sender[x]) : SequenceNumber[y] = SequenceNumber[x]}

(* The priority of a transaction, and its score in the pool.               *)
Priority(x, boost) == IF x \in boost THEN 1 ELSE 0

Score(x, boost) == GasPrice[x] * (IF x \in boost THEN 1024 ELSE 1)

(* The transaction that goes first: of the last ones of the senders, the   *)
(* one with the lowest score.                                              *)
Worst(p) ==
    LET last == {x \in Pooled(p) : \A y \in Of(p, Sender[x]) : SequenceNumber[y] <= SequenceNumber[x]}
    IN  {x \in last : \A y \in last : Score(x, boosted) <= Score(y, boosted)}

(* Mutant: a better transaction never makes room.                          *)
should_replace_Insert(p, old, new, boost) == "InsertNew"

(* ReplaceByScoreAndReadiness::should_replace and the scoring's choose.    *)
should_replace(p, old, new, boost) ==
    IF Sender[old] = Sender[new] THEN
        CASE SequenceNumber[new] < SequenceNumber[old] -> "ReplaceOld"
          [] SequenceNumber[new] > SequenceNumber[old] -> "RejectNew"
          [] OTHER -> IF GasPrice[old] > GasPrice[new] THEN "RejectNew" ELSE "ReplaceOld"
    ELSE IF \/ Priority(new, boost) < Priority(old, boost)
            \/ Priority(new, boost) = Priority(old, boost) /\ GasPrice[new] <= GasPrice[old]
         THEN "RejectNew"
    ELSE IF Twins(p, new) # {} THEN
        IF \E y \in Twins(p, new) : GasPrice[y] > GasPrice[new] THEN "RejectNew" ELSE "InsertNew"
    ELSE "ReplaceOld"

(* What the list of the sender becomes: a twin is replaced unless it pays  *)
(* more, and a full list loses its last transaction or rejects a later one.*)
AddToSender(p, x, id) ==
    LET twins == Twins(p, x)
        mine == Of(p, Sender[x])
        later == {y \in mine : SequenceNumber[y] > SequenceNumber[x]}
        last == {y \in mine : \A z \in mine : SequenceNumber[z] <= SequenceNumber[y]}
        Put(out) == [y \in Txn |-> IF y = x THEN id ELSE IF y \in out THEN 0 ELSE p[y]]
    IN  IF twins # {} THEN
            IF \E y \in twins : GasPrice[y] > GasPrice[x] THEN p ELSE Put(twins)
        ELSE IF Cardinality(mine) < MaxPerSender THEN Put({})
        ELSE IF later = {} THEN p
        ELSE Put(last)

(* Pool::import under the pool's write lock.                               *)
PoolImport(x, boost, id) ==
    LET b == IF boost THEN boosted \cup {x} ELSE boosted \ {x}
    IN  /\ \/ /\ pool[x] > 0
              /\ pool' = pool
           \/ /\ pool[x] = 0
              /\ Cardinality(Pooled(pool)) < MaxCount
              /\ pool' = AddToSender(pool, x, id)
           \/ /\ pool[x] = 0
              /\ Cardinality(Pooled(pool)) >= MaxCount
              /\ \E old \in Worst(pool) :
                  LET choice == should_replace(pool, old, x, b)
                  IN  pool' = CASE choice = "RejectNew" -> pool
                                [] choice = "InsertNew" -> AddToSender(pool, x, id)
                                [] OTHER -> AddToSender([pool EXCEPT ![old] = 0], x, id)
        /\ boosted' = (IF pool[x] > 0 THEN boosted ELSE b) \cap Pooled(pool')

(* The pool or the sender's list is full for x; from then on chain_new_block *)
(* owes the pool nothing (history).                                        *)
NoRoom(x) ==
    /\ pool[x] = 0
    /\ \/ Cardinality(Pooled(pool)) >= MaxCount
       \/ Cardinality(Of(pool, Sender[x])) >= MaxPerSender

OwedAfter(x) == IF NoRoom(x) THEN {} ELSE job.owed

(* Verifier::verify_transaction against the state at head h.               *)
verify_transaction(x, h) ==
    /\ GasPrice[x] >= MinGasPrice
    /\ SequenceNumber[x] >= Nonce(h, Sender[x])
    /\ Expiration[x] > Timestamp[h]

-----------------------------------------------------------------------------
(* import_txns of a user or a peer: the client is made first, the          *)
(* transaction is verified with it and then imported.                      *)

ImportBegin(i, x) ==
    /\ importer[i].pc = "idle"
    /\ insertion_id < MaxInsertions
    /\ importer' = [importer EXCEPT ![i] = [pc |-> "import", txn |-> x, client |-> header]]
    /\ UNCHANGED <<header, nonces, pool, boosted, insertion_id, job, reader>>

(* Mutant: the counter is read and not advanced.                           *)
Import_IdKept(i) ==
    /\ importer[i].pc = "import"
    /\ WriteLock
    /\ LET x == importer[i].txn
       IN  IF verify_transaction(x, importer[i].client)
           THEN /\ PoolImport(x, FALSE, insertion_id + 1)
                /\ job' = [job EXCEPT !.owed = OwedAfter(x)]
           ELSE UNCHANGED <<pool, boosted, job>>
    /\ importer' = [importer EXCEPT ![i] = [pc |-> "idle"]]
    /\ UNCHANGED <<header, nonces, insertion_id, reader>>

Import(i) ==
    /\ importer[i].pc = "import"
    /\ WriteLock
    /\ LET x == importer[i].txn
       IN  IF verify_transaction(x, importer[i].client)
           THEN /\ PoolImport(x, FALSE, insertion_id + 1)
                /\ insertion_id' = insertion_id + 1
                /\ job' = [job EXCEPT !.owed = OwedAfter(x)]
           ELSE UNCHANGED <<pool, boosted, insertion_id, job>>
    /\ importer' = [importer EXCEPT ![i] = [pc |-> "idle"]]
    /\ UNCHANGED <<header, nonces, reader>>

(* TxPoolSyncService::remove_txn, called when a block template discards it. *)
remove_txn(x) ==
    /\ WriteLock
    /\ pool[x] > 0
    /\ pool' = [pool EXCEPT ![x] = 0]
    /\ boosted' = boosted \ {x}
    /\ job' = [job EXCEPT !.owed = @ \ {y \in Txn : Sender[y] = Sender[x] /\ SequenceNumber[y] = SequenceNumber[x]}]
    /\ UNCHANGED <<header, nonces, insertion_id, importer, reader>>

-----------------------------------------------------------------------------
(* The shared cache: a miss is filled from the client's own state.         *)

SeqNumberOf(a, h) == IF nonces[a] # None THEN nonces[a] ELSE Nonce(h, a)

Unexpired(a) == {x \in Of(pool, a) : Expiration[x] > Timestamp[header]}

(* What readiness makes pending: from the account's number on, without a   *)
(* gap and without an expired one.                                         *)
Pending(a, nonce) ==
    {x \in Of(pool, a) :
        /\ SequenceNumber[x] >= nonce
        /\ \A n \in nonce .. SequenceNumber[x] : \E y \in Unexpired(a) : SequenceNumber[y] = n}

(* get_pending, next_sequence_number: a client for the current head is     *)
(* made, then the pool is locked for reading and the cache is asked.       *)
ReadBegin(r) ==
    /\ reader[r].pc = "idle"
    /\ reader' = [reader EXCEPT ![r] = [pc |-> "client", client |-> header]]
    /\ UNCHANGED <<header, nonces, pool, boosted, insertion_id, job, importer>>

ReadLock(r) ==
    /\ reader[r].pc = "client"
    /\ reader' = [reader EXCEPT ![r].pc = "locked"]
    /\ UNCHANGED <<header, nonces, pool, boosted, insertion_id, job, importer>>

(* account_seq_number, on a miss: the cache is found without the account,  *)
(* and in a second step written, whatever happened to it in between.       *)
Miss(r, a) ==
    /\ reader[r].pc = "locked"
    /\ Of(pool, a) # {}
    /\ nonces[a] = None
    /\ reader' = [reader EXCEPT ![r] = [pc |-> "miss", client |-> reader[r].client, account |-> a]]
    /\ UNCHANGED <<header, nonces, pool, boosted, insertion_id, job, importer>>

account_seq_number(r) ==
    /\ reader[r].pc = "miss"
    /\ nonces' = [nonces EXCEPT ![reader[r].account] = Nonce(reader[r].client, reader[r].account)]
    /\ reader' = [reader EXCEPT ![r] = [pc |-> "locked", client |-> reader[r].client]]
    /\ UNCHANGED <<header, pool, boosted, insertion_id, job, importer>>

ReadEnd(r) ==
    /\ reader[r].pc = "locked"
    /\ reader' = [reader EXCEPT ![r] = [pc |-> "idle"]]
    /\ UNCHANGED <<header, nonces, pool, boosted, insertion_id, job, importer>>

-----------------------------------------------------------------------------
(* chain_new_block of the block connector.                                 *)

NewHead(h) ==
    /\ job.pc = "idle"
    /\ Weight[h] > Weight[header]
    /\ job' = [pc |-> "clear", todo |-> Retracted(header, h), owed |-> Retracted(header, h),
                spanned |-> \E r \in Reader : reader[r].pc # "idle"]
    /\ header' = h
    /\ UNCHANGED <<nonces, pool, boosted, insertion_id, importer, reader>>

(* Mutant: the cache is kept.                                              *)
ClearNonces_Kept ==
    /\ job.pc = "clear"
    /\ job' = [job EXCEPT !.pc = "cull"]
    /\ UNCHANGED <<header, nonces, pool, boosted, insertion_id, importer, reader>>

(* notify_new_chain_header: the header is written, then the cache cleared. *)
ClearNonces ==
    /\ job.pc = "clear"
    /\ nonces' = [a \in Account |-> None]
    /\ job' = [job EXCEPT !.pc = "cull"]
    /\ UNCHANGED <<header, pool, boosted, insertion_id, importer, reader>>

(* cull: of each sender the leading transactions that are expired, whose   *)
(* number is used up, or that wait in the future for too long.             *)
Stale(x) ==
    LET nonce == SeqNumberOf(Sender[x], header)
    IN  \/ Expiration[x] <= Timestamp[header]
        \/ SequenceNumber[x] < nonce
        \/ SequenceNumber[x] > nonce /\ pool[x] <= insertion_id - StaleGap

cull ==
    /\ job.pc = "cull"
    /\ WriteLock
    /\ LET leading == {x \in Pooled(pool) : \A y \in Of(pool, Sender[x]) :
                        SequenceNumber[y] <= SequenceNumber[x] => Stale(y)}
       IN  /\ pool' = [x \in Txn |-> IF x \in leading THEN 0 ELSE pool[x]]
           /\ boosted' = boosted \ leading
    /\ nonces' = [a \in Account |-> IF Unexpired(a) # {} THEN SeqNumberOf(a, header) ELSE nonces[a]]
    /\ job' = [job EXCEPT !.pc = "import"]
    /\ UNCHANGED <<header, insertion_id, importer, reader>>

(* Mutant: the transactions of retracted blocks are not imported.          *)
ImportRetracted_Dropped(x) ==
    /\ job.pc = "import"
    /\ x \in job.todo
    /\ job' = [job EXCEPT !.todo = @ \ {x}]
    /\ UNCHANGED <<header, nonces, pool, boosted, insertion_id, importer, reader>>

ImportRetracted(x) ==
    /\ job.pc = "import"
    /\ x \in job.todo
    /\ WriteLock
    /\ IF verify_transaction(x, header)
       THEN /\ PoolImport(x, TRUE, insertion_id + 1)
            /\ insertion_id' = insertion_id + 1
            /\ job' = [job EXCEPT !.todo = @ \ {x}, !.owed = OwedAfter(x)]
       ELSE /\ job' = [job EXCEPT !.todo = @ \ {x}]
            /\ UNCHANGED <<pool, boosted, insertion_id>>
    /\ UNCHANGED <<header, nonces, importer, reader>>

NewBlockDone ==
    /\ job.pc = "import"
    /\ job.todo = {}
    /\ job' = [job EXCEPT !.pc = "idle", !.owed = {}]
    /\ UNCHANGED <<header, nonces, pool, boosted, insertion_id, importer, reader>>

-----------------------------------------------------------------------------
Next ==
    \/ \E i \in Importer : (\E x \in Txn : ImportBegin(i, x)) \/ Import(i)
    \/ \E x \in Txn : remove_txn(x)
    \/ \E r \in Reader : ReadBegin(r) \/ ReadLock(r) \/ (\E a \in Account : Miss(r, a))
                           \/ account_seq_number(r) \/ ReadEnd(r)
    \/ \E h \in Head : NewHead(h)
    \/ ClearNonces \/ cull
    \/ \E x \in Txn : ImportRetracted(x)
    \/ NewBlockDone

Spec == Init /\ [][Next]_vars

-----------------------------------------------------------------------------
Quiet ==
    /\ job.pc = "idle"
    /\ \A i \in Importer : importer[i].pc = "idle"
    /\ \A r \in Reader : reader[r].pc = "idle"

(* The types; and no two pooled transactions have the same insertion id or *)
(* one that is still to be given, which the age of a future one is taken   *)
(* from.                                                                   *)
TypeOK ==
    /\ header \in Head
    /\ nonces \in [Account -> Int]
    /\ pool \in [Txn -> 0 .. insertion_id]
    /\ \A x, y \in Pooled(pool) : pool[x] = pool[y] => x = y
    /\ boosted \subseteq Pooled(pool)
    /\ job.pc \in {"idle", "clear", "cull", "import"}
    /\ job.todo \subseteq Txn /\ job.owed \subseteq Txn

(* The comment in should_replace "we will never go above limit anyway":    *)
(* neither the pool nor a sender exceeds its limit, and no sender has two  *)
(* transactions with one sequence number.                                  *)
WithinLimits ==
    /\ Cardinality(Pooled(pool)) <= MaxCount
    /\ \A a \in Account : Cardinality(Of(pool, a)) <= MaxPerSender
    /\ \A x \in Pooled(pool) : Twins(pool, x) = {x}

(* notify_new_chain_header: once chain_new_block is over, the cached       *)
(* sequence numbers are those of the current head, unless a reader with an *)
(* older client was at work when the header was written.                   *)
NoncesFresh ==
    job.pc = "idle" /\ ~job.spanned => \A a \in Account : nonces[a] \in {None, Nonce(header, a)}

(* When chain_new_block has imported the retracted blocks, each of their   *)
(* transactions that the new head accepts is pooled again, or one with its *)
(* number that pays as much is, unless it was removed by hand since or the *)
(* pool or a sender's list was full at an import meanwhile.                *)
RetractedReturn ==
    job.pc = "import" /\ job.todo = {} =>
        \A x \in job.owed :
            \/ ~verify_transaction(x, header)
            \/ \E y \in Twins(pool, x) : GasPrice[y] >= GasPrice[x]

(* txpool/api/src/lib.rs:38: what get_pending_txns returns can be packaged *)
(* into the next block, so it does not use up a number again.              *)
PendingIsPackagable ==
    Quiet => \A a \in Account :
        \A x \in Pending(a, SeqNumberOf(a, header)) : SequenceNumber[x] >= Nonce(header, a)

=============================================================================
