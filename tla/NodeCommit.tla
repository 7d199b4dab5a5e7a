---------------------------- MODULE NodeCommit ----------------------------
(***************************************************************************)
(* How a node commits: handlers change the chain and the mempool in memory *)
(* and then save a snapshot of it, to a JSON file, to SQLite, or to both.  *)
(* A handler runs up to its first await in one step.  Its save goes on     *)
(* afterwards (open the file, write it, insert a row), and the handler     *)
(* ends when the save does; other handlers run in between.  The process    *)
(* may crash at any time, and restarts from what is on disk.               *)
(*                                                                         *)
(* A block is the set of its transactions, and the chain is the sequence   *)
(* of blocks after genesis, so that a block's hash is the chain up to it.  *)
(* The ledger state is a function of the chain.  Which pending             *)
(* transactions still execute is Mempool's matter: here, reconciling drops *)
(* any of them.  The list of rejections is the set of the names on it; as  *)
(* a refused transaction may be listed many times, any new entry may push  *)
(* any older name out.                                                     *)
(***************************************************************************)
EXTENDS Integers, Sequences, FiniteSets

CONSTANTS
  Transactions,    \* transactions that wallets ever sign
  Handlers,        \* bound: handlers whose save is under way at one time
  HasFile,         \* the node has a snapshotPath
  HasDatabase,     \* the node has a database
  WritesFail,      \* writes to the file or the database may fail
  OperatorSaves,   \* operators save snapshots to files of their own
  Foreign,         \* contents of the snapshots that operators import
  MaxPerBlock,     \* params.maxTransactionsPerBlock
  FinalityDepth,   \* params.finalityDepth
  RowsKept,        \* rows that the database keeps
  RejectionsKept,  \* entries that the list of rejections keeps
  MaxExports       \* bound: snapshots ever created

BlockChains == Seq(SUBSET Transactions)
Contents == [chain : BlockChains, mempool : SUBSET Transactions, rejections : SUBSET Transactions,
             pushedOut : SUBSET Transactions]  \* history: names that were on the list
Snapshots == [memory : Contents, at : Nat]

Confirmed(chain) == UNION {chain[i] : i \in DOMAIN chain}

\* No transaction is pending and confirmed, or confirmed twice.
ConfirmedOnce(m) ==
  /\ m.mempool \cap Confirmed(m.chain) = {}
  /\ \A i, j \in DOMAIN m.chain : i # j => m.chain[i] \cap m.chain[j] = {}

\* What is imported was exported by a node.
ASSUME CommitAssumption ==
  /\ {HasFile, HasDatabase, WritesFail, OperatorSaves} \subseteq BOOLEAN
  /\ HasFile \/ HasDatabase
  /\ Foreign \subseteq {m \in Contents : ConfirmedOnce(m)}
  /\ {MaxPerBlock, FinalityDepth, RowsKept, RejectionsKept} \subseteq Nat \ {0}
  /\ MaxExports \in Nat

VARIABLES
  node,       \* "up", "down", or "failed": createFromDisk threw
  memory,     \* [chain, mempool, rejections, pushedOut]
  jobs,       \* handler -> the save it waits for
  file,       \* the snapshot file: [status, snapshot]
  rows,       \* table snapshots, newest last
  exports,    \* snapshots created so far, for exportedAt
  answered,   \* history: transactions whose submission was saved
  disturbed   \* history: the last saves overlapped, or one of them failed

vars == <<node, memory, jobs, file, rows, exports, answered, disturbed>>

Genesis == [chain |-> <<>>, mempool |-> {}, rejections |-> {}, pushedOut |-> {}]
NoSnapshot == [memory |-> Genesis, at |-> 0]
Idle == [kind |-> "none", stage |-> "idle", snapshot |-> NoSnapshot,
         before |-> Genesis, answer |-> {}, overlapped |-> FALSE]

Init ==
  /\ node = "up"
  /\ memory = Genesis
  /\ jobs = [h \in Handlers |-> Idle]
  /\ file = [status |-> "missing", snapshot |-> NoSnapshot]
  /\ rows = <<>>
  /\ exports = 0
  /\ answered = {}
  /\ disturbed = FALSE

Quiet == \A h \in Handlers : jobs[h] = Idle

-----------------------------------------------------------------------------
(***************************************************************************)
(* Saving.                                                                 *)
(***************************************************************************)
\* Mutant of Stored: the oldest rows are kept.
StoredOldest(snapshot) ==
  LET all == Append(rows, snapshot)
  IN  SubSeq(all, 1, IF Len(all) > RowsKept THEN RowsKept ELSE Len(all))

\* saveSnapshot of the database: insert a row, keep the newest.
Stored(snapshot) ==
  LET all == Append(rows, snapshot)
  IN  SubSeq(all, IF Len(all) > RowsKept THEN Len(all) - RowsKept + 1 ELSE 1, Len(all))

\* The end of a save: the row is inserted, without an await, or that fails.
Insert(snapshot, stage) ==
  \/ stage = "saved" /\ rows' = IF HasDatabase THEN Stored(snapshot) ELSE rows
  \/ stage = "failed" /\ HasDatabase /\ WritesFail /\ UNCHANGED rows

\* A submission that was saved is answered as accepted.
AnsweredBy(answer, stage) == IF stage = "saved" THEN answered \cup answer ELSE answered

\* The saves that write a file before they insert the row.
WritesFile(kind) == HasFile \/ kind = "save"

\* A save is under way or, when there is no file to wait for, complete.
\* Only acceptBlock remembers what the memory was before.
Job(kind, stage, after, answer) ==
  [kind |-> kind, stage |-> stage, snapshot |-> [memory |-> after, at |-> exports + 1],
   before |-> IF kind = "accept" THEN memory ELSE Genesis,
   answer |-> answer, overlapped |-> FALSE]

\* A handler changes the memory and starts to save it (persistState).
Save(h, kind, after, answer) ==
  /\ node = "up" /\ jobs[h] = Idle /\ exports < MaxExports
  /\ memory' = after
  /\ exports' = exports + 1
  /\ \E stage \in {"opening", "saved", "failed"} :
       /\ jobs' = [jobs EXCEPT ![h] = Job(kind, stage, after, answer)]
       /\ IF WritesFile(kind)
            THEN stage = "opening" /\ UNCHANGED rows
            ELSE Insert([memory |-> after, at |-> exports + 1], stage)
       /\ answered' = AnsweredBy(answer, stage)
       /\ disturbed' = (kind = "save" \/ ~ Quiet \/ stage = "failed")
  /\ UNCHANGED <<node, file>>

\* mkdir and the opening of the file, which truncates it.  Whoever writes at
\* the same time writes over the same bytes.
OpenFile(h) ==
  LET writers == {g \in Handlers : jobs[g].stage = "writing" /\ jobs[g].kind # "save"}
      meets == jobs[h].kind # "save" /\ writers # {}
  IN  /\ jobs[h].stage = "opening"
      /\ \/ /\ jobs' = [g \in Handlers |->
                          IF g = h THEN [jobs[g] EXCEPT !.stage = "writing", !.overlapped = meets]
                          ELSE IF meets /\ g \in writers
                            THEN [jobs[g] EXCEPT !.overlapped = TRUE] ELSE jobs[g]]
            /\ file' = IF jobs[h].kind = "save" THEN file
                       ELSE [status |-> "torn", snapshot |-> NoSnapshot]
            /\ UNCHANGED disturbed
         \/ /\ WritesFail
            /\ jobs' = [jobs EXCEPT ![h].stage = "failed"]
            /\ disturbed' = TRUE
            /\ UNCHANGED file
      /\ UNCHANGED <<node, memory, rows, exports, answered>>

\* What the file may hold when one of its writers ends.
WrittenFiles(job) ==
  LET complete == [status |-> "complete", snapshot |-> job.snapshot]
      torn == [status |-> "torn", snapshot |-> NoSnapshot]
  IN  IF job.kind = "save" THEN {file}
      ELSE IF job.overlapped THEN {file, complete, torn}
      ELSE {complete}

\* The file is written, and the row follows (an import has inserted its own
\* before); or the disk is full, and the file stays torn.
FinishWrite(h) ==
  /\ jobs[h].stage = "writing"
  /\ \E stage \in {"saved", "failed"} :
       /\ \/ /\ file' \in WrittenFiles(jobs[h])
             /\ IF jobs[h].kind = "import" THEN stage = "saved" /\ UNCHANGED rows
                ELSE Insert(jobs[h].snapshot, stage)
          \/ WritesFail /\ stage = "failed" /\ UNCHANGED <<file, rows>>
       /\ jobs' = [jobs EXCEPT ![h].stage = stage]
       /\ answered' = AnsweredBy(jobs[h].answer, stage)
       /\ disturbed' = (disturbed \/ stage = "failed")
  /\ UNCHANGED <<node, memory, exports>>

-----------------------------------------------------------------------------
(***************************************************************************)
(* Handlers, up to their first await.                                      *)
(***************************************************************************)
\* recordMempoolRejection, for each of new: the latest entries are kept.
Listed(old, new) ==
  IF new = {} THEN {old}
  ELSE {list \in SUBSET (old \cup new) :
          /\ Cardinality(list) <= RejectionsKept
          /\ \/ new \subseteq list
             \/ list \subseteq new /\ Cardinality(list) = RejectionsKept}

\* Mutant of WithPool: what is dropped is not recorded.
WithPoolUnrecorded(m, pool, kept) == {[m EXCEPT !.mempool = kept]}

\* The contents when reconciling keeps some of the pool and rejects the rest.
WithPool(m, pool, kept) ==
  {[m EXCEPT !.mempool = kept, !.rejections = list,
             !.pushedOut = (@ \cup m.rejections \cup (pool \ kept)) \ list] :
     list \in Listed(m.rejections, pool \ kept)}

\* submitTransaction, when the memory holds m: refused, recorded and not
\* saved; or admitted.
Submitted(h, m, t) ==
  /\ t \notin Confirmed(m.chain) \cup m.mempool
  /\ \/ /\ memory' \in WithPool(m, m.mempool \cup {t}, m.mempool)
        /\ UNCHANGED <<node, jobs, file, rows, exports, answered, disturbed>>
     \/ \E kept \in SUBSET m.mempool :
          \E after \in WithPool(m, m.mempool \cup {t}, kept \cup {t}) :
            Save(h, "submit", after, {t})

SubmitTransaction(h, t) == node = "up" /\ Submitted(h, memory, t)

\* requestFaucet reconciles first.  If it then throws, for the amount or the
\* faucet's rules, nothing is saved; else it submits a transaction of its own.
RequestFaucet(h, t) ==
  /\ node = "up" /\ t \notin memory.mempool
  /\ \E kept \in SUBSET memory.mempool : \E m \in WithPool(memory, memory.mempool, kept) :
       \/ /\ memory' = m
          /\ UNCHANGED <<node, jobs, file, rows, exports, answered, disturbed>>
       \/ Submitted(h, m, t)

\* produceBlock: the candidates are as many pending ones as fit.
ProduceBlock(h) ==
  \E kept \in SUBSET memory.mempool : \E block \in SUBSET kept :
    /\ Cardinality(block) <= MaxPerBlock
    /\ block # kept => Cardinality(block) = MaxPerBlock
    /\ \E m \in WithPool(memory, memory.mempool, kept) :
         Save(h, "produce",
              [m EXCEPT !.chain = Append(@, block), !.mempool = kept \ block], {})

\* acceptBlock, for a valid block that extends the tip.
AcceptBlock(h, block) ==
  /\ block \cap Confirmed(memory.chain) = {}
  /\ \E kept \in SUBSET (memory.mempool \ block) :
       \E m \in WithPool(memory, memory.mempool \ block, kept) :
         Save(h, "accept", [m EXCEPT !.chain = Append(@, block)], {})

\* Saves of an unchanged chain and mempool: peers that were added or restored
\* ("peers", not awaited), probes and sync summaries ("summary"), and the
\* operator's save to another file ("save").
SaveUnchanged(h) ==
  \E kind \in {"peers", "summary"} \cup (IF OperatorSaves THEN {"save"} ELSE {}) :
    Save(h, kind, memory, {})

\* importSnapshot: the row first, then a file write that nobody awaits.
ImportSnapshot(h, contents) ==
  /\ node = "up" /\ jobs[h] = Idle /\ exports < MaxExports
  /\ memory' = contents
  /\ exports' = exports + 1
  /\ answered' = {}
  /\ \E stage \in {"saved", "failed"} :
       /\ Insert([memory |-> contents, at |-> exports + 1], stage)
       /\ jobs' = IF stage = "saved" /\ HasFile
                    THEN [jobs EXCEPT ![h] = Job("import", "opening", contents, {})]
                    ELSE jobs
       /\ disturbed' = (~ Quiet \/ stage = "failed")
  /\ UNCHANGED <<node, file>>

-----------------------------------------------------------------------------
(***************************************************************************)
(* The end of a handler.                                                   *)
(***************************************************************************)
\* Mutant of RolledBack: the chain is not restored.
RolledBackPoolOnly(before) == [memory EXCEPT !.mempool = before.mempool]

\* The catch block of acceptBlock restores what it captured at its start.
RolledBack(before) == [memory EXCEPT !.chain = before.chain, !.mempool = before.mempool]

Unawaited == {"peers", "import"}

\* A rejected promise that nobody awaits ends the process.
Settle(h) ==
  LET job == jobs[h]
  IN  /\ job.stage \in {"saved", "failed"}
      /\ \/ /\ job.stage = "saved"
            /\ jobs' = [jobs EXCEPT ![h] = Idle]
            /\ UNCHANGED <<node, memory>>
         \/ /\ job.stage = "failed" /\ job.kind \in Unawaited
            /\ node' = "down"
            /\ jobs' = [g \in Handlers |-> Idle]
            /\ UNCHANGED memory
         \/ /\ job.stage = "failed" /\ job.kind \notin Unawaited
            /\ memory' = IF job.kind = "accept" THEN RolledBack(job.before) ELSE memory
            /\ jobs' = [jobs EXCEPT ![h] = Idle]
            /\ UNCHANGED node
      /\ UNCHANGED <<file, rows, exports, answered, disturbed>>

Crash ==
  /\ node = "up"
  /\ node' = "down"
  /\ jobs' = [h \in Handlers |-> Idle]
  /\ UNCHANGED <<memory, file, rows, exports, answered, disturbed>>

-----------------------------------------------------------------------------
(***************************************************************************)
(* Restart: createFromDisk.                                                *)
(***************************************************************************)
\* Mutant of LatestRow: the oldest row is read.
LatestRowOldest == IF rows = <<>> THEN {} ELSE {rows[1]}

LatestRow == IF rows = <<>> THEN {} ELSE {rows[Len(rows)]}
FileSnapshot == IF file.status = "complete" THEN {file.snapshot} ELSE {}

\* pickFreshestSnapshot: highest, then newest.
Fresher(s, t) ==
  \/ Len(s.memory.chain) > Len(t.memory.chain)
  \/ Len(s.memory.chain) = Len(t.memory.chain) /\ s.at >= t.at

Restorable ==
  LET found == FileSnapshot \cup LatestRow
  IN  IF found = {} THEN Genesis
      ELSE (CHOOSE s \in found : \A t \in found : Fresher(s, t)).memory

\* A file that does not parse makes createFromDisk throw.
Boot ==
  /\ node = "down"
  /\ \/ file.status = "torn" /\ node' = "failed" /\ UNCHANGED <<memory, disturbed>>
     \/ /\ file.status # "torn"
        /\ node' = "up"
        /\ memory' = Restorable
        /\ disturbed' = FALSE
  /\ UNCHANGED <<jobs, file, rows, exports, answered>>

-----------------------------------------------------------------------------
Next ==
  \/ \E h \in Handlers :
       \/ \E t \in Transactions : SubmitTransaction(h, t) \/ RequestFaucet(h, t)
       \/ ProduceBlock(h)
       \/ \E block \in SUBSET Transactions : AcceptBlock(h, block)
       \/ SaveUnchanged(h)
       \/ \E contents \in Foreign : ImportSnapshot(h, contents)
       \/ OpenFile(h)
       \/ FinishWrite(h)
       \/ Settle(h)
  \/ Crash
  \/ Boot

Spec == Init /\ [][Next]_vars

-----------------------------------------------------------------------------
(***************************************************************************)
(* Type invariant.                                                         *)
(***************************************************************************)
Jobs == [kind : {"none", "submit", "produce", "accept", "peers", "summary", "save", "import"},
         stage : {"idle", "opening", "writing", "saved", "failed"},
         snapshot : Snapshots, before : Contents, answer : SUBSET Transactions,
         overlapped : BOOLEAN]

TypeOK ==
  /\ node \in {"up", "down", "failed"}
  /\ memory \in Contents
  /\ jobs \in [Handlers -> Jobs]
  /\ file \in [status : {"missing", "torn", "complete"}, snapshot : Snapshots]
  /\ rows \in Seq(Snapshots) /\ Len(rows) <= RowsKept
  /\ exports \in 0 .. MaxExports
  /\ answered \subseteq Transactions
  /\ disturbed \in BOOLEAN

\* What a node answered for and no longer holds: on the list of rejections,
\* or pushed out of it by later entries.
Recorded(m) == m.rejections \cup m.pushedOut

\* The snapshot s is behind m at most by pending transactions that were
\* dropped since, and recorded.
Covers(s, m) ==
  /\ s.chain = m.chain
  /\ m.mempool \subseteq s.mempool
  /\ s.mempool \ m.mempool \subseteq Recorded(m)

(***************************************************************************)
(* With a database only, a restart would at every await restore a running  *)
(* node's chain and mempool, but for one thing: a request to the faucet    *)
(* reconciles and may throw before it saves, so that pending transactions  *)
(* which it dropped and recorded would be back.                            *)
(***************************************************************************)
SavedIsMemory == node = "up" => Covers(Restorable, memory)

(***************************************************************************)
(* A transaction whose submission was answered is confirmed, pending, or   *)
(* recorded as rejected, until later rejections push it out of the list,   *)
(* whatever else happened since, restarts included.                        *)
(***************************************************************************)
AnsweredAccounted ==
  node = "up" =>
    answered \subseteq Confirmed(memory.chain) \cup memory.mempool \cup Recorded(memory)

(***************************************************************************)
(* With a database only, the node implements one that never crashes, whose *)
(* pool may take back what it dropped since it was last saved.             *)
(***************************************************************************)
Durable == IF node = "up" THEN memory ELSE Restorable
DroppedSince == IF node = "up" THEN Restorable.mempool \ memory.mempool ELSE {}
Promise == INSTANCE DurableNode WITH
  chain <- Durable.chain, pool <- Durable.mempool, dropped <- DroppedSince
ImplementsDurableNode == Promise!Spec

(***************************************************************************)
(* With both, after a save that ran alone and did not fail, a restart      *)
(* restores the chain and the mempool (and what was dropped and recorded   *)
(* since), whatever failures and overlapping saves came before.            *)
(***************************************************************************)
LoneSavesSuffice ==
  node = "up" /\ Quiet /\ ~ disturbed => file.status # "torn" /\ SavedIsMemory

(***************************************************************************)
(* No transaction is pending and confirmed, or confirmed twice, in memory  *)
(* or in what a restart finds: snapshots and rollbacks never mix two       *)
(* moments.                                                                *)
(***************************************************************************)
MomentsNotMixed ==
  /\ ConfirmedOnce(memory)
  /\ \A s \in FileSnapshot \cup LatestRow : ConfirmedOnce(s.memory)

(***************************************************************************)
(* docs/architecture.md:198-200: a block is final "once it is at least     *)
(* finalityDepth blocks behind the tip".  Final blocks stay in the chain   *)
(* of a running node, as long as no operator imports another.              *)
(***************************************************************************)
FinalizedHeight ==
  IF Len(memory.chain) > FinalityDepth THEN Len(memory.chain) - FinalityDepth ELSE 0

FinalizedBlocksStay ==
  [][node = "up" /\ node' = "up" =>
       \A k \in 1 .. FinalizedHeight :
         k <= Len(memory'.chain) /\ memory'.chain[k] = memory.chain[k]]_vars
=============================================================================
