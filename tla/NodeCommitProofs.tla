-------------------------- MODULE NodeCommitProofs --------------------------
(***************************************************************************)
(* Proofs about NodeCommit for every set of transactions, every number of  *)
(* concurrent saves, every configuration and every bound.                  *)
(***************************************************************************)
EXTENDS NodeCommit, SequenceTheorems, TLAPS

SaveKinds == {"submit", "produce", "accept", "peers", "summary", "save"}

(***************************************************************************)
(* Appending a block, and dropping transactions from the pool.             *)
(***************************************************************************)
LEMMA ConfirmedAppend ==
  ASSUME NEW chain \in BlockChains, NEW block \in SUBSET Transactions
  PROVE  /\ Append(chain, block) \in BlockChains
         /\ Confirmed(Append(chain, block)) = Confirmed(chain) \cup block
<1>1. /\ Append(chain, block) \in BlockChains
      /\ Len(Append(chain, block)) = Len(chain) + 1
      /\ \A i \in 1 .. Len(chain) : Append(chain, block)[i] = chain[i]
      /\ Append(chain, block)[Len(chain) + 1] = block
      /\ Len(chain) \in Nat
  BY AppendProperties DEF BlockChains
<1>2. DOMAIN chain = 1 .. Len(chain)
      /\ DOMAIN Append(chain, block) = 1 .. (Len(chain) + 1)
  BY <1>1 DEF BlockChains
<1> DEFINE longer == Append(chain, block)
<1>3. \A i \in DOMAIN longer : longer[i] \subseteq Confirmed(chain) \cup block
  BY <1>1, <1>2 DEF Confirmed
<1>4. \A i \in DOMAIN chain : chain[i] \subseteq Confirmed(longer)
  <2> TAKE i \in DOMAIN chain
  <2>1. i \in DOMAIN longer /\ longer[i] = chain[i]
    BY <1>1, <1>2
  <2> HIDE DEF longer
  <2> QED BY <2>1 DEF Confirmed
<1>5. block \subseteq Confirmed(longer)
  <2>1. Len(chain) + 1 \in DOMAIN longer /\ longer[Len(chain) + 1] = block
    BY <1>1, <1>2
  <2> HIDE DEF longer
  <2> QED BY <2>1 DEF Confirmed
<1> HIDE DEF longer
<1>6. Confirmed(longer) \subseteq Confirmed(chain) \cup block
  BY <1>3 DEF Confirmed
<1>7. Confirmed(chain) \subseteq Confirmed(longer)
  BY <1>4 DEF Confirmed
<1> QED BY <1>1, <1>5, <1>6, <1>7 DEF longer

LEMMA ConfirmedOnceAppend ==
  ASSUME NEW m \in Contents, ConfirmedOnce(m),
         NEW block \in SUBSET Transactions, block \cap Confirmed(m.chain) = {},
         NEW after \in Contents, after.chain = Append(m.chain, block),
         after.mempool \subseteq m.mempool \ block
  PROVE  ConfirmedOnce(after)
<1>1. m.chain \in BlockChains /\ after.chain \in BlockChains
  BY DEF Contents
<1>2. after.mempool \cap Confirmed(after.chain) = {}
  BY <1>1, ConfirmedAppend DEF ConfirmedOnce
<1>3. /\ Len(after.chain) = Len(m.chain) + 1
      /\ \A i \in 1 .. Len(m.chain) : after.chain[i] = m.chain[i]
      /\ after.chain[Len(m.chain) + 1] = block
      /\ Len(m.chain) \in Nat
  BY <1>1, AppendProperties DEF BlockChains
<1>4. DOMAIN m.chain = 1 .. Len(m.chain) /\ DOMAIN after.chain = 1 .. (Len(m.chain) + 1)
  BY <1>1, <1>3 DEF BlockChains
<1>5. \A i \in DOMAIN m.chain : m.chain[i] \cap block = {}
  BY DEF Confirmed
<1>6. \A i, j \in DOMAIN m.chain : i # j => m.chain[i] \cap m.chain[j] = {}
  BY DEF ConfirmedOnce
<1>7. ASSUME NEW i \in DOMAIN after.chain, NEW j \in DOMAIN after.chain, i # j
      PROVE  after.chain[i] \cap after.chain[j] = {}
  <2>1. CASE i \in DOMAIN m.chain /\ j \in DOMAIN m.chain
    BY <1>3, <1>4, <1>6, <1>7, <2>1
  <2>2. CASE i = Len(m.chain) + 1 /\ j \in DOMAIN m.chain
    <3>1. after.chain[i] = block /\ after.chain[j] = m.chain[j]
      BY <1>3, <1>4, <2>2
    <3> QED BY <3>1, <1>5, <2>2
  <2>3. CASE j = Len(m.chain) + 1 /\ i \in DOMAIN m.chain
    <3>1. after.chain[j] = block /\ after.chain[i] = m.chain[i]
      BY <1>3, <1>4, <2>3
    <3> QED BY <3>1, <1>5, <2>3
  <2> QED BY <1>3, <1>4, <1>7, <2>1, <2>2, <2>3
<1> QED BY <1>2, <1>7 DEF ConfirmedOnce

(***************************************************************************)
(* What the handlers do to the memory: they take one transaction into the  *)
(* pool, or extend the chain by new transactions, or change nothing; and   *)
(* they drop pending ones.                                                 *)
(***************************************************************************)
Admits(after) ==
  /\ after.chain = memory.chain
  /\ \E t \in Transactions \ (Confirmed(memory.chain) \cup memory.mempool) :
       t \in after.mempool /\ after.mempool \subseteq memory.mempool \cup {t}

Extends(after) ==
  \E block \in SUBSET (Transactions \ Confirmed(memory.chain)) :
    /\ after.chain = Append(memory.chain, block)
    /\ after.mempool \subseteq memory.mempool \ block

Keeps(after) == after.chain = memory.chain /\ after.mempool = memory.mempool

\* Where a node looks a transaction up.  No handler forgets one.
Known(m) == Confirmed(m.chain) \cup m.mempool \cup Recorded(m)

Remembers(after, answer) == Known(memory) \cup answer \subseteq Known(after)

\* n is m without some pending transactions, which are recorded.
Drops(m, n) ==
  /\ n.chain = m.chain
  /\ n.mempool \subseteq m.mempool
  /\ (m.mempool \ n.mempool) \cup Recorded(m) \subseteq Recorded(n)

\* The memory changes and is not saved.
Unsaved ==
  /\ node = "up"
  /\ memory' \in Contents
  /\ Drops(memory, memory')
  /\ UNCHANGED <<node, jobs, file, rows, exports, answered, disturbed>>

SaveStep(h) ==
  \E kind \in SaveKinds, after \in Contents, answer \in SUBSET Transactions :
    /\ Save(h, kind, after, answer)
    /\ kind = "save" => OperatorSaves
    /\ Admits(after) \/ Extends(after) \/ Keeps(after)
    /\ Remembers(after, answer)

LEMMA ContentsFields ==
  ASSUME NEW m \in Contents
  PROVE  /\ m.chain \in BlockChains
         /\ m.mempool \subseteq Transactions
         /\ m.rejections \subseteq Transactions
BY DEF Contents

\* Reconciling records what it drops, and keeps what was recorded.
LEMMA Reconciled ==
  ASSUME NEW m \in Contents, NEW pool \in SUBSET Transactions, NEW kept \in SUBSET Transactions,
         NEW after \in WithPool(m, pool, kept)
  PROVE  /\ after \in Contents
         /\ after.chain = m.chain
         /\ after.mempool = kept
         /\ (pool \ kept) \cup Recorded(m) \subseteq Recorded(after)
<1>1. PICK list \in Listed(m.rejections, pool \ kept) :
        after = [m EXCEPT !.mempool = kept, !.rejections = list,
                          !.pushedOut = (@ \cup m.rejections \cup (pool \ kept)) \ list]
  BY DEF WithPool
<1>2. m.rejections \subseteq Transactions /\ m.pushedOut \subseteq Transactions
  BY DEF Contents
<1>3. list \subseteq Transactions
  BY <1>2 DEF Listed
<1>4. /\ after.chain = m.chain /\ after.mempool = kept /\ after.rejections = list
      /\ after.pushedOut = (m.pushedOut \cup m.rejections \cup (pool \ kept)) \ list
      /\ after \in Contents
  BY <1>1, <1>2, <1>3 DEF Contents
<1> QED BY <1>4 DEF Recorded

\* Submitting t to a memory from which some of the pool was dropped.
LEMMA SubmittedSteps ==
  ASSUME TypeOK, node = "up", NEW h \in Handlers, NEW t \in Transactions \ memory.mempool,
         NEW m \in Contents, Drops(memory, m), Submitted(h, m, t)
  PROVE  Unsaved \/ SaveStep(h)
<1>1. /\ memory \in Contents
      /\ t \notin Confirmed(m.chain) \cup m.mempool
      /\ m.mempool \in SUBSET Transactions /\ m.mempool \cup {t} \in SUBSET Transactions
  BY ContentsFields DEF TypeOK, Submitted
<1>2. ASSUME memory' \in WithPool(m, m.mempool \cup {t}, m.mempool),
             UNCHANGED <<node, jobs, file, rows, exports, answered, disturbed>>
      PROVE  Unsaved
  <2>0. PICK after \in WithPool(m, m.mempool \cup {t}, m.mempool) : memory' = after
    BY <1>2
  <2>2. /\ after \in Contents
        /\ after.chain = m.chain
        /\ after.mempool = m.mempool
        /\ ((m.mempool \cup {t}) \ m.mempool) \cup Recorded(m) \subseteq Recorded(after)
    BY <1>1, Reconciled
  <2>1. /\ memory' \in Contents
        /\ memory'.chain = m.chain
        /\ memory'.mempool = m.mempool
        /\ Recorded(m) \subseteq Recorded(memory')
    BY <2>0, <2>2
  <2> QED BY <1>2, <2>1 DEF Drops, Unsaved
<1>3. ASSUME NEW kept \in SUBSET m.mempool,
             NEW after \in WithPool(m, m.mempool \cup {t}, kept \cup {t}),
             Save(h, "submit", after, {t})
      PROVE  SaveStep(h)
  <2>1. kept \cup {t} \in SUBSET Transactions
    BY <1>1
  <2>2. /\ after \in Contents
        /\ after.chain = m.chain
        /\ after.mempool = kept \cup {t}
        /\ ((m.mempool \cup {t}) \ (kept \cup {t})) \cup Recorded(m) \subseteq Recorded(after)
    BY <1>1, <1>3, <2>1, Reconciled
  <2>3. after.chain = memory.chain /\ after.mempool \subseteq memory.mempool \cup {t}
    BY <2>2 DEF Drops
  <2>4. Admits(after)
    <3>1. t \in Transactions \ (Confirmed(memory.chain) \cup memory.mempool)
      BY <1>1 DEF Drops
    <3>2. t \in after.mempool
      BY <2>2
    <3> QED BY <2>3, <3>1, <3>2 DEF Admits
  <2>5. "submit" \in SaveKinds /\ {t} \in SUBSET Transactions /\ "submit" # "save"
    BY DEF SaveKinds
  <2>6. Remembers(after, {t})
    <3>1. memory.mempool \subseteq after.mempool \cup Recorded(after)
      BY <2>2 DEF Drops
    <3>2. Recorded(memory) \subseteq Recorded(after)
      BY <2>2 DEF Drops
    <3>3. Confirmed(memory.chain) = Confirmed(after.chain)
      BY <2>3
    <3> QED BY <2>2, <3>1, <3>2, <3>3 DEF Remembers, Known
  <2> QED BY <1>3, <2>2, <2>4, <2>5, <2>6 DEF SaveStep
<1> QED BY <1>2, <1>3 DEF Submitted

LEMMA SubmitSteps ==
  ASSUME TypeOK, NEW h \in Handlers, NEW t \in Transactions, SubmitTransaction(h, t)
  PROVE  Unsaved \/ SaveStep(h)
<1>1. memory \in Contents /\ Drops(memory, memory)
  BY DEF TypeOK, Drops
<1>2. node = "up" /\ Submitted(h, memory, t)
  BY DEF SubmitTransaction
<1>3. t \in Transactions \ memory.mempool
  BY <1>2 DEF Submitted
<1> QED BY <1>1, <1>2, <1>3, SubmittedSteps

LEMMA FaucetSteps ==
  ASSUME TypeOK, NEW h \in Handlers, NEW t \in Transactions, RequestFaucet(h, t)
  PROVE  Unsaved \/ SaveStep(h)
<1>1. memory \in Contents /\ memory.mempool \in SUBSET Transactions
  BY ContentsFields DEF TypeOK
<1>2. PICK kept \in SUBSET memory.mempool : \E m \in WithPool(memory, memory.mempool, kept) :
        \/ /\ memory' = m
           /\ UNCHANGED <<node, jobs, file, rows, exports, answered, disturbed>>
        \/ Submitted(h, m, t)
  BY DEF RequestFaucet
<1>3. PICK m \in WithPool(memory, memory.mempool, kept) :
        \/ /\ memory' = m
           /\ UNCHANGED <<node, jobs, file, rows, exports, answered, disturbed>>
        \/ Submitted(h, m, t)
  BY <1>2
<1>4. kept \in SUBSET Transactions
  BY <1>1
<1>5. m \in Contents /\ Drops(memory, m)
  BY <1>1, <1>4, Reconciled DEF Drops
<1>6. node = "up" /\ t \in Transactions \ memory.mempool
  BY DEF RequestFaucet
<1>7. CASE Submitted(h, m, t)
  BY <1>5, <1>6, <1>7, SubmittedSteps
<1>8. CASE memory' = m /\ UNCHANGED <<node, jobs, file, rows, exports, answered, disturbed>>
  BY <1>5, <1>6, <1>8 DEF Unsaved
<1> QED BY <1>3, <1>7, <1>8

LEMMA ProduceSteps ==
  ASSUME TypeOK, MomentsNotMixed, NEW h \in Handlers, ProduceBlock(h)
  PROVE  SaveStep(h)
<1>1. memory \in Contents /\ memory.mempool \cap Confirmed(memory.chain) = {}
  BY DEF TypeOK, MomentsNotMixed, ConfirmedOnce
<1>0. PICK kept \in SUBSET memory.mempool : \E block \in SUBSET kept :
        \E m \in WithPool(memory, memory.mempool, kept) :
          Save(h, "produce",
               [m EXCEPT !.chain = Append(@, block), !.mempool = kept \ block], {})
  BY DEF ProduceBlock
<1>2. PICK block \in SUBSET kept, m \in WithPool(memory, memory.mempool, kept) :
        Save(h, "produce",
             [m EXCEPT !.chain = Append(@, block), !.mempool = kept \ block], {})
  BY <1>0
<1> DEFINE after == [m EXCEPT !.chain = Append(@, block), !.mempool = kept \ block]
<1>3. /\ Append(memory.chain, block) \in BlockChains
      /\ Confirmed(Append(memory.chain, block)) = Confirmed(memory.chain) \cup block
  BY <1>1, ContentsFields, ConfirmedAppend
<1>9. /\ m \in Contents /\ m.chain = memory.chain
      /\ (memory.mempool \ kept) \cup Recorded(memory) \subseteq Recorded(m)
  <2>1. memory.mempool \in SUBSET Transactions /\ kept \in SUBSET Transactions
    BY <1>1, ContentsFields
  <2> QED BY <1>1, <2>1, Reconciled
<1>4. /\ after.chain = Append(memory.chain, block)
      /\ after.mempool = kept \ block
      /\ Recorded(after) = Recorded(m)
      /\ after \in Contents
  BY <1>1, <1>3, <1>9 DEF Recorded, Contents
<1>5. Save(h, "produce", after, {})
  BY <1>2
<1> HIDE DEF after
<1>6. Extends(after)
  <2>1. block \in SUBSET (Transactions \ Confirmed(memory.chain))
    BY <1>1, ContentsFields
  <2>2. after.mempool \subseteq memory.mempool \ block
    BY <1>4
  <2> QED BY <1>4, <2>1, <2>2 DEF Extends
<1>7. "produce" \in SaveKinds /\ {} \in SUBSET Transactions
  BY DEF SaveKinds
<1>8. Remembers(after, {})
  BY <1>3, <1>4, <1>9 DEF Remembers, Known
<1> QED BY <1>4, <1>5, <1>6, <1>7, <1>8 DEF SaveStep

LEMMA AcceptSteps ==
  ASSUME TypeOK, NEW h \in Handlers, NEW block \in SUBSET Transactions, AcceptBlock(h, block)
  PROVE  SaveStep(h)
<1>1. memory \in Contents /\ block \cap Confirmed(memory.chain) = {}
  BY DEF TypeOK, AcceptBlock
<1>0. PICK kept \in SUBSET (memory.mempool \ block) :
        \E m \in WithPool(memory, memory.mempool \ block, kept) :
          Save(h, "accept", [m EXCEPT !.chain = Append(@, block)], {})
  BY DEF AcceptBlock
<1>2. PICK m \in WithPool(memory, memory.mempool \ block, kept) :
        Save(h, "accept", [m EXCEPT !.chain = Append(@, block)], {})
  BY <1>0
<1> DEFINE after == [m EXCEPT !.chain = Append(@, block)]
<1>3. /\ Append(memory.chain, block) \in BlockChains
      /\ Confirmed(Append(memory.chain, block)) = Confirmed(memory.chain) \cup block
  BY <1>1, ContentsFields, ConfirmedAppend
<1>9. /\ m \in Contents /\ m.chain = memory.chain /\ m.mempool = kept
      /\ ((memory.mempool \ block) \ kept) \cup Recorded(memory) \subseteq Recorded(m)
  <2>1. memory.mempool \ block \in SUBSET Transactions /\ kept \in SUBSET Transactions
    BY <1>1, ContentsFields
  <2> QED BY <1>1, <2>1, Reconciled
<1>4. /\ after.chain = Append(memory.chain, block)
      /\ after.mempool = kept
      /\ Recorded(after) = Recorded(m)
      /\ after \in Contents
  BY <1>1, <1>3, <1>9 DEF Recorded, Contents
<1>5. Save(h, "accept", after, {})
  BY <1>2
<1> HIDE DEF after
<1>6. Extends(after)
  <2>1. block \in SUBSET (Transactions \ Confirmed(memory.chain))
    BY <1>1
  <2> QED BY <1>4, <2>1 DEF Extends
<1>7. "accept" \in SaveKinds /\ {} \in SUBSET Transactions
  BY DEF SaveKinds
<1>8. Remembers(after, {})
  BY <1>3, <1>4, <1>9 DEF Remembers, Known
<1> QED BY <1>4, <1>5, <1>6, <1>7, <1>8 DEF SaveStep

LEMMA UnchangedSteps ==
  ASSUME TypeOK, NEW h \in Handlers, SaveUnchanged(h)
  PROVE  SaveStep(h)
<1>1. PICK kind \in SaveKinds : Save(h, kind, memory, {}) /\ (kind = "save" => OperatorSaves)
  BY DEF SaveUnchanged, SaveKinds
<1>2. memory \in Contents /\ Keeps(memory) /\ Remembers(memory, {})
      /\ {} \in SUBSET Transactions
  BY DEF TypeOK, Keeps, Remembers
<1> QED BY <1>1, <1>2 DEF SaveStep

-----------------------------------------------------------------------------
(***************************************************************************)
(* What is stored, and what a restart finds.                               *)
(***************************************************************************)
\* The newest row is the last; no row appears from nowhere.
LEMMA StoredRows ==
  ASSUME rows \in Seq(Snapshots), NEW s \in Snapshots
  PROVE  /\ Stored(s) \in Seq(Snapshots)
         /\ Len(Stored(s)) \in 1 .. RowsKept
         /\ Stored(s)[Len(Stored(s))] = s
         /\ \A i \in 1 .. Len(Stored(s)) :
              Stored(s)[i] = s \/ \E j \in 1 .. Len(rows) : Stored(s)[i] = rows[j]
<1> DEFINE all == Append(rows, s)
           first == IF Len(all) > RowsKept THEN Len(all) - RowsKept + 1 ELSE 1
<1>1. /\ all \in Seq(Snapshots) /\ Len(all) = Len(rows) + 1 /\ Len(rows) \in Nat
      /\ \A i \in 1 .. Len(rows) : all[i] = rows[i]
      /\ all[Len(rows) + 1] = s
  BY AppendProperties
<1>2. RowsKept \in Nat \ {0}
  BY CommitAssumption
<1>3. Stored(s) = SubSeq(all, first, Len(all))
  BY DEF Stored
<1> HIDE DEF all
<1>4. first \in 1 .. Len(all) /\ Len(all) - first + 1 \in 1 .. RowsKept /\ Len(all) \in Nat
  BY <1>1, <1>2
<1> HIDE DEF first
<1>5. \A i \in first .. Len(all) : all[i] \in Snapshots
  BY <1>1, <1>4
<1>6. /\ Stored(s) \in Seq(Snapshots)
      /\ Len(Stored(s)) = Len(all) - first + 1
      /\ \A i \in 1 .. Len(all) - first + 1 : Stored(s)[i] = all[first + i - 1]
  BY <1>3, <1>4, <1>5, SubSeqProperties
<1>7. Stored(s)[Len(Stored(s))] = s
  <2>1. Stored(s)[Len(all) - first + 1] = all[first + (Len(all) - first + 1) - 1]
    BY <1>4, <1>6
  <2>2. first + (Len(all) - first + 1) - 1 = Len(rows) + 1
    BY <1>1, <1>4
  <2> QED BY <1>1, <1>6, <2>1, <2>2
<1>8. ASSUME NEW i \in 1 .. Len(Stored(s))
      PROVE  Stored(s)[i] = s \/ \E j \in 1 .. Len(rows) : Stored(s)[i] = rows[j]
  <2>1. Stored(s)[i] = all[first + i - 1] /\ first + i - 1 \in 1 .. (Len(rows) + 1)
    BY <1>1, <1>4, <1>6
  <2>2. CASE first + i - 1 = Len(rows) + 1
    BY <1>1, <2>1, <2>2
  <2>3. CASE first + i - 1 \in 1 .. Len(rows)
    BY <1>1, <2>1, <2>3
  <2> QED BY <1>1, <2>1, <2>2, <2>3
<1> QED BY <1>4, <1>6, <1>7, <1>8

\* A restart finds the file's snapshot, or the newest row, or nothing.
LEMMA RestorableFound ==
  ASSUME TypeOK
  PROVE  \/ Restorable = Genesis
         \/ file.status = "complete" /\ Restorable = file.snapshot.memory
         \/ rows # <<>> /\ Len(rows) \in 1 .. Len(rows) /\ Restorable = rows[Len(rows)].memory
<1> DEFINE found == FileSnapshot \cup LatestRow
           freshest == CHOOSE s \in found : \A t \in found : Fresher(s, t)
<1>1. rows # <<>> => Len(rows) \in 1 .. Len(rows) /\ rows[Len(rows)] \in Snapshots
  BY DEF TypeOK
<1>2. file.snapshot \in Snapshots
  BY DEF TypeOK
<1>3. \A s, t \in Snapshots : Fresher(s, t) \/ Fresher(t, s)
  <2> TAKE s \in Snapshots, t \in Snapshots
  <2>1. Len(s.memory.chain) \in Nat /\ Len(t.memory.chain) \in Nat /\ s.at \in Nat /\ t.at \in Nat
    BY DEF Snapshots, Contents, BlockChains
  <2> QED BY <2>1 DEF Fresher
<1>4. CASE found # {}
  <2>1. \E s \in found : \A t \in found : Fresher(s, t)
    BY <1>1, <1>2, <1>3, <1>4 DEF FileSnapshot, LatestRow
  <2>2. freshest \in found
    BY <2>1
  <2>3. Restorable = freshest.memory
    BY <1>4 DEF Restorable
  <2> HIDE DEF freshest
  <2> QED BY <1>1, <2>2, <2>3 DEF FileSnapshot, LatestRow
<1>5. CASE found = {}
  BY <1>5 DEF Restorable
<1> QED BY <1>4, <1>5

-----------------------------------------------------------------------------
(***************************************************************************)
(* Types.                                                                  *)
(***************************************************************************)
LEMMA InitialTypes == Genesis \in Contents /\ NoSnapshot \in Snapshots /\ Idle \in Jobs
<1>1. <<>> \in BlockChains
  BY DEF BlockChains
<1> QED BY <1>1 DEF Genesis, Contents, NoSnapshot, Snapshots, Idle, Jobs

LEMMA InitTypes == Init => TypeOK
<1> SUFFICES ASSUME Init PROVE TypeOK
  OBVIOUS
<1>1. <<>> \in BlockChains /\ <<>> \in Seq(Snapshots) /\ Len(<<>>) = 0
  BY DEF BlockChains
<1>2. jobs \in [Handlers -> Jobs]
  BY InitialTypes DEF Init
<1>3. file \in [status : {"missing", "torn", "complete"}, snapshot : Snapshots]
  BY InitialTypes DEF Init
<1>4. 0 <= RowsKept /\ 0 \in 0 .. MaxExports
  BY CommitAssumption
<1>5. memory \in Contents
  BY InitialTypes DEF Init
<1> QED BY <1>1, <1>2, <1>3, <1>4, <1>5 DEF Init, TypeOK

LEMMA InsertTypes ==
  ASSUME TypeOK, NEW s \in Snapshots, NEW stage, Insert(s, stage)
  PROVE  /\ rows' \in Seq(Snapshots) /\ Len(rows') <= RowsKept
         /\ stage \in {"saved", "failed"}
<1>1. rows \in Seq(Snapshots) /\ Len(rows) <= RowsKept
  BY DEF TypeOK
<1>2. Stored(s) \in Seq(Snapshots) /\ Len(Stored(s)) <= RowsKept
  BY <1>1, StoredRows, CommitAssumption
<1> QED BY <1>1, <1>2 DEF Insert

LEMMA JobTypes ==
  ASSUME TypeOK, NEW kind \in SaveKinds \cup {"import"},
         NEW stage \in {"opening", "saved", "failed"},
         NEW after \in Contents, NEW answer \in SUBSET Transactions
  PROVE  /\ Job(kind, stage, after, answer) \in Jobs
         /\ [memory |-> after, at |-> exports + 1] \in Snapshots
<1>1. exports + 1 \in Nat /\ memory \in Contents /\ Genesis \in Contents
  BY InitialTypes, CommitAssumption DEF TypeOK
<1>2. [memory |-> after, at |-> exports + 1] \in Snapshots
  BY <1>1 DEF Snapshots
<1>3. (IF kind = "accept" THEN memory ELSE Genesis) \in Contents
  BY <1>1
<1> QED BY <1>2, <1>3 DEF Job, Jobs, SaveKinds

LEMMA SaveTypes ==
  ASSUME TypeOK, NEW h \in Handlers, SaveStep(h)
  PROVE  TypeOK'
<1>1. PICK kind \in SaveKinds, after \in Contents, answer \in SUBSET Transactions :
        Save(h, kind, after, answer)
  BY DEF SaveStep
<1>2. PICK stage \in {"opening", "saved", "failed"} :
        /\ jobs' = [jobs EXCEPT ![h] = Job(kind, stage, after, answer)]
        /\ IF WritesFile(kind)
             THEN stage = "opening" /\ UNCHANGED rows
             ELSE Insert([memory |-> after, at |-> exports + 1], stage)
        /\ answered' = AnsweredBy(answer, stage)
        /\ disturbed' = (kind = "save" \/ ~ Quiet \/ stage = "failed")
  BY <1>1 DEF Save
<1>3. /\ Job(kind, stage, after, answer) \in Jobs
      /\ [memory |-> after, at |-> exports + 1] \in Snapshots
  BY JobTypes
<1>4. rows' \in Seq(Snapshots) /\ Len(rows') <= RowsKept
  BY <1>2, <1>3, InsertTypes DEF TypeOK
<1>5. jobs' \in [Handlers -> Jobs]
  BY <1>2, <1>3 DEF TypeOK
<1>6. answered' \subseteq Transactions /\ disturbed' \in BOOLEAN
  BY <1>2, <1>3 DEF AnsweredBy, TypeOK
<1>7. node' = node /\ file' = file /\ memory' = after /\ exports' \in 0 .. MaxExports
  BY <1>1, CommitAssumption DEF Save, TypeOK
<1> QED BY <1>4, <1>5, <1>6, <1>7 DEF TypeOK

LEMMA ImportTypes ==
  ASSUME TypeOK, NEW h \in Handlers, NEW contents \in Foreign, ImportSnapshot(h, contents)
  PROVE  TypeOK'
<1>1. contents \in Contents
  BY CommitAssumption
<1>2. PICK stage \in {"saved", "failed"} :
       /\ Insert([memory |-> contents, at |-> exports + 1], stage)
       /\ jobs' = IF stage = "saved" /\ HasFile
                    THEN [jobs EXCEPT ![h] = Job("import", "opening", contents, {})]
                    ELSE jobs
       /\ disturbed' = (~ Quiet \/ stage = "failed")
  BY DEF ImportSnapshot
<1>3. /\ Job("import", "opening", contents, {}) \in Jobs
      /\ [memory |-> contents, at |-> exports + 1] \in Snapshots
  BY <1>1, JobTypes
<1>4. rows' \in Seq(Snapshots) /\ Len(rows') <= RowsKept
  BY <1>2, <1>3, InsertTypes
<1>5. jobs' \in [Handlers -> Jobs] /\ disturbed' \in BOOLEAN
  BY <1>2, <1>3 DEF TypeOK
<1>6. /\ node' = node /\ file' = file /\ memory' = contents /\ exports' \in 0 .. MaxExports
      /\ answered' = {}
  BY CommitAssumption DEF ImportSnapshot, TypeOK
<1>7. <<>> \in BlockChains
  BY DEF BlockChains
<1> QED BY <1>1, <1>4, <1>5, <1>6, <1>7 DEF TypeOK

LEMMA WriteTypes ==
  ASSUME TypeOK, NEW h \in Handlers, FinishWrite(h)
  PROVE  TypeOK'
<1>1. jobs[h] \in Jobs /\ jobs[h].snapshot \in Snapshots /\ jobs[h].answer \subseteq Transactions
  BY DEF TypeOK, Jobs
<1>2. PICK stage \in {"saved", "failed"} :
       /\ \/ /\ file' \in WrittenFiles(jobs[h])
             /\ IF jobs[h].kind = "import" THEN stage = "saved" /\ UNCHANGED rows
                ELSE Insert(jobs[h].snapshot, stage)
          \/ WritesFail /\ stage = "failed" /\ UNCHANGED <<file, rows>>
       /\ jobs' = [jobs EXCEPT ![h].stage = stage]
       /\ answered' = AnsweredBy(jobs[h].answer, stage)
       /\ disturbed' = (disturbed \/ stage = "failed")
  BY DEF FinishWrite
<1>3. rows' \in Seq(Snapshots) /\ Len(rows') <= RowsKept
  BY <1>1, <1>2, InsertTypes DEF TypeOK
<1>4. jobs' \in [Handlers -> Jobs]
  BY <1>1, <1>2 DEF TypeOK, Jobs
<1>5. answered' \subseteq Transactions /\ disturbed' \in BOOLEAN
  BY <1>1, <1>2 DEF AnsweredBy, TypeOK
<1>6. file' \in [status : {"missing", "torn", "complete"}, snapshot : Snapshots]
  BY <1>1, <1>2, InitialTypes DEF WrittenFiles, TypeOK
<1>7. node' = node /\ memory' = memory /\ exports' = exports
  BY DEF FinishWrite
<1> QED BY <1>3, <1>4, <1>5, <1>6, <1>7 DEF TypeOK

LEMMA OpenTypes ==
  ASSUME TypeOK, NEW h \in Handlers, OpenFile(h)
  PROVE  TypeOK'
<1> DEFINE writers == {g \in Handlers : jobs[g].stage = "writing" /\ jobs[g].kind # "save"}
           meets == jobs[h].kind # "save" /\ writers # {}
<1>1. \A g \in Handlers :
        /\ [jobs[g] EXCEPT !.stage = "writing", !.overlapped = meets] \in Jobs
        /\ [jobs[g] EXCEPT !.overlapped = TRUE] \in Jobs
        /\ [jobs[g] EXCEPT !.stage = "failed"] \in Jobs
        /\ jobs[g] \in Jobs
  <2>1. meets \in BOOLEAN
    OBVIOUS
  <2> HIDE DEF meets
  <2>2. \A job \in Jobs : [job EXCEPT !.stage = "writing", !.overlapped = meets] \in Jobs
    BY <2>1 DEF Jobs
  <2>3. \A job \in Jobs : [job EXCEPT !.overlapped = TRUE] \in Jobs
    BY DEF Jobs
  <2>4. \A job \in Jobs : [job EXCEPT !.stage = "failed"] \in Jobs
    BY DEF Jobs
  <2>5. \A g \in Handlers : jobs[g] \in Jobs
    BY DEF TypeOK
  <2> HIDE DEF Jobs
  <2> QED BY <2>2, <2>3, <2>4, <2>5
<1>2. \/ jobs' = [g \in Handlers |->
                 IF g = h THEN [jobs[g] EXCEPT !.stage = "writing", !.overlapped = meets]
                 ELSE IF meets /\ g \in writers
                   THEN [jobs[g] EXCEPT !.overlapped = TRUE] ELSE jobs[g]]
      \/ jobs' = [jobs EXCEPT ![h].stage = "failed"]
  BY DEF OpenFile
<1>3. jobs' \in [Handlers -> Jobs]
  <2> HIDE DEF meets, writers
  <2>1. jobs \in [Handlers -> Jobs]
    BY DEF TypeOK
  <2> QED BY <1>1, <1>2, <2>1
<1>4. \/ file' = file
      \/ file' = [status |-> "torn", snapshot |-> NoSnapshot]
  BY DEF OpenFile
<1>5. file' \in [status : {"missing", "torn", "complete"}, snapshot : Snapshots]
  BY <1>4, InitialTypes DEF TypeOK
<1>6. disturbed' \in BOOLEAN /\ UNCHANGED <<node, memory, rows, exports, answered>>
  BY DEF OpenFile, TypeOK
<1> QED BY <1>3, <1>5, <1>6 DEF TypeOK

LEMMA SettleTypes ==
  ASSUME TypeOK, NEW h \in Handlers, Settle(h)
  PROVE  TypeOK'
<1>1. memory \in Contents /\ jobs[h] \in Jobs /\ jobs[h].before \in Contents
  BY DEF TypeOK, Jobs
<1>2. RolledBack(jobs[h].before) \in Contents
  BY <1>1 DEF RolledBack, Contents
<1>3. jobs' \in [Handlers -> Jobs]
  BY InitialTypes DEF Settle, TypeOK
<1>4. memory' \in Contents /\ node' \in {"up", "down", "failed"}
  BY <1>1, <1>2 DEF Settle, TypeOK
<1>5. UNCHANGED <<file, rows, exports, answered, disturbed>>
  BY DEF Settle
<1> QED BY <1>3, <1>4, <1>5 DEF TypeOK

LEMMA BootTypes ==
  ASSUME TypeOK, Boot
  PROVE  TypeOK'
<1>1. file.snapshot.memory \in Contents
  BY DEF TypeOK, Snapshots
<1>2. \A i \in 1 .. Len(rows) : rows[i].memory \in Contents
  <2>1. \A i \in 1 .. Len(rows) : rows[i] \in Snapshots
    BY DEF TypeOK
  <2> QED BY <2>1 DEF Snapshots
<1>3. Restorable \in Contents
  <2>1. CASE Restorable = Genesis
    BY <2>1, InitialTypes
  <2>2. CASE Restorable = file.snapshot.memory
    BY <1>1, <2>2
  <2>3. CASE Len(rows) \in 1 .. Len(rows) /\ Restorable = rows[Len(rows)].memory
    <3> HIDE DEF Contents
    <3>1. rows[Len(rows)].memory \in Contents
      BY <1>2, <2>3
    <3> QED BY <2>3, <3>1
  <2> QED BY <2>1, <2>2, <2>3, RestorableFound
<1>4. memory' \in Contents /\ node' \in {"up", "down", "failed"} /\ disturbed' \in BOOLEAN
  BY <1>3 DEF Boot, TypeOK
<1>5. UNCHANGED <<jobs, file, rows, exports, answered>>
  BY DEF Boot
<1> QED BY <1>4, <1>5 DEF TypeOK


LEMMA StepTypes ==
  ASSUME TypeOK, MomentsNotMixed, [Next]_vars
  PROVE  TypeOK'
<1>1. ASSUME Unsaved PROVE TypeOK'
  BY <1>1 DEF Unsaved, TypeOK
<1>2. ASSUME NEW h \in Handlers, NEW t \in Transactions,
             SubmitTransaction(h, t) \/ RequestFaucet(h, t)
      PROVE  TypeOK'
  BY <1>1, <1>2, SubmitSteps, FaucetSteps, SaveTypes
<1>3. ASSUME NEW h \in Handlers, ProduceBlock(h) PROVE TypeOK'
  BY <1>3, ProduceSteps, SaveTypes
<1>4. ASSUME NEW h \in Handlers, NEW block \in SUBSET Transactions, AcceptBlock(h, block)
      PROVE  TypeOK'
  BY <1>4, AcceptSteps, SaveTypes
<1>5. ASSUME NEW h \in Handlers, SaveUnchanged(h) PROVE TypeOK'
  BY <1>5, UnchangedSteps, SaveTypes
<1>6. ASSUME NEW h \in Handlers, NEW contents \in Foreign, ImportSnapshot(h, contents)
      PROVE  TypeOK'
  BY <1>6, ImportTypes
<1>7. ASSUME NEW h \in Handlers, OpenFile(h) \/ FinishWrite(h) \/ Settle(h) PROVE TypeOK'
  BY <1>7, OpenTypes, WriteTypes, SettleTypes
<1>8. ASSUME Crash PROVE TypeOK'
  <2>1. jobs' \in [Handlers -> Jobs]
    BY <1>8, InitialTypes DEF Crash
  <2> QED BY <1>8, <2>1 DEF Crash, TypeOK
<1>9. ASSUME Boot PROVE TypeOK'
  BY <1>9, BootTypes
<1>10. CASE UNCHANGED vars
  BY <1>10 DEF vars, TypeOK
<1> QED BY <1>2, <1>3, <1>4, <1>5, <1>6, <1>7, <1>8, <1>9, <1>10 DEF Next

-----------------------------------------------------------------------------
(***************************************************************************)
(* Moments are not mixed: neither in memory, nor in anything that was      *)
(* captured from it.                                                       *)
(***************************************************************************)
JobsNotMixed ==
  \A h \in Handlers :
    ConfirmedOnce(jobs[h].snapshot.memory) /\ ConfirmedOnce(jobs[h].before)

StoredNotMixed ==
  /\ ConfirmedOnce(file.snapshot.memory)
  /\ \A i \in 1 .. Len(rows) : ConfirmedOnce(rows[i].memory)

MomentsInv == TypeOK /\ ConfirmedOnce(memory) /\ JobsNotMixed /\ StoredNotMixed

LEMMA MomentsInvSuffices == MomentsInv => MomentsNotMixed
<1> SUFFICES ASSUME MomentsInv PROVE MomentsNotMixed
  OBVIOUS
<1>1. rows # <<>> => Len(rows) \in 1 .. Len(rows)
  BY DEF MomentsInv, TypeOK
<1> QED BY <1>1 DEF MomentsInv, StoredNotMixed, MomentsNotMixed, FileSnapshot, LatestRow

LEMMA GenesisConfirmedOnce ==
  ConfirmedOnce(Genesis) /\ ConfirmedOnce(NoSnapshot.memory)
    /\ ConfirmedOnce(Idle.snapshot.memory) /\ ConfirmedOnce(Idle.before)
BY DEF Genesis, NoSnapshot, Idle, ConfirmedOnce

\* Only the chain and the pool matter.
LEMMA SameMoment ==
  ASSUME NEW m, NEW n, ConfirmedOnce(m), n.chain = m.chain, n.mempool \subseteq m.mempool
  PROVE  ConfirmedOnce(n)
BY DEF ConfirmedOnce

LEMMA InitMoments == Init => MomentsInv
BY InitTypes, GenesisConfirmedOnce
   DEF Init, MomentsInv, JobsNotMixed, StoredNotMixed

LEMMA InsertMoments ==
  ASSUME MomentsInv, NEW s \in Snapshots, ConfirmedOnce(s.memory), NEW stage, Insert(s, stage)
  PROVE  \A i \in 1 .. Len(rows') : ConfirmedOnce(rows'[i].memory)
<1>1. rows \in Seq(Snapshots) /\ \A i \in 1 .. Len(rows) : ConfirmedOnce(rows[i].memory)
  BY DEF MomentsInv, TypeOK, StoredNotMixed
<1>2. \A i \in 1 .. Len(Stored(s)) :
        Stored(s)[i] = s \/ \E j \in 1 .. Len(rows) : Stored(s)[i] = rows[j]
  BY <1>1, StoredRows
<1>3. CASE rows' = rows
  BY <1>1, <1>3
<1>4. CASE rows' = Stored(s)
  BY <1>1, <1>2, <1>4
<1> QED BY <1>3, <1>4 DEF Insert

LEMMA SaveMoments ==
  ASSUME MomentsInv, NEW h \in Handlers, SaveStep(h)
  PROVE  ConfirmedOnce(memory') /\ JobsNotMixed' /\ StoredNotMixed'
<1>1. PICK kind \in SaveKinds, after \in Contents, answer \in SUBSET Transactions :
        Save(h, kind, after, answer) /\ (Admits(after) \/ Extends(after) \/ Keeps(after))
  BY DEF SaveStep
<1>2. memory \in Contents /\ ConfirmedOnce(memory)
  BY DEF MomentsInv, TypeOK
<1>3. ConfirmedOnce(after)
  <2>1. CASE Admits(after)
    BY <1>2, <2>1 DEF Admits, ConfirmedOnce
  <2>2. CASE Extends(after)
    BY <1>2, <2>2, ConfirmedOnceAppend DEF Extends
  <2>3. CASE Keeps(after)
    BY <1>2, <2>3, SameMoment DEF Keeps
  <2> QED BY <1>1, <2>1, <2>2, <2>3
<1>4. PICK stage \in {"opening", "saved", "failed"} :
        /\ jobs' = [jobs EXCEPT ![h] = Job(kind, stage, after, answer)]
        /\ IF WritesFile(kind)
             THEN stage = "opening" /\ UNCHANGED rows
             ELSE Insert([memory |-> after, at |-> exports + 1], stage)
  BY <1>1 DEF Save
<1> DEFINE job == Job(kind, stage, after, answer)
           snapshot == [memory |-> after, at |-> exports + 1]
<1>5. job.snapshot = snapshot /\ snapshot.memory = after
      /\ job.before = IF kind = "accept" THEN memory ELSE Genesis
  BY DEF Job
<1>6. snapshot \in Snapshots
  BY JobTypes DEF MomentsInv
<1>7. memory' = after /\ file' = file
  BY <1>1 DEF Save
<1> HIDE DEF job, snapshot
<1>8. ConfirmedOnce(job.snapshot.memory) /\ ConfirmedOnce(job.before)
  BY <1>2, <1>3, <1>5, GenesisConfirmedOnce
<1>9. JobsNotMixed'
  <2>1. \A g \in Handlers : jobs'[g] = job \/ jobs'[g] = jobs[g]
    BY <1>4 DEF job, MomentsInv, TypeOK
  <2> QED BY <1>8, <2>1 DEF JobsNotMixed, MomentsInv
<1>10. \A i \in 1 .. Len(rows') : ConfirmedOnce(rows'[i].memory)
  <2>1. CASE rows' = rows
    BY <2>1 DEF MomentsInv, StoredNotMixed
  <2>2. CASE Insert(snapshot, stage)
    BY <1>3, <1>5, <1>6, <2>2, InsertMoments
  <2> QED BY <1>4, <2>1, <2>2 DEF snapshot
<1> QED BY <1>3, <1>7, <1>9, <1>10 DEF StoredNotMixed, MomentsInv

LEMMA ImportMoments ==
  ASSUME MomentsInv, NEW h \in Handlers, NEW contents \in Foreign, ImportSnapshot(h, contents)
  PROVE  ConfirmedOnce(memory') /\ JobsNotMixed' /\ StoredNotMixed'
<1>1. contents \in Contents /\ ConfirmedOnce(contents)
  BY CommitAssumption
<1> DEFINE job == Job("import", "opening", contents, {})
           snapshot == [memory |-> contents, at |-> exports + 1]
<1>2. job.snapshot = snapshot /\ snapshot.memory = contents /\ job.before = Genesis
  BY DEF Job
<1>3. snapshot \in Snapshots
  BY <1>1, JobTypes DEF MomentsInv
<1>4. PICK stage \in {"saved", "failed"} :
        /\ Insert(snapshot, stage)
        /\ jobs' = IF stage = "saved" /\ HasFile THEN [jobs EXCEPT ![h] = job] ELSE jobs
  BY DEF ImportSnapshot
<1> HIDE DEF job, snapshot
<1>5. \A g \in Handlers : jobs'[g] = job \/ jobs'[g] = jobs[g]
  BY <1>4 DEF MomentsInv, TypeOK
<1>6. JobsNotMixed'
  BY <1>1, <1>2, <1>5, GenesisConfirmedOnce DEF JobsNotMixed, MomentsInv
<1>7. \A i \in 1 .. Len(rows') : ConfirmedOnce(rows'[i].memory)
  BY <1>1, <1>2, <1>3, <1>4, InsertMoments
<1>8. memory' = contents /\ file' = file
  BY DEF ImportSnapshot
<1> QED BY <1>1, <1>6, <1>7, <1>8 DEF StoredNotMixed, MomentsInv

LEMMA OpenMoments ==
  ASSUME MomentsInv, NEW h \in Handlers, OpenFile(h)
  PROVE  ConfirmedOnce(memory') /\ JobsNotMixed' /\ StoredNotMixed'
<1>1. \A g \in Handlers : jobs'[g].snapshot = jobs[g].snapshot /\ jobs'[g].before = jobs[g].before
  <2> TAKE g \in Handlers
  <2>1. jobs[g] \in Jobs /\ jobs \in [Handlers -> Jobs]
    BY DEF MomentsInv, TypeOK
  <2>2. \/ jobs'[g] = jobs[g]
        \/ jobs'[g] = [jobs[g] EXCEPT !.stage = "failed"]
        \/ \E b \in BOOLEAN : jobs'[g] = [jobs[g] EXCEPT !.stage = "writing", !.overlapped = b]
        \/ jobs'[g] = [jobs[g] EXCEPT !.overlapped = TRUE]
    <3> HIDE DEF Jobs
    <3> QED BY <2>1 DEF OpenFile
  <2> QED BY <2>1, <2>2 DEF Jobs
<1>2. \/ file' = file
      \/ file' = [status |-> "torn", snapshot |-> NoSnapshot]
  BY DEF OpenFile
<1>3. ConfirmedOnce(file'.snapshot.memory)
  BY <1>2, GenesisConfirmedOnce DEF MomentsInv, StoredNotMixed
<1>4. memory' = memory /\ rows' = rows
  BY DEF OpenFile
<1> QED BY <1>1, <1>3, <1>4 DEF MomentsInv, JobsNotMixed, StoredNotMixed

LEMMA WriteMoments ==
  ASSUME MomentsInv, NEW h \in Handlers, FinishWrite(h)
  PROVE  ConfirmedOnce(memory') /\ JobsNotMixed' /\ StoredNotMixed'
<1>1. jobs[h].snapshot \in Snapshots /\ ConfirmedOnce(jobs[h].snapshot.memory)
  BY DEF MomentsInv, TypeOK, Jobs, JobsNotMixed
<1>2. \A g \in Handlers : jobs'[g].snapshot = jobs[g].snapshot /\ jobs'[g].before = jobs[g].before
  BY DEF FinishWrite, MomentsInv, TypeOK, Jobs
<1>3. file' \in WrittenFiles(jobs[h]) \/ file' = file
  BY DEF FinishWrite
<1>4. ConfirmedOnce(file'.snapshot.memory)
  BY <1>1, <1>3, GenesisConfirmedOnce DEF WrittenFiles, MomentsInv, StoredNotMixed
<1>5. rows' = rows \/ \E stage : Insert(jobs[h].snapshot, stage)
  BY DEF FinishWrite
<1>6. \A i \in 1 .. Len(rows') : ConfirmedOnce(rows'[i].memory)
  BY <1>1, <1>5, InsertMoments DEF MomentsInv, StoredNotMixed
<1>7. memory' = memory
  BY DEF FinishWrite
<1> QED BY <1>2, <1>4, <1>6, <1>7 DEF MomentsInv, JobsNotMixed, StoredNotMixed

LEMMA SettleMoments ==
  ASSUME MomentsInv, NEW h \in Handlers, Settle(h)
  PROVE  ConfirmedOnce(memory') /\ JobsNotMixed' /\ StoredNotMixed'
<1>1. memory \in Contents /\ ConfirmedOnce(memory) /\ ConfirmedOnce(jobs[h].before)
  BY DEF MomentsInv, TypeOK, JobsNotMixed
<1> DEFINE restored == RolledBack(jobs[h].before)
<1>2. restored.chain = jobs[h].before.chain /\ restored.mempool = jobs[h].before.mempool
  BY <1>1 DEF RolledBack, Contents
<1>3. memory' = memory \/ memory' = restored
  BY DEF Settle
<1> HIDE DEF restored
<1>4. ConfirmedOnce(memory')
  BY <1>1, <1>2, <1>3, SameMoment
<1>5. \A g \in Handlers : jobs'[g] = jobs[g] \/ jobs'[g] = Idle
  BY DEF Settle, MomentsInv, TypeOK
<1>6. file' = file /\ rows' = rows
  BY DEF Settle
<1> QED BY <1>4, <1>5, <1>6, GenesisConfirmedOnce DEF MomentsInv, JobsNotMixed, StoredNotMixed

LEMMA BootMoments ==
  ASSUME MomentsInv, Boot
  PROVE  ConfirmedOnce(memory') /\ JobsNotMixed' /\ StoredNotMixed'
<1>1. ConfirmedOnce(Restorable)
  <2>1. CASE Restorable = Genesis
    BY <2>1, GenesisConfirmedOnce
  <2>2. CASE Restorable = file.snapshot.memory
    BY <2>2 DEF MomentsInv, StoredNotMixed
  <2>3. CASE Len(rows) \in 1 .. Len(rows) /\ Restorable = rows[Len(rows)].memory
    BY <2>3 DEF MomentsInv, StoredNotMixed
  <2> QED BY <2>1, <2>2, <2>3, RestorableFound DEF MomentsInv
<1>2. memory' = memory \/ memory' = Restorable
  BY DEF Boot
<1>3. UNCHANGED <<jobs, file, rows>>
  BY DEF Boot
<1> QED BY <1>1, <1>2, <1>3 DEF MomentsInv, JobsNotMixed, StoredNotMixed

LEMMA StepMoments == MomentsInv /\ [Next]_vars => MomentsInv'
<1> SUFFICES ASSUME MomentsInv, [Next]_vars PROVE MomentsInv'
  OBVIOUS
<1> DEFINE Rest == ConfirmedOnce(memory) /\ JobsNotMixed /\ StoredNotMixed
<1>0. TypeOK /\ MomentsNotMixed /\ TypeOK'
  BY MomentsInvSuffices, StepTypes DEF MomentsInv
<1>1. ASSUME Unsaved PROVE Rest'
  <2>1. memory'.chain = memory.chain /\ memory'.mempool \subseteq memory.mempool
    BY <1>1 DEF Unsaved, Drops
  <2>2. ConfirmedOnce(memory')
    BY <2>1, SameMoment DEF MomentsInv
  <2> QED BY <1>1, <2>2 DEF Unsaved, MomentsInv, JobsNotMixed, StoredNotMixed
<1>2. ASSUME NEW h \in Handlers, NEW t \in Transactions,
             SubmitTransaction(h, t) \/ RequestFaucet(h, t)
      PROVE  Rest'
  BY <1>0, <1>1, <1>2, SubmitSteps, FaucetSteps, SaveMoments
<1>3. ASSUME NEW h \in Handlers, ProduceBlock(h) PROVE Rest'
  BY <1>0, <1>3, ProduceSteps, SaveMoments
<1>4. ASSUME NEW h \in Handlers, NEW block \in SUBSET Transactions, AcceptBlock(h, block)
      PROVE  Rest'
  BY <1>0, <1>4, AcceptSteps, SaveMoments
<1>5. ASSUME NEW h \in Handlers, SaveUnchanged(h) PROVE Rest'
  BY <1>0, <1>5, UnchangedSteps, SaveMoments
<1>6. ASSUME NEW h \in Handlers, NEW contents \in Foreign, ImportSnapshot(h, contents)
      PROVE  Rest'
  BY <1>6, ImportMoments
<1>7. ASSUME NEW h \in Handlers, OpenFile(h) \/ FinishWrite(h) \/ Settle(h) PROVE Rest'
  BY <1>7, OpenMoments, WriteMoments, SettleMoments
<1>8. ASSUME Crash PROVE Rest'
  BY <1>8, GenesisConfirmedOnce DEF Crash, MomentsInv, JobsNotMixed, StoredNotMixed
<1>9. ASSUME Boot PROVE Rest'
  BY <1>9, BootMoments
<1>10. ASSUME UNCHANGED vars PROVE Rest'
  BY <1>10 DEF vars, MomentsInv, JobsNotMixed, StoredNotMixed
<1>11. Rest'
  <2> HIDE DEF Rest
  <2> QED BY <1>2, <1>3, <1>4, <1>5, <1>6, <1>7, <1>8, <1>9, <1>10 DEF Next
<1> QED BY <1>0, <1>11 DEF MomentsInv

(***************************************************************************)
(* In every configuration, with failing writes, overlapping saves, imports *)
(* and crashes: the state keeps its types, and no transaction is pending   *)
(* and confirmed, or confirmed twice, in memory or after a restart.        *)
(***************************************************************************)
THEOREM CommitTypeCorrect == Spec => []TypeOK
<1>1. Spec => []MomentsInv
  BY InitMoments, StepMoments, PTL DEF Spec
<1> QED BY <1>1, PTL DEF MomentsInv

THEOREM CommitMomentsNotMixed == Spec => []MomentsNotMixed
<1>1. Spec => []MomentsInv
  BY InitMoments, StepMoments, PTL DEF Spec
<1> QED BY <1>1, MomentsInvSuffices, PTL

-----------------------------------------------------------------------------
(***************************************************************************)
(* A save that runs alone.  Nothing is known of what is on disk while      *)
(* saves overlap or after one failed; from the next save that starts when  *)
(* all is quiet, it is known again.                                        *)
(***************************************************************************)
OnDisk == file.status # "torn" /\ Covers(Restorable, memory)

LEMMA CoversItself == \A m : Covers(m, m)
BY DEF Covers

LEMMA CoversDropped ==
  ASSUME NEW s, NEW m, NEW n, Covers(s, m), Drops(m, n)
  PROVE  Covers(s, n)
BY DEF Covers, Drops

IsNewestRow(s) == rows # <<>> /\ rows[Len(rows)] = s

\* A snapshot is wherever the node stores snapshots.
Committed(s) ==
  /\ HasFile => file.status = "complete" /\ file.snapshot = s
  /\ HasDatabase => IsNewestRow(s)

\* The only handler that is under way will save what memory holds, or has.
SavesAlone(h) ==
  LET job == jobs[h]
  IN  /\ \A g \in Handlers \ {h} : jobs[g] = Idle
      /\ job.kind # "save" /\ ~ job.overlapped
      /\ Covers(job.snapshot.memory, memory)
      /\ \/ /\ job.stage \in {"opening", "writing"}
            /\ job.kind = "import" /\ HasDatabase => IsNewestRow(job.snapshot)
         \/ job.stage = "saved" /\ OnDisk

\* Nothing is stored where the node stores nothing; a node that is down has
\* no handlers under way.
Places ==
  /\ ~ HasDatabase => rows = <<>>
  /\ ~ HasFile => file.status = "missing"
  /\ ~ HasFile => \A h \in Handlers :
       jobs[h].stage \in {"opening", "writing"} => jobs[h].kind = "save"
  /\ node # "up" => Quiet

Undisturbed ==
  node = "up" /\ ~ disturbed => (Quiet /\ OnDisk) \/ \E h \in Handlers : SavesAlone(h)

LoneInv == MomentsInv /\ Places /\ Undisturbed

\* Two copies of one snapshot are that snapshot.
LEMMA SingleRestored ==
  ASSUME NEW s \in Snapshots, FileSnapshot \cup LatestRow = {s}
  PROVE  Restorable = s.memory
<1>1. s.at \in Nat
  BY DEF Snapshots
<1>2. Fresher(s, s)
  BY <1>1 DEF Fresher
<1> QED BY <1>2 DEF Restorable

CommitRestores ==
  \A s \in Snapshots :
    TypeOK /\ Places /\ Committed(s) => file.status # "torn" /\ Restorable = s.memory

LEMMA CommittedRestores == CommitRestores
<1> SUFFICES ASSUME NEW s \in Snapshots, TypeOK, Places, Committed(s)
             PROVE  file.status # "torn" /\ Restorable = s.memory
  BY DEF CommitRestores
<1>1. HasFile \in BOOLEAN /\ HasDatabase \in BOOLEAN /\ (HasFile \/ HasDatabase)
  BY CommitAssumption
<1>2. CASE HasFile
  <2>1. FileSnapshot = {s} /\ file.status # "torn"
    BY <1>2 DEF Committed, FileSnapshot
  <2>2. LatestRow = {} \/ LatestRow = {s}
    BY <1>1 DEF Committed, IsNewestRow, Places, LatestRow
  <2> QED BY <2>1, <2>2, SingleRestored
<1>3. CASE ~ HasFile
  <2>1. FileSnapshot = {} /\ file.status # "torn"
    BY <1>3 DEF Places, FileSnapshot
  <2>2. LatestRow = {s}
    BY <1>1, <1>3 DEF Committed, IsNewestRow, LatestRow
  <2> QED BY <2>1, <2>2, SingleRestored
<1> QED BY <1>2, <1>3

\* A step that writes nothing leaves what a restart finds.
LEMMA DiskUnchanged ==
  ASSUME UNCHANGED <<file, rows>>
  PROVE  Restorable' = Restorable
BY DEF Restorable, FileSnapshot, LatestRow

LEMMA InsertedRow ==
  ASSUME TypeOK, Places, NEW s \in Snapshots, Insert(s, "saved")
  PROVE  /\ HasDatabase => IsNewestRow(s)'
         /\ ~ HasDatabase => rows' = <<>>
<1>1. CASE HasDatabase
  <2>1. rows' = Stored(s)
    BY <1>1 DEF Insert
  <2>2. Len(Stored(s)) \in 1 .. RowsKept /\ Stored(s)[Len(Stored(s))] = s
    BY StoredRows DEF TypeOK
  <2>3. Len(<<>>) = 0
    OBVIOUS
  <2> QED BY <1>1, <2>1, <2>2, <2>3 DEF IsNewestRow
<1>2. CASE ~ HasDatabase
  BY <1>2 DEF Insert, Places
<1> QED BY <1>1, <1>2

LEMMA SaveLone ==
  ASSUME LoneInv, TypeOK', NEW h \in Handlers, SaveStep(h)
  PROVE  Places' /\ Undisturbed'
<1>0. TypeOK /\ Places
  BY DEF LoneInv, MomentsInv
<1>1. PICK kind \in SaveKinds, after \in Contents, answer \in SUBSET Transactions :
        Save(h, kind, after, answer)
  BY DEF SaveStep
<1>a. PICK s \in Snapshots : s = [memory |-> after, at |-> exports + 1]
  BY <1>0, JobTypes
<1>2. PICK stage \in {"opening", "saved", "failed"} :
        /\ jobs' = [jobs EXCEPT ![h] = Job(kind, stage, after, answer)]
        /\ IF WritesFile(kind)
             THEN stage = "opening" /\ UNCHANGED rows
             ELSE Insert(s, stage)
        /\ disturbed' = (kind = "save" \/ ~ Quiet \/ stage = "failed")
  BY <1>a, <1>1 DEF Save
<1> DEFINE job == Job(kind, stage, after, answer)
<1>3. /\ job.kind = kind /\ job.stage = stage /\ job.snapshot = s /\ ~ job.overlapped
      /\ s.memory = after
  BY <1>a DEF Job
<1>4. memory' = after /\ node = "up" /\ node' = "up" /\ file' = file
  BY <1>1 DEF Save
<1>5. jobs'[h] = job /\ \A g \in Handlers \ {h} : jobs'[g] = jobs[g]
  BY <1>0, <1>2 DEF TypeOK
<1>6. kind # "import"
  BY DEF SaveKinds
<1> HIDE DEF job
<1>7. Places'
  <2>1. ~ HasDatabase => rows' = <<>>
    BY <1>0, <1>2 DEF Insert, Places
  <2>2. ~ HasFile /\ kind # "save" => stage \notin {"opening", "writing"}
    BY <1>2 DEF WritesFile, Insert
  <2> QED BY <1>0, <1>3, <1>4, <1>5, <2>1, <2>2 DEF Places
<1>8. ASSUME ~ disturbed' PROVE SavesAlone(h)'
  <2>1. kind # "save" /\ Quiet /\ stage # "failed"
    BY <1>2, <1>8
  <2>2. \A g \in Handlers \ {h} : jobs'[g] = Idle
    BY <1>5, <2>1 DEF Quiet
  <2>3. CASE WritesFile(kind)
    BY <1>2, <1>3, <1>4, <1>5, <1>6, <2>1, <2>2, <2>3, CoversItself DEF SavesAlone
  <2>4. CASE ~ WritesFile(kind)
    <3>1. Insert(s, stage) /\ stage = "saved" /\ ~ HasFile
      BY <1>2, <2>1, <2>4 DEF WritesFile, Insert
    <3>2. Committed(s)'
      BY <1>0, <3>1, InsertedRow DEF Committed
    <3>3. CommitRestores'
      BY CommittedRestores, PTL
    <3>4. OnDisk'
      BY <1>3, <1>4, <1>7, <3>2, <3>3, CoversItself DEF CommitRestores, OnDisk
    <3> QED BY <1>3, <1>4, <1>5, <2>1, <2>2, <3>1, <3>4, CoversItself DEF SavesAlone
  <2> QED BY <2>3, <2>4
<1> QED BY <1>7, <1>8 DEF Undisturbed

LEMMA ImportLone ==
  ASSUME LoneInv, TypeOK', NEW h \in Handlers, NEW contents \in Foreign,
         ImportSnapshot(h, contents)
  PROVE  Places' /\ Undisturbed'
<1>0. TypeOK /\ Places /\ contents \in Contents
  BY CommitAssumption DEF LoneInv, MomentsInv
<1>a. PICK s \in Snapshots : s = [memory |-> contents, at |-> exports + 1]
  BY <1>0, JobTypes
<1> DEFINE job == Job("import", "opening", contents, {})
<1>1. PICK stage \in {"saved", "failed"} :
        /\ Insert(s, stage)
        /\ jobs' = IF stage = "saved" /\ HasFile THEN [jobs EXCEPT ![h] = job] ELSE jobs
        /\ disturbed' = (~ Quiet \/ stage = "failed")
  BY <1>a DEF ImportSnapshot
<1>2. /\ job.kind = "import" /\ job.stage = "opening" /\ job.snapshot = s /\ ~ job.overlapped
      /\ s.memory = contents
  BY <1>a DEF Job
<1>3. memory' = contents /\ node = "up" /\ node' = "up" /\ file' = file
  BY DEF ImportSnapshot
<1> HIDE DEF job
<1>4. Places'
  <2>1. ~ HasDatabase => rows' = <<>>
    BY <1>0, <1>1 DEF Insert, Places
  <2>2. ~ HasFile => jobs' = jobs
    BY <1>1
  <2> QED BY <1>0, <1>3, <2>1, <2>2 DEF Places
<1>5. ASSUME ~ disturbed' PROVE (Quiet /\ OnDisk)' \/ SavesAlone(h)'
  <2>1. Quiet /\ stage = "saved" /\ Insert(s, "saved")
    BY <1>1, <1>5
  <2>2. HasDatabase => IsNewestRow(s)'
    BY <1>0, <2>1, InsertedRow
  <2>3. CASE HasFile
    <3>1. jobs'[h] = job /\ \A g \in Handlers \ {h} : jobs'[g] = jobs[g]
      BY <1>0, <1>1, <2>1, <2>3 DEF TypeOK
    <3>2. \A g \in Handlers \ {h} : jobs'[g] = Idle
      BY <2>1, <3>1 DEF Quiet
    <3> QED BY <1>2, <1>3, <2>2, <3>1, <3>2, CoversItself DEF SavesAlone
  <2>4. CASE ~ HasFile
    <3>1. Committed(s)' /\ Quiet'
      BY <1>1, <2>1, <2>2, <2>4 DEF Committed, Quiet
    <3>2. CommitRestores'
      BY CommittedRestores, PTL
    <3>3. OnDisk'
      BY <1>2, <1>3, <1>4, <3>1, <3>2, CoversItself DEF CommitRestores, OnDisk
    <3> QED BY <3>1, <3>3
  <2> QED BY <2>3, <2>4
<1> QED BY <1>4, <1>5 DEF Undisturbed

\* When one handler is under way, another has nothing to open or to write.
LEMMA OtherIsIdle ==
  ASSUME NEW g \in Handlers, SavesAlone(g), NEW h \in Handlers, jobs[h].stage # "idle"
  PROVE  h = g
BY DEF SavesAlone, Idle

LEMMA OpenLone ==
  ASSUME LoneInv, NEW h \in Handlers, OpenFile(h)
  PROVE  Places' /\ Undisturbed'
<1>0. TypeOK /\ Places /\ Undisturbed /\ jobs \in [Handlers -> Jobs] /\ jobs[h] \in Jobs
  BY DEF LoneInv, MomentsInv, TypeOK
<1> DEFINE writers == {g \in Handlers : jobs[g].stage = "writing" /\ jobs[g].kind # "save"}
           meets == jobs[h].kind # "save" /\ writers # {}
<1>1. jobs[h].stage = "opening" /\ UNCHANGED <<node, memory, rows>>
  BY DEF OpenFile
<1>2. \/ /\ jobs' = [g \in Handlers |->
                       IF g = h THEN [jobs[g] EXCEPT !.stage = "writing", !.overlapped = meets]
                       ELSE IF meets /\ g \in writers
                         THEN [jobs[g] EXCEPT !.overlapped = TRUE] ELSE jobs[g]]
         /\ file' = IF jobs[h].kind = "save" THEN file
                    ELSE [status |-> "torn", snapshot |-> NoSnapshot]
         /\ disturbed' = disturbed
      \/ /\ jobs' = [jobs EXCEPT ![h].stage = "failed"]
         /\ disturbed' = TRUE
         /\ file' = file
  BY DEF OpenFile
<1>3. \A g \in Handlers :
        /\ jobs'[g].kind = jobs[g].kind /\ jobs'[g].snapshot = jobs[g].snapshot
        /\ jobs'[g].stage \in {"opening", "writing"} => jobs[g].stage \in {"opening", "writing"}
  <2> HIDE DEF meets, writers
  <2>1. ASSUME NEW g \in Handlers
        PROVE  \/ jobs'[g] = jobs[g]
               \/ g = h /\ jobs'[g] = [jobs[g] EXCEPT !.stage = "writing", !.overlapped = meets]
               \/ jobs'[g] = [jobs[g] EXCEPT !.overlapped = TRUE]
               \/ g = h /\ jobs'[g] = [jobs[g] EXCEPT !.stage = "failed"]
    <3> HIDE DEF Jobs
    <3> QED BY <1>0, <1>2
  <2>2. \A g \in Handlers : jobs[g] \in Jobs
    BY <1>0
  <2>3. \A job \in Jobs : \A b :
          /\ [job EXCEPT !.stage = "writing", !.overlapped = b].kind = job.kind
          /\ [job EXCEPT !.stage = "writing", !.overlapped = b].snapshot = job.snapshot
    BY DEF Jobs
  <2>4. \A job \in Jobs :
          /\ [job EXCEPT !.overlapped = TRUE].kind = job.kind
          /\ [job EXCEPT !.overlapped = TRUE].snapshot = job.snapshot
          /\ [job EXCEPT !.overlapped = TRUE].stage = job.stage
    BY DEF Jobs
  <2>5. \A job \in Jobs :
          /\ [job EXCEPT !.stage = "failed"].kind = job.kind
          /\ [job EXCEPT !.stage = "failed"].snapshot = job.snapshot
          /\ [job EXCEPT !.stage = "failed"].stage = "failed"
    BY DEF Jobs
  <2> HIDE DEF Jobs, meets
  <2> TAKE g \in Handlers
  <2>6. CASE jobs'[g] = jobs[g]
    BY <2>6
  <2>7. CASE g = h /\ jobs'[g] = [jobs[g] EXCEPT !.stage = "writing", !.overlapped = meets]
    <3>1. jobs'[g].kind = jobs[g].kind /\ jobs'[g].snapshot = jobs[g].snapshot
      BY <2>2, <2>3, <2>7
    <3> QED BY <1>1, <2>7, <3>1
  <2>8. CASE jobs'[g] = [jobs[g] EXCEPT !.overlapped = TRUE]
    BY <2>2, <2>4, <2>8
  <2>9. CASE g = h /\ jobs'[g] = [jobs[g] EXCEPT !.stage = "failed"]
    BY <2>2, <2>5, <2>9
  <2> QED BY <2>1, <2>6, <2>7, <2>8, <2>9
<1>4. Places'
  <2>1. ~ HasFile => file' = file
    BY <1>0, <1>1, <1>2 DEF Places
  <2>2. node # "up" => FALSE
    BY <1>0, <1>1 DEF Places, Quiet, Idle
  <2> QED BY <1>0, <1>1, <1>3, <2>1, <2>2 DEF Places
<1>5. ASSUME node' = "up", ~ disturbed' PROVE SavesAlone(h)'
  <2>1. node = "up" /\ ~ disturbed /\ ~ Quiet
    <3>1. node = "up" /\ ~ Quiet
      BY <1>1, <1>5 DEF Quiet, Idle
    <3>2. disturbed' = disturbed
      <4> HIDE DEF meets, writers
      <4> QED BY <1>2, <1>5
    <3> QED BY <1>5, <3>1, <3>2
  <2>2. SavesAlone(h)
    <3>1. PICK g \in Handlers : SavesAlone(g)
      BY <1>0, <2>1 DEF Undisturbed
    <3> QED BY <1>1, <3>1, OtherIsIdle
  <2>3. ~ meets
    <3>1. \A g \in Handlers : jobs[g].stage # "writing"
      BY <1>1, <2>2 DEF SavesAlone, Idle
    <3> QED BY <3>1
  <2>4. jobs' = [g \in Handlers |->
                  IF g = h THEN [jobs[g] EXCEPT !.stage = "writing", !.overlapped = FALSE]
                  ELSE jobs[g]]
    BY <1>2, <1>5, <2>3
  <2>5. jobs'[h] = [jobs[h] EXCEPT !.stage = "writing", !.overlapped = FALSE]
        /\ \A g \in Handlers \ {h} : jobs'[g] = jobs[g]
    <3> HIDE DEF meets, writers, Jobs
    <3> QED BY <2>4
  <2>6. /\ jobs'[h].stage = "writing" /\ jobs'[h].overlapped = FALSE
        /\ jobs'[h].kind = jobs[h].kind /\ jobs'[h].snapshot = jobs[h].snapshot
    BY <1>0, <2>5 DEF Jobs
  <2> HIDE DEF meets, writers
  <2>7. \A s : IsNewestRow(s) => IsNewestRow(s)'
    BY <1>1 DEF IsNewestRow
  <2> QED BY <1>1, <2>2, <2>5, <2>6, <2>7 DEF SavesAlone
<1> QED BY <1>4, <1>5 DEF Undisturbed

LEMMA WriteLone ==
  ASSUME LoneInv, TypeOK', NEW h \in Handlers, FinishWrite(h)
  PROVE  Places' /\ Undisturbed'
<1>0. TypeOK /\ Places /\ Undisturbed /\ jobs \in [Handlers -> Jobs] /\ jobs[h] \in Jobs
  BY DEF LoneInv, MomentsInv, TypeOK
<1>1. PICK stage \in {"saved", "failed"} :
        /\ \/ /\ file' \in WrittenFiles(jobs[h])
              /\ IF jobs[h].kind = "import" THEN stage = "saved" /\ UNCHANGED rows
                 ELSE Insert(jobs[h].snapshot, stage)
           \/ WritesFail /\ stage = "failed" /\ UNCHANGED <<file, rows>>
        /\ jobs' = [jobs EXCEPT ![h].stage = stage]
        /\ disturbed' = (disturbed \/ stage = "failed")
  BY DEF FinishWrite
<1>2. jobs[h].stage = "writing" /\ UNCHANGED <<node, memory>>
  BY DEF FinishWrite
<1>3. /\ jobs'[h] = [jobs[h] EXCEPT !.stage = stage]
      /\ \A g \in Handlers \ {h} : jobs'[g] = jobs[g]
  <2> HIDE DEF Jobs
  <2> QED BY <1>0, <1>1
<1>4. /\ jobs'[h].stage = stage /\ jobs'[h].kind = jobs[h].kind
      /\ jobs'[h].snapshot = jobs[h].snapshot /\ jobs'[h].overlapped = jobs[h].overlapped
  BY <1>0, <1>3 DEF Jobs
<1>5. Places'
  <2>1. ~ HasDatabase => rows' = <<>>
    BY <1>0, <1>1 DEF Insert, Places
  <2>2. ~ HasFile => file' = file
    BY <1>0, <1>1, <1>2 DEF Places, WrittenFiles
  <2>3. node = "up"
    BY <1>0, <1>2 DEF Places, Quiet, Idle
  <2> QED BY <1>0, <1>2, <1>3, <1>4, <2>1, <2>2, <2>3 DEF Places
<1>6. ASSUME node' = "up", ~ disturbed' PROVE SavesAlone(h)'
  <2>1. node = "up" /\ ~ disturbed /\ ~ Quiet /\ stage = "saved"
    <3>1. node = "up" /\ ~ Quiet
      BY <1>2, <1>6 DEF Quiet, Idle
    <3>2. ~ disturbed /\ stage # "failed"
      BY <1>1, <1>6
    <3> QED BY <3>1, <3>2
  <2>2. SavesAlone(h)
    <3>1. PICK g \in Handlers : SavesAlone(g)
      BY <1>0, <2>1 DEF Undisturbed
    <3> QED BY <1>2, <3>1, OtherIsIdle
  <2>3. PICK s \in Snapshots : s = jobs[h].snapshot
    BY <1>0 DEF Jobs
  <2>4. file'.status = "complete" /\ file'.snapshot = s
    BY <1>1, <2>1, <2>2, <2>3 DEF WrittenFiles, SavesAlone
  <2>5. HasDatabase => IsNewestRow(s)'
    <3>1. CASE jobs[h].kind = "import"
      BY <1>1, <1>2, <2>1, <2>2, <2>3, <3>1 DEF SavesAlone, IsNewestRow
    <3>2. CASE jobs[h].kind # "import"
      <4>1. Insert(s, "saved")
        BY <1>1, <2>1, <2>3, <3>2
      <4> QED BY <1>0, <4>1, InsertedRow
    <3> QED BY <3>1, <3>2
  <2>6. Committed(s)'
    BY <2>4, <2>5 DEF Committed
  <2>7. CommitRestores'
    BY CommittedRestores, PTL
  <2>8. file'.status # "torn" /\ Restorable' = s.memory
    BY <1>5, <2>6, <2>7 DEF CommitRestores
  <2>9. Covers(s.memory, memory)
    BY <2>2, <2>3 DEF SavesAlone
  <2>10. OnDisk'
    BY <1>2, <2>8, <2>9 DEF OnDisk
  <2> QED BY <1>2, <1>3, <1>4, <2>1, <2>2, <2>10 DEF SavesAlone
<1> QED BY <1>5, <1>6 DEF Undisturbed

LEMMA SettleLone ==
  ASSUME LoneInv, NEW h \in Handlers, Settle(h)
  PROVE  Places' /\ Undisturbed'
<1>0. TypeOK /\ Places /\ Undisturbed /\ jobs \in [Handlers -> Jobs]
  BY DEF LoneInv, MomentsInv, TypeOK
<1>1. jobs[h].stage \in {"saved", "failed"} /\ UNCHANGED <<file, rows, disturbed>>
  BY DEF Settle
<1>2. \A g \in Handlers : jobs'[g] = jobs[g] \/ jobs'[g] = Idle
  BY <1>0 DEF Settle
<1>3. node' = node \/ (node' = "down" /\ jobs' = [g \in Handlers |-> Idle])
  BY DEF Settle
<1>4. Places'
  <2>1. node = "up"
    BY <1>0, <1>1 DEF Places, Quiet, Idle
  <2>2. node' # "up" => Quiet'
    BY <1>3, <2>1 DEF Quiet
  <2>3. \A g \in Handlers :
          jobs'[g].stage \in {"opening", "writing"} => jobs'[g] = jobs[g]
    BY <1>2 DEF Idle
  <2> QED BY <1>0, <1>1, <2>2, <2>3 DEF Places
<1>5. ASSUME node' = "up", ~ disturbed' PROVE Quiet' /\ OnDisk'
  <2>1. node = "up" /\ ~ disturbed /\ ~ Quiet
    BY <1>1, <1>3, <1>5 DEF Quiet, Idle
  <2>2. SavesAlone(h)
    <3>1. PICK g \in Handlers : SavesAlone(g)
      BY <1>0, <2>1 DEF Undisturbed
    <3> QED BY <1>1, <3>1, OtherIsIdle
  <2>3. jobs[h].stage = "saved" /\ OnDisk
    BY <1>1, <2>2 DEF SavesAlone
  <2>4. jobs' = [jobs EXCEPT ![h] = Idle] /\ memory' = memory
    BY <2>3 DEF Settle
  <2>5. Quiet'
    BY <1>0, <2>2, <2>4 DEF SavesAlone, Quiet
  <2>6. OnDisk'
    BY <1>1, <2>3, <2>4, DiskUnchanged DEF OnDisk
  <2> QED BY <2>5, <2>6
<1> QED BY <1>4, <1>5 DEF Undisturbed

\* Steps that neither write nor start or end a handler.
LEMMA StillLone ==
  ASSUME LoneInv, UNCHANGED <<node, jobs, file, rows, disturbed>>, Drops(memory, memory')
  PROVE  Places' /\ Undisturbed'
<1>1. Places'
  BY DEF LoneInv, Places, Quiet
<1>2. Quiet = Quiet' /\ (OnDisk => OnDisk')
  BY DiskUnchanged, CoversDropped DEF Quiet, OnDisk
<1>5. \A s : Covers(s, memory) => Covers(s, memory')
  BY CoversDropped
<1>3. \A s : IsNewestRow(s) => IsNewestRow(s)'
  BY DEF IsNewestRow
<1>4. ASSUME NEW h \in Handlers, SavesAlone(h) PROVE SavesAlone(h)'
  BY <1>2, <1>3, <1>4, <1>5 DEF SavesAlone
<1> QED BY <1>1, <1>2, <1>4 DEF LoneInv, Undisturbed

LEMMA StepLone == LoneInv /\ [Next]_vars => LoneInv'
<1> SUFFICES ASSUME LoneInv, [Next]_vars PROVE LoneInv'
  OBVIOUS
<1> DEFINE Rest == Places /\ Undisturbed
<1>0. TypeOK /\ MomentsNotMixed /\ MomentsInv' /\ TypeOK'
  BY MomentsInvSuffices, StepMoments DEF LoneInv, MomentsInv
<1>1. ASSUME Unsaved PROVE Rest'
  BY <1>1, StillLone DEF Unsaved
<1>2. ASSUME NEW h \in Handlers, NEW t \in Transactions,
             SubmitTransaction(h, t) \/ RequestFaucet(h, t)
      PROVE  Rest'
  BY <1>0, <1>1, <1>2, SubmitSteps, FaucetSteps, SaveLone
<1>3. ASSUME NEW h \in Handlers, ProduceBlock(h) PROVE Rest'
  BY <1>0, <1>3, ProduceSteps, SaveLone
<1>4. ASSUME NEW h \in Handlers, NEW block \in SUBSET Transactions, AcceptBlock(h, block)
      PROVE  Rest'
  BY <1>0, <1>4, AcceptSteps, SaveLone
<1>5. ASSUME NEW h \in Handlers, SaveUnchanged(h) PROVE Rest'
  BY <1>0, <1>5, UnchangedSteps, SaveLone
<1>6. ASSUME NEW h \in Handlers, NEW contents \in Foreign, ImportSnapshot(h, contents)
      PROVE  Rest'
  BY <1>0, <1>6, ImportLone
<1>7. ASSUME NEW h \in Handlers, OpenFile(h) \/ FinishWrite(h) \/ Settle(h) PROVE Rest'
  BY <1>0, <1>7, OpenLone, WriteLone, SettleLone
<1>8. ASSUME Crash PROVE Rest'
  <2>1. /\ node' = "down" /\ jobs' = [h \in Handlers |-> Idle]
        /\ UNCHANGED <<file, rows>>
    BY <1>8 DEF Crash
  <2> QED BY <2>1 DEF LoneInv, Places, Undisturbed, Quiet, Idle
<1>9. ASSUME Boot PROVE Rest'
  <2>1. node = "down" /\ UNCHANGED <<jobs, file, rows>>
    BY <1>9 DEF Boot
  <2>2. Quiet /\ Quiet'
    BY <2>1 DEF LoneInv, Places, Quiet
  <2>3. Places'
    BY <2>1, <2>2 DEF LoneInv, Places
  <2>4. node' = "up" => OnDisk'
    BY <1>9, <2>1, DiskUnchanged, CoversItself DEF Boot, OnDisk
  <2> QED BY <2>2, <2>3, <2>4 DEF Undisturbed
<1>10. ASSUME UNCHANGED vars PROVE Rest'
  BY <1>10, StillLone DEF vars, Drops
<1>11. Rest'
  <2> HIDE DEF Rest
  <2> QED BY <1>2, <1>3, <1>4, <1>5, <1>6, <1>7, <1>8, <1>9, <1>10 DEF Next
<1> QED BY <1>0, <1>11 DEF LoneInv

LEMMA InitLone == Init => LoneInv
<1> SUFFICES ASSUME Init PROVE LoneInv
  OBVIOUS
<1>1. MomentsInv
  BY InitMoments
<1>2. Quiet /\ Places
  BY DEF Init, Places, Quiet, Idle
<1>3. Restorable = Genesis
  BY DEF Init, Restorable, FileSnapshot, LatestRow
<1>4. OnDisk
  BY <1>3, CoversItself DEF Init, OnDisk
<1> QED BY <1>1, <1>2, <1>4 DEF LoneInv, Undisturbed

(***************************************************************************)
(* In every configuration: once a save that overlapped no other and did    *)
(* not fail has ended, a restart restores the chain and the mempool, with  *)
(* what was dropped since, whatever failed, overlapped or crashed before.  *)
(***************************************************************************)
THEOREM CommitLoneSavesSuffice == Spec => []LoneSavesSuffice
<1>1. LoneInv => LoneSavesSuffice
  <2> SUFFICES ASSUME LoneInv, node = "up", Quiet, ~ disturbed PROVE OnDisk
    BY DEF LoneSavesSuffice, SavedIsMemory, OnDisk
  <2>1. CASE \E h \in Handlers : SavesAlone(h)
    BY <2>1 DEF SavesAlone, Quiet, Idle
  <2> QED BY <2>1 DEF LoneInv, Undisturbed
<1> QED BY <1>1, InitLone, StepLone, PTL DEF Spec

-----------------------------------------------------------------------------
(***************************************************************************)
(* A node that saves to a database only, whose writes do not fail: at      *)
(* every await the newest row covers what memory holds, and the node       *)
(* implements one that never crashes.                                      *)
(***************************************************************************)

DatabaseOnly == HasDatabase /\ ~ HasFile /\ ~ WritesFail /\ ~ OperatorSaves

Newest == IF rows = <<>> THEN Genesis ELSE rows[Len(rows)].memory

DatabaseInv ==
  /\ MomentsInv
  /\ node # "failed"
  /\ file.status = "missing"
  /\ \A h \in Handlers : jobs[h].stage \in {"idle", "saved"}
  /\ node = "up" => Covers(Newest, memory)

LEMMA RestorableIsNewest ==
  ASSUME TypeOK, file.status = "missing"
  PROVE  Restorable = Newest
<1>1. FileSnapshot = {}
  BY DEF FileSnapshot
<1>2. CASE rows = <<>>
  BY <1>1, <1>2 DEF Restorable, LatestRow, Newest
<1>3. CASE rows # <<>>
  <2> DEFINE s == rows[Len(rows)]
  <2>1. s.at \in Nat
    <3>1. s \in Snapshots
      BY <1>3 DEF TypeOK
    <3> QED BY <3>1 DEF Snapshots
  <2>2. FileSnapshot \cup LatestRow = {s}
    BY <1>1, <1>3 DEF LatestRow
  <2>3. Fresher(s, s)
    BY <2>1 DEF Fresher
  <2>4. Restorable = s.memory
    <3> HIDE DEF s
    <3> QED BY <2>2, <2>3 DEF Restorable
  <2> QED BY <1>3, <2>4 DEF Newest
<1> QED BY <1>2, <1>3

LEMMA InitDatabase == Init => DatabaseInv
<1> SUFFICES ASSUME Init PROVE DatabaseInv
  OBVIOUS
<1>1. MomentsInv
  BY InitMoments
<1> QED BY <1>1, CoversItself DEF Init, Idle, DatabaseInv, Newest

(***************************************************************************)
(* The steps of such a node, as far as memory, rows and jobs go.           *)
(***************************************************************************)
Saved(after) ==
  /\ node = "up" /\ node' = "up"
  /\ memory' = after
  /\ file' = file
  /\ \E s \in Snapshots : s.memory = after /\ rows' = Stored(s)
  /\ \A h \in Handlers : jobs'[h].stage \in {"idle", "saved"}

\* What was known stays known, and what is answered is known.
Accounts(after) ==
  /\ Known(memory) \subseteq Known(after)
  /\ answered' \subseteq answered \cup Known(after)

SavedByHandler ==
  \E after \in Contents :
    /\ Saved(after)
    /\ Admits(after) \/ Extends(after) \/ Keeps(after)
    /\ Accounts(after)

SavedByImport == answered' = {} /\ \E contents \in Foreign : Saved(contents)

\* The end of a handler.
LeavesDisk ==
  /\ UNCHANGED <<node, memory, file, rows, answered>>
  /\ \A g \in Handlers : jobs'[g].stage \in {"idle", "saved"}

LEMMA SaveIsSaved ==
  ASSUME DatabaseOnly, DatabaseInv, NEW h \in Handlers, SaveStep(h)
  PROVE  SavedByHandler
<1>1. PICK kind \in SaveKinds, after \in Contents, answer \in SUBSET Transactions :
        /\ Save(h, kind, after, answer)
        /\ kind = "save" => OperatorSaves
        /\ Admits(after) \/ Extends(after) \/ Keeps(after)
        /\ Remembers(after, answer)
  BY DEF SaveStep
<1> DEFINE snapshot == [memory |-> after, at |-> exports + 1]
<1>2. ~ WritesFile(kind)
  BY <1>1 DEF DatabaseOnly, WritesFile
<1>3. PICK stage \in {"opening", "saved", "failed"} :
        /\ jobs' = [jobs EXCEPT ![h] = Job(kind, stage, after, answer)]
        /\ Insert(snapshot, stage)
        /\ answered' = AnsweredBy(answer, stage)
  BY <1>1, <1>2 DEF Save
<1>4. snapshot \in Snapshots /\ snapshot.memory = after
  BY JobTypes DEF DatabaseInv, MomentsInv
<1>5. stage = "saved" /\ rows' = Stored(snapshot)
  BY <1>3 DEF Insert, DatabaseOnly
<1> HIDE DEF snapshot
<1>6. \A g \in Handlers : jobs'[g].stage \in {"idle", "saved"}
  <2>1. Job(kind, stage, after, answer).stage = "saved"
    BY <1>5 DEF Job
  <2>2. \A g \in Handlers : jobs'[g] = jobs[g] \/ jobs'[g] = Job(kind, stage, after, answer)
    BY <1>3 DEF DatabaseInv, MomentsInv, TypeOK
  <2> QED BY <2>1, <2>2 DEF DatabaseInv
<1>7. node = "up" /\ node' = "up" /\ memory' = after /\ file' = file
  BY <1>1 DEF Save
<1>8. Accounts(after)
  BY <1>1, <1>3 DEF Accounts, Remembers, AnsweredBy
<1> QED BY <1>1, <1>4, <1>5, <1>6, <1>7, <1>8 DEF Saved, SavedByHandler

LEMMA ImportIsSaved ==
  ASSUME DatabaseOnly, DatabaseInv, NEW h \in Handlers,
         NEW contents \in Foreign, ImportSnapshot(h, contents)
  PROVE  SavedByImport
<1> DEFINE snapshot == [memory |-> contents, at |-> exports + 1]
<1>1. contents \in Contents
  BY CommitAssumption
<1>2. snapshot \in Snapshots /\ snapshot.memory = contents
  BY <1>1, JobTypes DEF DatabaseInv, MomentsInv
<1>3. rows' = Stored(snapshot) /\ jobs' = jobs
  BY DEF ImportSnapshot, Insert, DatabaseOnly
<1>4. node = "up" /\ node' = "up" /\ memory' = contents /\ file' = file /\ answered' = {}
  BY DEF ImportSnapshot
<1> QED BY <1>2, <1>3, <1>4 DEF Saved, DatabaseInv, SavedByImport

LEMMA SavedIsNewest ==
  ASSUME DatabaseInv, NEW after, Saved(after)
  PROVE  /\ Newest' = after /\ memory' = after
         /\ file'.status = "missing"
<1>1. PICK s \in Snapshots : s.memory = after /\ rows' = Stored(s)
  BY DEF Saved
<1>2. Stored(s) # <<>> /\ Stored(s)[Len(Stored(s))] = s
  <2>1. Len(Stored(s)) \in 1 .. RowsKept /\ Stored(s)[Len(Stored(s))] = s
    BY StoredRows DEF DatabaseInv, MomentsInv, TypeOK
  <2>2. Len(<<>>) = 0
    OBVIOUS
  <2> QED BY <2>1, <2>2
<1>3. Newest' = s.memory
  BY <1>1, <1>2 DEF Newest
<1> QED BY <1>1, <1>3 DEF Saved, DatabaseInv

\* What a step may be: a save, or one that leaves disk alone.
LEMMA DatabaseSteps ==
  ASSUME DatabaseOnly, DatabaseInv, [Next]_vars
  PROVE  SavedByHandler \/ SavedByImport \/ Unsaved \/ Crash \/ Boot \/ LeavesDisk
<1> DEFINE Goal == SavedByHandler \/ SavedByImport \/ Unsaved \/ Crash \/ Boot \/ LeavesDisk
<1>0. TypeOK /\ MomentsNotMixed
  BY MomentsInvSuffices DEF DatabaseInv, MomentsInv
<1>1. ASSUME NEW h \in Handlers, NEW t \in Transactions,
             SubmitTransaction(h, t) \/ RequestFaucet(h, t)
      PROVE  Goal
  BY <1>0, <1>1, SubmitSteps, FaucetSteps, SaveIsSaved
<1>2. ASSUME NEW h \in Handlers, ProduceBlock(h) PROVE Goal
  BY <1>0, <1>2, ProduceSteps, SaveIsSaved
<1>3. ASSUME NEW h \in Handlers, NEW block \in SUBSET Transactions, AcceptBlock(h, block)
      PROVE  Goal
  BY <1>0, <1>3, AcceptSteps, SaveIsSaved
<1>4. ASSUME NEW h \in Handlers, SaveUnchanged(h) PROVE Goal
  BY <1>0, <1>4, UnchangedSteps, SaveIsSaved
<1>5. ASSUME NEW h \in Handlers, NEW contents \in Foreign, ImportSnapshot(h, contents)
      PROVE  Goal
  BY <1>5, ImportIsSaved
<1>6. ASSUME NEW h \in Handlers, OpenFile(h) \/ FinishWrite(h) PROVE Goal
  <2>1. jobs[h].stage \in {"idle", "saved"}
    BY DEF DatabaseInv
  <2>2. jobs[h].stage \in {"opening", "writing"}
    BY <1>6 DEF OpenFile, FinishWrite
  <2> QED BY <2>1, <2>2
<1>7. ASSUME NEW h \in Handlers, Settle(h) PROVE Goal
  <2>1. jobs[h].stage = "saved"
    BY <1>7 DEF Settle, DatabaseInv
  <2>2. UNCHANGED <<node, memory, file, rows, answered>> /\ jobs' = [jobs EXCEPT ![h] = Idle]
    BY <1>7, <2>1 DEF Settle
  <2>3. \A g \in Handlers : jobs'[g] = jobs[g] \/ jobs'[g] = Idle
    BY <2>2 DEF DatabaseInv, MomentsInv, TypeOK
  <2>4. Idle.stage = "idle"
    BY DEF Idle
  <2> QED BY <2>2, <2>3, <2>4 DEF DatabaseInv, LeavesDisk
<1>8. ASSUME UNCHANGED vars PROVE Goal
  BY <1>8 DEF vars, DatabaseInv, LeavesDisk
<1>9. ASSUME Crash \/ Boot PROVE Goal
  BY <1>9
<1> HIDE DEF Goal
<1>10. Goal
  BY <1>1, <1>2, <1>3, <1>4, <1>5, <1>6, <1>7, <1>8, <1>9 DEF Next
<1> QED BY <1>10 DEF Goal

LEMMA StepDatabase ==
  ASSUME DatabaseOnly
  PROVE  DatabaseInv /\ [Next]_vars => DatabaseInv'
<1> SUFFICES ASSUME DatabaseInv, [Next]_vars PROVE DatabaseInv'
  OBVIOUS
<1>1. MomentsInv'
  BY StepMoments DEF DatabaseInv
<1>2. ASSUME NEW after, Saved(after) PROVE DatabaseInv'
  BY <1>1, <1>2, SavedIsNewest, CoversItself DEF Saved, DatabaseInv
<1>3. ASSUME Unsaved PROVE DatabaseInv'
  <2>1. Newest' = Newest /\ Covers(Newest, memory')
    BY <1>3, CoversDropped DEF Unsaved, DatabaseInv, Newest
  <2> QED BY <1>1, <1>3, <2>1 DEF Unsaved, DatabaseInv
<1>4. ASSUME Crash PROVE DatabaseInv'
  BY <1>1, <1>4 DEF Crash, DatabaseInv, Newest, Idle
<1>5. ASSUME Boot PROVE DatabaseInv'
  <2>1. node' = "up" /\ memory' = Newest /\ UNCHANGED <<jobs, file, rows>>
    BY <1>5, RestorableIsNewest DEF Boot, DatabaseInv, MomentsInv
  <2> QED BY <1>1, <2>1, CoversItself DEF DatabaseInv, Newest
<1>6. ASSUME LeavesDisk PROVE DatabaseInv'
  BY <1>1, <1>6 DEF LeavesDisk, DatabaseInv, Newest
<1>7. ASSUME SavedByHandler \/ SavedByImport PROVE DatabaseInv'
  BY <1>2, <1>7 DEF SavedByHandler, SavedByImport
<1> QED BY <1>3, <1>4, <1>5, <1>6, <1>7, DatabaseSteps

(***************************************************************************)
(* With a database only, no handler waits with a change of the chain or    *)
(* the mempool that is not in the newest row, but that pending             *)
(* transactions were dropped, and recorded.                                *)
(***************************************************************************)
LEMMA DatabaseInvSuffices == DatabaseInv => SavedIsMemory
BY RestorableIsNewest DEF DatabaseInv, MomentsInv, SavedIsMemory

THEOREM DatabaseKeepsMemory ==
  ASSUME DatabaseOnly
  PROVE  Spec => []SavedIsMemory
<1>1. Init => DatabaseInv
  BY InitDatabase
<1>2. DatabaseInv /\ [Next]_vars => DatabaseInv'
  BY StepDatabase
<1>3. DatabaseInv => SavedIsMemory
  BY DatabaseInvSuffices
<1> QED BY <1>1, <1>2, <1>3, PTL DEF Spec

-----------------------------------------------------------------------------
(***************************************************************************)
(* What is answered is known in the newest row, and to a running node.     *)
(***************************************************************************)
AnsweredInv ==
  /\ DatabaseInv
  /\ answered \subseteq Known(Newest)
  /\ node = "up" => answered \subseteq Known(memory)

LEMMA StepAnswered ==
  ASSUME DatabaseOnly
  PROVE  AnsweredInv /\ [Next]_vars => AnsweredInv'
<1> SUFFICES ASSUME AnsweredInv, [Next]_vars PROVE AnsweredInv'
  OBVIOUS
<1>1. DatabaseInv /\ DatabaseInv'
  BY StepDatabase DEF AnsweredInv
<1>2. ASSUME SavedByHandler PROVE AnsweredInv'
  <2>1. PICK after \in Contents : Saved(after) /\ Accounts(after)
    BY <1>2 DEF SavedByHandler
  <2>2. Newest' = after /\ memory' = after
    BY <1>1, <2>1, SavedIsNewest
  <2>3. answered \subseteq Known(memory)
    BY <2>1 DEF Saved, AnsweredInv
  <2>4. answered' \subseteq Known(after)
    BY <2>1, <2>3 DEF Accounts
  <2>5. Known(Newest)' = Known(after) /\ Known(memory)' = Known(after)
    BY <2>2 DEF Known, Confirmed, Recorded
  <2> QED BY <1>1, <2>4, <2>5 DEF AnsweredInv
<1>3. ASSUME SavedByImport PROVE AnsweredInv'
  BY <1>1, <1>3 DEF SavedByImport, AnsweredInv
<1>4. ASSUME Unsaved PROVE AnsweredInv'
  <2>1. Known(memory) \subseteq Known(memory')
    <3>1. Confirmed(memory'.chain) = Confirmed(memory.chain)
      BY <1>4 DEF Unsaved, Drops
    <3>2. Recorded(memory) \subseteq Recorded(memory')
      BY <1>4 DEF Unsaved, Drops
    <3>3. memory.mempool \subseteq memory'.mempool \cup Recorded(memory')
      BY <1>4 DEF Unsaved, Drops
    <3> QED BY <3>1, <3>2, <3>3 DEF Known
  <2>2. UNCHANGED <<node, answered, rows>>
    BY <1>4 DEF Unsaved
  <2>3. Newest' = Newest
    BY <2>2 DEF Newest
  <2>4. Known(Newest)' = Known(Newest) /\ Known(memory)' = Known(memory')
    BY <2>3 DEF Known, Confirmed, Recorded
  <2> QED BY <1>1, <2>1, <2>2, <2>4 DEF AnsweredInv
<1>5. ASSUME Crash PROVE AnsweredInv'
  <2>1. UNCHANGED <<answered, rows>> /\ node' = "down"
    BY <1>5 DEF Crash
  <2> QED BY <1>1, <2>1 DEF AnsweredInv, Newest, Known, Confirmed, Recorded
<1>6. ASSUME Boot PROVE AnsweredInv'
  <2>1. memory' = Newest /\ UNCHANGED <<answered, rows>>
    BY <1>1, <1>6, RestorableIsNewest DEF Boot, DatabaseInv, MomentsInv
  <2>2. Known(Newest)' = Known(Newest) /\ Known(memory)' = Known(Newest)
    BY <2>1 DEF Newest, Known, Confirmed, Recorded
  <2> QED BY <1>1, <2>1, <2>2 DEF AnsweredInv
<1>7. ASSUME LeavesDisk PROVE AnsweredInv'
  <2>1. UNCHANGED <<node, memory, answered, rows>>
    BY <1>7 DEF LeavesDisk
  <2> QED BY <1>1, <2>1 DEF AnsweredInv, Newest, Known, Confirmed, Recorded
<1> QED BY <1>1, <1>2, <1>3, <1>4, <1>5, <1>6, <1>7, DatabaseSteps

(***************************************************************************)
(* With a database only, a transaction whose submission was answered stays *)
(* accounted for, through overlapping saves, crashes and restarts:         *)
(* confirmed, pending, or recorded as rejected until later rejections push *)
(* it out of the list.                                                     *)
(***************************************************************************)
THEOREM DatabaseAccountsForAnswers ==
  ASSUME DatabaseOnly
  PROVE  Spec => []AnsweredAccounted
<1>1. Init => AnsweredInv
  <2>1. Init => DatabaseInv
    BY InitDatabase
  <2> QED BY <2>1 DEF Init, AnsweredInv
<1>2. AnsweredInv /\ [Next]_vars => AnsweredInv'
  BY StepAnswered
<1>3. AnsweredInv => AnsweredAccounted
  BY DEF AnsweredInv, Known, AnsweredAccounted
<1> QED BY <1>1, <1>2, <1>3, PTL DEF Spec

-----------------------------------------------------------------------------
(***************************************************************************)
(* Refinement: each step is one of the abstract node, or a stutter.        *)
(***************************************************************************)
DurableParts ==
  /\ node = "up" => /\ Durable.chain = memory.chain /\ Durable.mempool = memory.mempool
                    /\ DroppedSince = Newest.mempool \ memory.mempool
                    /\ Covers(Newest, memory)
  /\ node # "up" => /\ Durable.chain = Newest.chain /\ Durable.mempool = Newest.mempool
                    /\ DroppedSince = {}

LEMMA DurableIsNewest == DatabaseInv => DurableParts
BY RestorableIsNewest DEF DatabaseInv, MomentsInv, Durable, DroppedSince, DurableParts

LEMMA StepDurable ==
  ASSUME DatabaseOnly, DatabaseInv, DatabaseInv', [Next]_vars
  PROVE  [Promise!Next]_(Promise!vars)
<1>0. DurableParts /\ DurableParts'
  BY DurableIsNewest, PTL
<1>1. ASSUME NEW after, Saved(after)
      PROVE  /\ Durable.chain = memory.chain /\ Durable.mempool = memory.mempool
             /\ Durable'.chain = after.chain /\ Durable'.mempool = after.mempool
             /\ DroppedSince' = {}
  <2>1. Newest' = after /\ memory' = after
    BY <1>1, SavedIsNewest
  <2> QED BY <1>0, <1>1, <2>1 DEF Saved, DurableParts
<1>2. ASSUME NEW after \in Contents, Saved(after), Admits(after) PROVE Promise!Admit
  <2>1. Promise!Confirmed = Confirmed(memory.chain)
    BY <1>1, <1>2 DEF Promise!Confirmed, Confirmed
  <2> QED BY <1>1, <1>2, <2>1 DEF Admits, Promise!Admit
<1>3. ASSUME NEW after \in Contents, Saved(after), Extends(after) PROVE Promise!Extend
  <2>1. Promise!Confirmed = Confirmed(memory.chain)
    BY <1>1, <1>3 DEF Promise!Confirmed, Confirmed
  <2> QED BY <1>1, <1>3, <2>1 DEF Extends, Promise!Extend
<1>4. ASSUME NEW after \in Contents, Saved(after), Keeps(after) PROVE Promise!Keep
  BY <1>1, <1>4 DEF Keeps, Promise!Keep
<1>5. ASSUME NEW contents \in Foreign, Saved(contents) PROVE Promise!Adopt
  BY <1>1, <1>5 DEF Promise!Adopt
<1>6. ASSUME Unsaved PROVE Promise!Drop
  <2>1. /\ node = "up" /\ node' = "up" /\ Newest' = Newest
        /\ memory'.chain = memory.chain /\ memory'.mempool \subseteq memory.mempool
    BY <1>6 DEF Unsaved, Drops, Newest
  <2>2. memory.mempool \subseteq Newest.mempool
    BY <1>0, <2>1 DEF DurableParts, Covers
  <2>3. /\ Durable.chain = memory.chain /\ Durable.mempool = memory.mempool
        /\ DroppedSince = Newest.mempool \ memory.mempool
        /\ Durable'.chain = memory'.chain /\ Durable'.mempool = memory'.mempool
        /\ DroppedSince' = Newest.mempool \ memory'.mempool
    BY <1>0, <2>1 DEF DurableParts
  <2>4. Newest.mempool \ memory'.mempool
          = (Newest.mempool \ memory.mempool) \cup (memory.mempool \ memory'.mempool)
    BY <2>1, <2>2
  <2> QED BY <2>1, <2>3, <2>4 DEF Promise!Drop
<1>7. ASSUME Crash PROVE Promise!TakeBack
  <2>1. node = "up" /\ node' = "down" /\ Newest' = Newest
    BY <1>7 DEF Crash, Newest
  <2>2. memory.mempool \subseteq Newest.mempool /\ memory.chain = Newest.chain
    BY <1>0, <2>1 DEF DurableParts, Covers
  <2>3. Newest.mempool = memory.mempool \cup (Newest.mempool \ memory.mempool)
    BY <2>2
  <2> QED BY <1>0, <2>1, <2>2, <2>3 DEF DurableParts, Promise!TakeBack
<1>10. ASSUME Boot PROVE UNCHANGED Promise!vars
  <2>1. node = "down" /\ node' = "up" /\ memory' = Newest /\ Newest' = Newest
    BY <1>10, RestorableIsNewest DEF Boot, DatabaseInv, MomentsInv, Newest
  <2> QED BY <1>0, <2>1 DEF DurableParts, Promise!vars
<1>11. ASSUME LeavesDisk PROVE UNCHANGED Promise!vars
  <2>1. node' = node /\ memory' = memory /\ Newest' = Newest
    BY <1>11 DEF LeavesDisk, Newest
  <2> QED BY <1>0, <2>1 DEF DurableParts, Promise!vars
<1>8. ASSUME SavedByHandler PROVE Promise!Next
  BY <1>2, <1>3, <1>4, <1>8 DEF SavedByHandler, Promise!Next
<1>9. ASSUME SavedByImport PROVE Promise!Next
  BY <1>5, <1>9 DEF SavedByImport, Promise!Next
<1>12. ASSUME Unsaved \/ Crash PROVE Promise!Next
  BY <1>6, <1>7, <1>12 DEF Promise!Next
<1> QED BY <1>8, <1>9, <1>10, <1>11, <1>12, DatabaseSteps

(***************************************************************************)
(* With a database only, crashes and restarts do not show: the node        *)
(* implements one that never crashes, but may take back pending            *)
(* transactions that it dropped since it last saved.                       *)
(***************************************************************************)
THEOREM DatabaseIsDurable ==
  ASSUME DatabaseOnly
  PROVE  Spec => ImplementsDurableNode
<1>1. Init => DatabaseInv
  BY InitDatabase
<1>2. DatabaseInv /\ [Next]_vars => DatabaseInv'
  BY StepDatabase
<1>3. Init => Promise!Init
  <2> SUFFICES ASSUME Init PROVE Promise!Init
    OBVIOUS
  <2>1. Restorable = Genesis
    BY DEF Init, Restorable, FileSnapshot, LatestRow
  <2> QED BY <2>1 DEF Init, Durable, DroppedSince, Genesis, Promise!Init
<1>4. DatabaseInv /\ DatabaseInv' /\ [Next]_vars => [Promise!Next]_(Promise!vars)
  BY StepDurable
<1> QED BY <1>1, <1>2, <1>3, <1>4, PTL DEF Spec, ImplementsDurableNode, Promise!Spec

=============================================================================
