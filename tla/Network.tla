------------------------------ MODULE Network ------------------------------
(***************************************************************************)
(* Several nodes that extend one chain: whoever runs the validator that    *)
(* proof of stake selects produces a block on its own tip, saves it and    *)
(* relays it; the others accept what extends their tip, save it and relay  *)
(* it further, and sync timers fetch what relays did not bring.            *)
(*                                                                         *)
(* A block's proposer is the validator selected on its parent, which is a  *)
(* function of the state that the parent leaves: here the parent's field   *)
(* "next", the node that runs this validator.  A forced node, which runs   *)
(* no validator, produces in that validator's name.  Saves of one node end *)
(* in any order; a process that ends during one may leave a file with      *)
(* which no other starts (NodeCommit has the steps of a save).  PeerHealth *)
(* tells which peers a relay may leave out: here any of them.              *)
(***************************************************************************)
EXTENDS Integers, Sequences, FiniteSets

CONSTANTS
  Nodes,
  Links,       \* node -> the nodes of its peer directory
  Forced,      \* nodes that produce whoever is selected
  Syncing,     \* nodes with a sync timer
  TTL,         \* DEFAULT_GOSSIP_TTL
  MaxHeight,   \* bound: the last block
  MaxFaults,   \* bound: crashes and failed saves
  NoNode

ASSUME NetworkAssumption ==
  /\ NoNode \notin Nodes
  /\ Links \in [Nodes -> SUBSET Nodes]
  /\ Forced \subseteq Nodes
  /\ Syncing \subseteq Nodes
  /\ TTL \in Nat
  /\ {MaxHeight, MaxFaults} \subseteq Nat

VARIABLES
  chain,    \* node -> its blocks, genesis first
  disk,     \* node -> the chain of the snapshot that a restart finds
  saves,    \* node -> the saves under way, in the order they began
  torn,     \* nodes whose file may not parse, though no save is under way
  down,     \* nodes that did not start again
  relays,   \* blocks on their way to a node
  syncs,    \* node -> the sync under way
  minted,   \* blocks ever produced
  faults,   \* crashes and failed saves so far
  forgotten \* history: a maker's memory lost a block of its own that still
            \*   existed, in a chain, a snapshot or a save, or on its way

vars == <<chain, disk, saves, torn, down, relays, syncs, minted, faults, forgotten>>

\* The hash of a block stands for all of it: here a number of its own.
Blocks == [hash : Nat, height : Nat, previousHash : Nat, next : Nodes, maker : Nodes]

Last(s) == s[Len(s)]
Front(s) == SubSeq(s, 1, Len(s) - 1)
Height(s) == Last(s).height
Elements(s) == {s[i] : i \in DOMAIN s}
Without(s, i) == [j \in 1 .. Len(s) - 1 |-> IF j < i THEN s[j] ELSE s[j + 1]]

Saves == [snapshot : Seq(Blocks), kind : {"produced", "relayed", "synced"}, ttl : Nat,
          source : Nodes \cup {NoNode}]
Relays == [block : Blocks, ttl : Nat, from : Nodes, to : Nodes]
Syncs == [left : SUBSET Nodes, peer : Nodes \cup {NoNode}, at : Nat, upto : Nat]
NoSync == [left |-> {}, peer |-> NoNode, at |-> 0, upto |-> 0]

Genesis(first) == [hash |-> 0, height |-> 0, previousHash |-> 0, next |-> first, maker |-> first]

Init ==
  /\ \E first \in Nodes : chain = [n \in Nodes |-> <<Genesis(first)>>]
  /\ disk = chain
  /\ saves = [n \in Nodes |-> <<>>]
  /\ torn = {}
  /\ down = {}
  /\ relays = {}
  /\ syncs = [n \in Nodes |-> NoSync]
  /\ minted = 0
  /\ faults = 0
  /\ forgotten = FALSE

-----------------------------------------------------------------------------
(* Blocks: in memory first, then on disk, then relayed. *)

\* What acceptBlock requires of a block; the proposer it names is the one
\* selected on its parent.
Extends(block, blocks) ==
  /\ block.height = Len(blocks)
  /\ block.previousHash = Last(blocks).hash

\* A block is appended, and a save of the chain as it is now begins: it
\* rewrites the whole file, unless it meets another one.
Commit(n, block, kind, ttl, source) ==
  /\ chain' = [chain EXCEPT ![n] = Append(@, block)]
  /\ saves' = [saves EXCEPT ![n] =
                 Append(@, [snapshot |-> Append(chain[n], block), kind |-> kind,
                            ttl |-> ttl, source |-> source])]
  /\ torn' = IF saves[n] = <<>> THEN torn \ {n} ELSE torn \cup {n}

\* Mutants of MayPropose: any node, without a look at who is selected.
MayProposeAny(n) == TRUE

MayPropose(n) == n \in Forced \/ Last(chain[n]).next = n

ProduceBlock(n) ==
  /\ n \notin down
  /\ MayPropose(n)
  /\ Len(chain[n]) <= MaxHeight
  /\ \E next \in Nodes :
       Commit(n, [hash |-> minted + 1, height |-> Len(chain[n]), previousHash |-> Last(chain[n]).hash,
                  next |-> next, maker |-> n], "produced", TTL, NoNode)
  /\ minted' = minted + 1
  /\ UNCHANGED <<disk, down, relays, syncs, faults, forgotten>>

\* Mutants of Broadcast: a block is relayed whatever its ttl is.
BroadcastForEver(n, save) ==
  \E targets \in SUBSET (Links[n] \ {save.source}) :
    relays' = relays \cup
      {[block |-> Last(save.snapshot), ttl |-> save.ttl, from |-> n, to |-> target] : target \in targets}

\* broadcastBlock: to any peers but the one that the block came from.
Broadcast(n, save) ==
  IF save.ttl = 0 THEN UNCHANGED relays
  ELSE \E targets \in SUBSET (Links[n] \ {save.source}) :
         relays' = relays \cup
           {[block |-> Last(save.snapshot), ttl |-> save.ttl, from |-> n, to |-> target] : target \in targets}

\* A save is done: what was produced or relayed is relayed now.  After one
\* that met others a restart may find the snapshot of another one, if fresher.
SaveEnds(n) ==
  /\ n \notin down
  /\ \E i \in DOMAIN saves[n] :
       LET save == saves[n][i]
       IN  /\ \/ disk' = [disk EXCEPT ![n] = save.snapshot]
              \/ n \in torn /\ Len(disk[n]) > Len(save.snapshot) /\ UNCHANGED disk
           /\ saves' = [saves EXCEPT ![n] = Without(@, i)]
           /\ Broadcast(n, save)
  /\ UNCHANGED <<chain, torn, down, syncs, minted, faults, forgotten>>

\* One peer of a sync is done with.
NextPeer(n) == syncs' = [syncs EXCEPT ![n] = [NoSync EXCEPT !.left = syncs[n].left]]

\* The chains of a node: in memory, on disk and in saves.
Chains(n) == {chain[n], disk[n]} \cup {saves[n][i].snapshot : i \in DOMAIN saves[n]}
Exists(block) ==
  \/ \E n \in Nodes : \E blocks \in Chains(n) : block \in Elements(blocks)
  \/ \E relay \in relays : relay.block = block

\* The blocks of its own that a node loses when its chain becomes another.
OwnLost(n, blocks) == {block \in Elements(chain[n]) \ Elements(blocks) : block.maker = n}

\* The file or the row could not be written.  acceptBlock puts back the chain
\* it found, whatever came since; produceBlock does not.
SaveFails(n) ==
  /\ faults < MaxFaults
  /\ n \notin down
  /\ \E i \in DOMAIN saves[n] :
       LET save == saves[n][i]
       IN  /\ IF save.kind = "produced" THEN UNCHANGED chain
              ELSE chain' = [chain EXCEPT ![n] = Front(save.snapshot)]
           /\ IF save.kind = "synced" THEN NextPeer(n) ELSE UNCHANGED syncs
           /\ disk' \in {disk, [disk EXCEPT ![n] = save.snapshot]}
           /\ saves' = [saves EXCEPT ![n] = Without(@, i)]
  /\ torn' = torn \cup {n}
  /\ faults' = faults + 1
  /\ UNCHANGED <<down, relays, minted>>
  /\ forgotten' = (forgotten \/ \E block \in OwnLost(n, chain'[n]) : Exists(block)')

\* POST /sync/blocks; a block that does not extend the tip is refused.
ReceiveBlock(relay) ==
  /\ relay.to \notin down
  /\ relays' = relays \ {relay}
  /\ IF Extends(relay.block, chain[relay.to])
     THEN Commit(relay.to, relay.block, "relayed", relay.ttl - 1, relay.from)
     ELSE UNCHANGED <<chain, saves, torn>>
  /\ UNCHANGED <<disk, down, syncs, minted, faults, forgotten>>

LoseRelay(relay) ==
  /\ relays' = relays \ {relay}
  /\ UNCHANGED <<chain, disk, saves, torn, down, syncs, minted, faults, forgotten>>

-----------------------------------------------------------------------------
(* syncNodeWithPeers: one peer after the other. *)

StartSync(n) ==
  /\ n \in Syncing \ down
  /\ syncs[n] = NoSync
  /\ Links[n] # {}
  /\ syncs' = [syncs EXCEPT ![n].left = Links[n]]
  /\ UNCHANGED <<chain, disk, saves, torn, down, relays, minted, faults, forgotten>>

\* /health of the next peer tells its height.
SyncHealth(n) ==
  /\ n \notin down
  /\ syncs[n].peer = NoNode
  /\ \E peer \in syncs[n].left \ down :
       syncs' = [syncs EXCEPT ![n] =
                   [left |-> @.left \ {peer}, peer |-> peer, at |-> 0, upto |-> Height(chain[peer])]]
  /\ UNCHANGED <<chain, disk, saves, torn, down, relays, minted, faults, forgotten>>

\* /peers answered: now the node looks at its own height.
SyncCompares(n) ==
  /\ n \notin down
  /\ syncs[n].peer \in Nodes \ down
  /\ syncs[n].at = 0
  /\ IF syncs[n].upto > Height(chain[n])
     THEN syncs' = [syncs EXCEPT ![n].at = Height(chain[n]) + 1]
     ELSE NextPeer(n)
  /\ UNCHANGED <<chain, disk, saves, torn, down, relays, minted, faults, forgotten>>

SyncWaitsForSave(n) == \E i \in DOMAIN saves[n] : saves[n][i].kind = "synced"

\* Mutants of Fetched: the peer's block before the one asked for.
FetchedBefore(n) ==
  LET from == chain[syncs[n].peer]
  IN IF syncs[n].at < Len(from) THEN {from[syncs[n].at]} ELSE {}

\* The block that the peer has at the next height, if it still has one.
Fetched(n) ==
  LET from == chain[syncs[n].peer]
  IN IF syncs[n].at < Len(from) THEN {from[syncs[n].at + 1]} ELSE {}

\* /blocks/:height answered: with a block that extends the chain by now, or
\* with none or one that acceptBlock refuses, which ends it with this peer.
SyncFetch(n) ==
  /\ n \notin down
  /\ syncs[n].peer \in Nodes \ down
  /\ syncs[n].at \in 1 .. syncs[n].upto
  /\ ~SyncWaitsForSave(n)
  /\ \/ \E block \in Fetched(n) :
          /\ Extends(block, chain[n])
          /\ Commit(n, block, "synced", 0, NoNode)
          /\ syncs' = [syncs EXCEPT ![n].at = @ + 1]
     \/ /\ \A block \in Fetched(n) : ~Extends(block, chain[n])
        /\ NextPeer(n)
        /\ UNCHANGED <<chain, saves, torn>>
  /\ UNCHANGED <<disk, down, relays, minted, faults, forgotten>>

SyncEnds(n) ==
  /\ n \notin down
  /\ syncs[n].peer # NoNode
  /\ syncs[n].at > syncs[n].upto
  /\ ~SyncWaitsForSave(n)
  /\ NextPeer(n)
  /\ UNCHANGED <<chain, disk, saves, torn, down, relays, minted, faults, forgotten>>

\* A request fails for good: the sync goes on with the next peer.
SyncFails(n) ==
  /\ n \notin down
  /\ syncs[n] # NoSync
  /\ ~SyncWaitsForSave(n)
  /\ IF syncs[n].peer # NoNode THEN NextPeer(n)
     ELSE \E peer \in syncs[n].left :
            syncs' = [syncs EXCEPT ![n] = [NoSync EXCEPT !.left = syncs[n].left \ {peer}]]
  /\ UNCHANGED <<chain, disk, saves, torn, down, relays, minted, faults, forgotten>>

\* The process ends, and starts again from what it saved; or the file was
\* being rewritten, or is torn, and createFromDisk throws: then it stays down.
Crash(n) ==
  /\ faults < MaxFaults
  /\ n \notin down
  /\ faults' = faults + 1
  /\ UNCHANGED <<disk, relays, minted>>
  /\ \/ /\ chain' = [chain EXCEPT ![n] = disk[n]]
        /\ saves' = [saves EXCEPT ![n] = <<>>]
        /\ syncs' = [syncs EXCEPT ![n] = NoSync]
        /\ torn' = torn \ {n}
        /\ forgotten' = (forgotten \/ \E block \in OwnLost(n, disk[n]) : Exists(block)')
        /\ UNCHANGED down
     \/ /\ saves[n] # <<>> \/ n \in torn
        /\ down' = down \cup {n}
        /\ UNCHANGED <<chain, saves, syncs, torn, forgotten>>

-----------------------------------------------------------------------------
Next ==
  \/ \E n \in Nodes :
       \/ ProduceBlock(n) \/ SaveEnds(n) \/ SaveFails(n) \/ Crash(n)
       \/ StartSync(n) \/ SyncHealth(n) \/ SyncCompares(n)
       \/ SyncFetch(n) \/ SyncEnds(n) \/ SyncFails(n)
  \/ \E relay \in relays : ReceiveBlock(relay) \/ LoseRelay(relay)

\* Nobody answers whom the sync asks next.
Unanswered(n) ==
  \/ syncs[n].peer \in down
  \/ syncs[n].peer = NoNode /\ syncs[n].left \subseteq down

\* Timers fire and saves end; requests of a sync may fail again and again,
\* but not for ever unless the peer is down, and then they time out.
Fairness ==
  \A n \in Syncing :
    /\ WF_vars(SaveEnds(n))
    /\ WF_vars(StartSync(n))
    /\ SF_vars(SyncHealth(n))
    /\ SF_vars(SyncCompares(n))
    /\ SF_vars(SyncFetch(n))
    /\ WF_vars(SyncEnds(n))
    /\ WF_vars(Unanswered(n) /\ SyncFails(n))

Spec == Init /\ [][Next]_vars /\ Fairness
-----------------------------------------------------------------------------
(* Properties. *)

TypeOK ==
  /\ chain \in [Nodes -> Seq(Blocks)]
  /\ disk \in [Nodes -> Seq(Blocks)]
  /\ saves \in [Nodes -> Seq(Saves)]
  /\ torn \subseteq Nodes
  /\ down \subseteq Nodes
  /\ relays \subseteq Relays
  /\ syncs \in [Nodes -> Syncs]
  /\ minted \in Nat
  /\ faults \in Nat
  /\ forgotten \in BOOLEAN

\* Nodes that relay, lose and fetch blocks, whose saves overlap, end in another
\* order and fail, and that restart from older snapshots never hold two blocks
\* of one height, though none of them looks at more than the block's parent
\* (produceBlock, acceptBlock).  It takes that no maker forgets a block that
\* still exists.  It may: by a crash after a sync fetched the block before its
\* save, or after an older save ended later than the block's; or when
\* acceptBlock puts an older chain back.
ChainsAgree ==
  forgotten \/ \A n, m \in Nodes : \A i \in DOMAIN chain[n] \cap DOMAIN chain[m] : chain[n][i] = chain[m][i]

\* A node with a sync timer ends up with every block of its peers, also those
\* that relays lost, that came out of order or that a crash took from it; but
\* not once a maker forgot a block (then heights agree and blocks may not), nor
\* while the node or the peer does not start from a torn file.
CatchUp ==
  \A n \in Syncing : \A m \in Links[n] :
     <>[](forgotten \/ {n, m} \cap down # {} \/ Len(chain[n]) >= Len(chain[m]))
=============================================================================
