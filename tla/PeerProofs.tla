----------------------------- MODULE PeerProofs -----------------------------
(***************************************************************************)
(* Proofs about a node among its peers: Network, the blocks on their way   *)
(* between nodes, for every set of nodes and links; PeerHealth, the        *)
(* directory that says how each peer behaved, for every set of peers; and  *)
(* SocketTransport, the connections between any nodes.                     *)
(***************************************************************************)
EXTENDS PeerHealth, Network, SocketTransport, FiniteSetTheorems, SequenceTheorems, AmountMathProofs, TLAPS

(***************************************************************************)
(* What every run of the model keeps, whoever produces: chains start with  *)
(* genesis, a save holds the block that it was begun for, and a relay has  *)
(* a hop left.                                                             *)
(***************************************************************************)
Filled ==
  /\ \A n \in Nodes : chain[n] # <<>> /\ disk[n] # <<>>
  /\ \A n \in Nodes : \A i \in DOMAIN saves[n] : Len(saves[n][i].snapshot) > 1
  /\ \A relay \in relays : relay.ttl > 0

TypeInv == TypeOK /\ Filled

\* Each block is at its height, and made by the node its parent selects.
Lineage(blocks) ==
  \A i \in 1 .. Len(blocks) :
    /\ blocks[i].height = i - 1
    /\ i > 1 => blocks[i].maker = blocks[i - 1].next

(***************************************************************************)
(* Agreement.  A block that exists anywhere is one that its maker still    *)
(* holds in memory: its loss would have been noted.  So nobody who may     *)
(* produce at some height lacks a block of that height that exists.        *)
(***************************************************************************)
Lineages == \A n \in Nodes : \A blocks \in Chains(n) : Lineage(blocks)
Remembered == \A block \in Blocks : Exists(block) => block \in Elements(chain[block.maker])
OnePerHeight ==
  \A x, y \in Blocks : Exists(x) /\ Exists(y) /\ x.height = y.height => x = y

Agreement == Lineages /\ Remembered /\ OnePerHeight

Inv == TypeInv /\ (forgotten \/ Agreement)

-----------------------------------------------------------------------------
(* Sequences. *)

LEMMA AppendFacts ==
  ASSUME NEW S, NEW s \in Seq(S), NEW e \in S
  PROVE  /\ Append(s, e) \in Seq(S)
         /\ Len(Append(s, e)) = Len(s) + 1
         /\ Append(s, e) # <<>>
         /\ \A i \in 1 .. Len(s) : Append(s, e)[i] = s[i]
         /\ Append(s, e)[Len(s) + 1] = e
         /\ Last(Append(s, e)) = e
         /\ Elements(Append(s, e)) = Elements(s) \cup {e}
<1>1. /\ Append(s, e) \in Seq(S)
      /\ Len(s) \in Nat
      /\ Len(Append(s, e)) = Len(s) + 1
      /\ \A i \in 1 .. Len(s) : Append(s, e)[i] = s[i]
      /\ Append(s, e)[Len(s) + 1] = e
  OBVIOUS
<1>2. Append(s, e) # <<>>
  BY <1>1
<1>3. Last(Append(s, e)) = e
  BY <1>1 DEF Last
<1>4. DOMAIN s = 1 .. Len(s) /\ DOMAIN Append(s, e) = 1 .. Len(s) + 1
  BY <1>1
<1>5. Elements(Append(s, e)) = Elements(s) \cup {e}
  BY <1>1, <1>4 DEF Elements
<1> QED BY <1>1, <1>2, <1>3, <1>5

LEMMA WithoutFacts ==
  ASSUME NEW S, NEW s \in Seq(S), NEW i \in DOMAIN s
  PROVE  /\ s[i] \in S
         /\ Without(s, i) \in Seq(S)
         /\ \A j \in DOMAIN Without(s, i) : \E k \in DOMAIN s : Without(s, i)[j] = s[k]
<1>1. Len(s) \in Nat /\ DOMAIN s = 1 .. Len(s) /\ s \in [1 .. Len(s) -> S] /\ Len(s) - 1 \in Nat
  OBVIOUS
<1>2. \A j \in 1 .. Len(s) - 1 : (IF j < i THEN s[j] ELSE s[j + 1]) \in S
  BY <1>1
<1>3. Without(s, i) \in [1 .. Len(s) - 1 -> S]
  BY <1>2 DEF Without
<1>4. Without(s, i) \in Seq(S)
  BY <1>1, <1>3
<1>5. DOMAIN Without(s, i) = 1 .. Len(s) - 1
  BY <1>3
<1>6. ASSUME NEW j \in 1 .. Len(s) - 1
      PROVE  \E k \in DOMAIN s : Without(s, i)[j] = s[k]
  <2>1. j \in DOMAIN s /\ j + 1 \in DOMAIN s
    BY <1>1
  <2>2. Without(s, i)[j] = s[j] \/ Without(s, i)[j] = s[j + 1]
    BY DEF Without
  <2> QED BY <2>1, <2>2
<1> QED BY <1>1, <1>4, <1>5, <1>6

LEMMA FrontFacts ==
  ASSUME NEW S, NEW s \in Seq(S), Len(s) > 1
  PROVE  /\ Front(s) \in Seq(S)
         /\ Front(s) # <<>>
         /\ Len(Front(s)) = Len(s) - 1
         /\ \A i \in 1 .. Len(s) - 1 : Front(s)[i] = s[i]
         /\ Elements(Front(s)) \subseteq Elements(s)
<1>1. Len(s) \in Nat /\ DOMAIN s = 1 .. Len(s)
  OBVIOUS
<1>2. /\ Front(s) \in Seq(S)
      /\ Len(Front(s)) = Len(s) - 1
      /\ \A i \in 1 .. Len(s) - 1 : Front(s)[i] = s[i]
  BY <1>1 DEF Front
<1>3. Front(s) # <<>>
  BY <1>1, <1>2
<1>4. DOMAIN Front(s) = 1 .. Len(s) - 1
  BY <1>1, <1>2
<1>5. Elements(Front(s)) \subseteq Elements(s)
  BY <1>1, <1>2, <1>4 DEF Elements
<1> QED BY <1>2, <1>3, <1>5

LEMMA LastFacts ==
  ASSUME NEW S, NEW s \in Seq(S), s # <<>>
  PROVE  /\ Len(s) \in Nat \ {0} /\ Last(s) \in S /\ Last(s) = s[Len(s)]
         /\ Last(s) \in Elements(s)
<1>1. Len(s) \in Nat \ {0} /\ DOMAIN s = 1 .. Len(s)
  OBVIOUS
<1> QED BY <1>1 DEF Last, Elements

-----------------------------------------------------------------------------
(* Types. *)

LEMMA BlocksTyped ==
  ASSUME TypeInv, NEW n \in Nodes
  PROVE  /\ chain[n] \in Seq(Blocks) /\ disk[n] \in Seq(Blocks) /\ saves[n] \in Seq(Saves)
         /\ chain[n] # <<>> /\ disk[n] # <<>>
         /\ Len(chain[n]) \in Nat \ {0} /\ Last(chain[n]) \in Blocks
         /\ Height(chain[n]) \in Nat
<1>1. /\ chain[n] \in Seq(Blocks) /\ disk[n] \in Seq(Blocks) /\ saves[n] \in Seq(Saves)
      /\ chain[n] # <<>> /\ disk[n] # <<>>
  BY DEF TypeInv, TypeOK, Filled
<1>2. Len(chain[n]) \in Nat \ {0} /\ Last(chain[n]) \in Blocks
  BY <1>1, LastFacts
<1>3. Height(chain[n]) \in Nat
  BY <1>2 DEF Height, Blocks
<1> QED BY <1>1, <1>2, <1>3

LEMMA CommitTyped ==
  ASSUME TypeInv, NEW n \in Nodes, NEW block \in Blocks, NEW ttl \in Nat,
         NEW kind \in {"produced", "relayed", "synced"}, NEW source \in Nodes \cup {NoNode},
         Commit(n, block, kind, ttl, source)
  PROVE  /\ chain' \in [Nodes -> Seq(Blocks)]
         /\ saves' \in [Nodes -> Seq(Saves)]
         /\ \A m \in Nodes : chain'[m] # <<>>
         /\ \A m \in Nodes : \A i \in DOMAIN saves'[m] : Len(saves'[m][i].snapshot) > 1
         /\ torn' \subseteq Nodes
<1> DEFINE save == [snapshot |-> Append(chain[n], block), kind |-> kind, ttl |-> ttl, source |-> source]
<1>1. /\ Append(chain[n], block) \in Seq(Blocks)
      /\ Len(Append(chain[n], block)) > 1
      /\ Append(chain[n], block) # <<>>
  BY BlocksTyped, AppendFacts
<1>2. save \in Saves
  BY <1>1 DEF Saves
<1>3. /\ Append(saves[n], save) \in Seq(Saves)
      /\ Len(Append(saves[n], save)) = Len(saves[n]) + 1
      /\ \A i \in 1 .. Len(saves[n]) : Append(saves[n], save)[i] = saves[n][i]
      /\ Append(saves[n], save)[Len(saves[n]) + 1] = save
  BY <1>2, BlocksTyped, AppendFacts
<1>4. \A i \in DOMAIN Append(saves[n], save) : Len(Append(saves[n], save)[i].snapshot) > 1
  <2> SUFFICES ASSUME NEW i \in DOMAIN Append(saves[n], save)
               PROVE  Len(Append(saves[n], save)[i].snapshot) > 1
    OBVIOUS
  <2>1. saves[n] \in Seq(Saves) /\ Len(saves[n]) \in Nat /\ DOMAIN saves[n] = 1 .. Len(saves[n])
    BY BlocksTyped
  <2>2. i \in 1 .. Len(saves[n]) \/ i = Len(saves[n]) + 1
    BY <1>3, <2>1
  <2>3. CASE i \in 1 .. Len(saves[n])
    BY <1>3, <2>1, <2>3 DEF TypeInv, Filled
  <2>4. CASE i = Len(saves[n]) + 1
    BY <1>1, <1>3, <2>4
  <2> QED BY <2>2, <2>3, <2>4
<1>5. /\ chain' = [chain EXCEPT ![n] = Append(chain[n], block)]
      /\ saves' = [saves EXCEPT ![n] = Append(saves[n], save)]
  BY DEF Commit
<1>6. torn' \subseteq Nodes
  BY DEF Commit, TypeInv, TypeOK
<1> HIDE DEF save
<1> QED BY <1>1, <1>3, <1>4, <1>5, <1>6 DEF TypeInv, TypeOK, Filled

LEMMA SyncRecords ==
  ASSUME TypeInv, NEW n \in Nodes
  PROVE  /\ syncs[n] \in Syncs /\ NoSync \in Syncs
         /\ syncs[n].left \subseteq Nodes /\ syncs[n].at \in Nat /\ syncs[n].at + 1 \in Nat
         /\ \A at \in Nat : [syncs[n] EXCEPT !.at = at] \in Syncs
         /\ \A left \in SUBSET Nodes :
              [syncs[n] EXCEPT !.left = left] \in Syncs /\ [NoSync EXCEPT !.left = left] \in Syncs
<1>1. syncs[n] \in Syncs
  BY DEF TypeInv, TypeOK
<1>2. NoSync \in Syncs
  BY DEF NoSync, Syncs
<1> QED BY <1>1, <1>2 DEF Syncs

LEMMA SyncAssigned ==
  ASSUME TypeInv, NEW n \in Nodes, NEW sync \in Syncs
  PROVE  [syncs EXCEPT ![n] = sync] \in [Nodes -> Syncs]
  BY DEF TypeInv, TypeOK

LEMMA NextPeerTyped ==
  ASSUME TypeInv, NEW n \in Nodes, NextPeer(n)
  PROVE  syncs' \in [Nodes -> Syncs]
  BY DEF TypeInv, TypeOK, NextPeer, NoSync, Syncs

\* A save under way, and what is left when it ends.
LEMMA SavesDrained ==
  ASSUME TypeInv, NEW n \in Nodes, NEW i \in DOMAIN saves[n]
  PROVE  /\ saves[n][i] \in Saves /\ saves[n][i].snapshot \in Seq(Blocks)
         /\ Len(saves[n][i].snapshot) > 1 /\ saves[n][i].snapshot # <<>>
         /\ [saves EXCEPT ![n] = Without(saves[n], i)] \in [Nodes -> Seq(Saves)]
         /\ \A m \in Nodes : \A j \in DOMAIN [saves EXCEPT ![n] = Without(saves[n], i)][m] :
              Len([saves EXCEPT ![n] = Without(saves[n], i)][m][j].snapshot) > 1
<1>1. saves[n] \in Seq(Saves)
  BY BlocksTyped
<1>2. /\ saves[n][i] \in Saves
      /\ Without(saves[n], i) \in Seq(Saves)
      /\ \A j \in DOMAIN Without(saves[n], i) : \E k \in DOMAIN saves[n] : Without(saves[n], i)[j] = saves[n][k]
  BY <1>1, WithoutFacts
<1>3. \A k \in DOMAIN saves[n] : Len(saves[n][k].snapshot) > 1
  BY DEF TypeInv, Filled
<1>4. saves[n][i].snapshot \in Seq(Blocks)
  BY <1>2 DEF Saves
<1>5. Len(saves[n][i].snapshot) > 1 /\ saves[n][i].snapshot # <<>>
  BY <1>3, <1>4
<1>6. \A j \in DOMAIN Without(saves[n], i) : Len(Without(saves[n], i)[j].snapshot) > 1
  BY <1>2, <1>3
<1> QED BY <1>2, <1>4, <1>5, <1>6 DEF TypeInv, TypeOK, Filled

LEMMA BroadcastTyped ==
  ASSUME TypeInv, NEW n \in Nodes, NEW i \in DOMAIN saves[n], Broadcast(n, saves[n][i])
  PROVE  relays' \subseteq Relays /\ \A relay \in relays' : relay.ttl > 0
<1> DEFINE save == saves[n][i]
<1>1. /\ save \in Saves /\ save.ttl \in Nat
      /\ save.snapshot \in Seq(Blocks) /\ save.snapshot # <<>>
  BY SavesDrained DEF Saves
<1>2. Last(save.snapshot) \in Blocks
  BY <1>1, LastFacts
<1>3. CASE save.ttl = 0
  BY <1>3 DEF Broadcast, TypeInv, TypeOK, Filled
<1>4. CASE save.ttl # 0
  <2>1. PICK targets \in SUBSET (Links[n] \ {save.source}) :
          relays' = relays \cup
            {[block |-> Last(save.snapshot), ttl |-> save.ttl, from |-> n, to |-> target] : target \in targets}
    BY <1>4 DEF Broadcast
  <2>2. targets \subseteq Nodes
    BY <2>1, NetworkAssumption
  <2>3. \A target \in targets :
          /\ [block |-> Last(save.snapshot), ttl |-> save.ttl, from |-> n, to |-> target] \in Relays
          /\ save.ttl > 0
    BY <1>1, <1>2, <1>4, <2>2 DEF Relays
  <2> HIDE DEF save
  <2> QED BY <2>1, <2>3 DEF TypeInv, TypeOK, Filled
<1> QED BY <1>3, <1>4

\* A block that a sync fetches is one of its peer's, at the height asked for.
LEMMA FetchedBlock ==
  ASSUME TypeInv, NEW n \in Nodes, syncs[n].peer # NoNode, syncs[n].at \in 1 .. syncs[n].upto,
         NEW block \in Fetched(n)
  PROVE  /\ syncs[n].peer \in Nodes /\ block \in Blocks
         /\ syncs[n].at + 1 \in 2 .. Len(chain[syncs[n].peer])
         /\ block = chain[syncs[n].peer][syncs[n].at + 1]
<1>1. syncs[n] \in Syncs
  BY DEF TypeInv, TypeOK
<1>2. syncs[n].peer \in Nodes /\ syncs[n].at \in Nat /\ syncs[n].at >= 1
  BY <1>1 DEF Syncs
<1>3. chain[syncs[n].peer] \in Seq(Blocks) /\ Len(chain[syncs[n].peer]) \in Nat
  BY <1>2, BlocksTyped
<1>4. syncs[n].at < Len(chain[syncs[n].peer]) /\ block = chain[syncs[n].peer][syncs[n].at + 1]
  BY DEF Fetched
<1> QED BY <1>2, <1>3, <1>4

LEMMA InitTyped == Init => TypeInv
<1> SUFFICES ASSUME Init PROVE TypeInv
  OBVIOUS
<1>1. PICK first \in Nodes : chain = [n \in Nodes |-> <<Genesis(first)>>]
  BY DEF Init
<1>2. Genesis(first) \in Blocks
  BY DEF Genesis, Blocks
<1>3. <<Genesis(first)>> \in Seq(Blocks) /\ <<Genesis(first)>> # <<>>
  BY <1>2
<1>4. saves \in [Nodes -> Seq(Saves)] /\ \A n \in Nodes : saves[n] = <<>>
  BY DEF Init
<1>5. NoSync \in Syncs
  BY DEF NoSync, Syncs
<1>6. TypeOK
  BY <1>1, <1>3, <1>4, <1>5 DEF Init, TypeOK
<1>7. Filled
  BY <1>1, <1>3, <1>4 DEF Init, Filled
<1> QED BY <1>6, <1>7 DEF TypeInv

LEMMA StepTyped ==
  ASSUME TypeInv, [Next]_vars
  PROVE  TypeInv'
<1> USE DEF TypeInv
<1>1. ASSUME NEW n \in Nodes, ProduceBlock(n)
      PROVE  TypeInv'
  <2>1. PICK next \in Nodes :
          Commit(n, [hash |-> minted + 1, height |-> Len(chain[n]), previousHash |-> Last(chain[n]).hash,
                     next |-> next, maker |-> n], "produced", TTL, NoNode)
    BY <1>1 DEF ProduceBlock
  <2>2. [hash |-> minted + 1, height |-> Len(chain[n]), previousHash |-> Last(chain[n]).hash,
         next |-> next, maker |-> n] \in Blocks
    <3>1. minted + 1 \in Nat
      BY DEF TypeOK
    <3>2. Last(chain[n]).hash \in Nat /\ Len(chain[n]) \in Nat
      BY BlocksTyped DEF Blocks
    <3> QED BY <3>1, <3>2 DEF Blocks
  <2>3. /\ chain' \in [Nodes -> Seq(Blocks)] /\ saves' \in [Nodes -> Seq(Saves)]
        /\ \A m \in Nodes : chain'[m] # <<>>
        /\ \A m \in Nodes : \A i \in DOMAIN saves'[m] : Len(saves'[m][i].snapshot) > 1
        /\ torn' \subseteq Nodes
    BY <2>1, <2>2, CommitTyped, NetworkAssumption
  <2> QED BY <1>1, <2>3 DEF ProduceBlock, TypeOK, Filled
<1>2. ASSUME NEW n \in Nodes, SaveEnds(n)
      PROVE  TypeInv'
  <2>1. PICK i \in DOMAIN saves[n] :
          /\ disk' = [disk EXCEPT ![n] = saves[n][i].snapshot] \/ UNCHANGED disk
          /\ saves' = [saves EXCEPT ![n] = Without(saves[n], i)]
          /\ Broadcast(n, saves[n][i])
    BY <1>2 DEF SaveEnds
  <2>2. disk' \in [Nodes -> Seq(Blocks)] /\ \A m \in Nodes : disk'[m] # <<>>
    BY <2>1, SavesDrained DEF TypeOK, Filled
  <2>3. /\ saves' \in [Nodes -> Seq(Saves)]
        /\ \A m \in Nodes : \A j \in DOMAIN saves'[m] : Len(saves'[m][j].snapshot) > 1
    BY <2>1, SavesDrained
  <2>4. relays' \subseteq Relays /\ \A relay \in relays' : relay.ttl > 0
    BY <2>1, BroadcastTyped
  <2> QED BY <1>2, <2>2, <2>3, <2>4 DEF SaveEnds, TypeOK, Filled
<1>3. ASSUME NEW n \in Nodes, SaveFails(n)
      PROVE  TypeInv'
  <2>1. PICK i \in DOMAIN saves[n] :
          /\ UNCHANGED chain \/ chain' = [chain EXCEPT ![n] = Front(saves[n][i].snapshot)]
          /\ NextPeer(n) \/ UNCHANGED syncs
          /\ disk' \in {disk, [disk EXCEPT ![n] = saves[n][i].snapshot]}
          /\ saves' = [saves EXCEPT ![n] = Without(saves[n], i)]
    BY <1>3 DEF SaveFails
  <2>2. Front(saves[n][i].snapshot) \in Seq(Blocks) /\ Front(saves[n][i].snapshot) # <<>>
    BY SavesDrained, FrontFacts
  <2>3. chain' \in [Nodes -> Seq(Blocks)] /\ \A m \in Nodes : chain'[m] # <<>>
    BY <2>1, <2>2 DEF TypeOK, Filled
  <2>4. /\ saves' \in [Nodes -> Seq(Saves)]
        /\ \A m \in Nodes : \A j \in DOMAIN saves'[m] : Len(saves'[m][j].snapshot) > 1
    BY <2>1, SavesDrained
  <2>5. syncs' \in [Nodes -> Syncs]
    BY <2>1, NextPeerTyped DEF TypeOK
  <2>6. disk' \in [Nodes -> Seq(Blocks)] /\ \A m \in Nodes : disk'[m] # <<>>
    <3>1. CASE disk' = disk
      BY <3>1 DEF TypeOK, Filled
    <3>2. CASE disk' = [disk EXCEPT ![n] = saves[n][i].snapshot]
      BY <3>2, SavesDrained DEF TypeOK, Filled
    <3> QED BY <2>1, <3>1, <3>2
  <2>7. faults' \in Nat /\ torn' \subseteq Nodes
    BY <1>3 DEF SaveFails, TypeOK
  <2>8. forgotten' \in BOOLEAN
    <3>1. forgotten' = (forgotten \/ \E block \in OwnLost(n, chain'[n]) : Exists(block)')
      BY <1>3 DEF SaveFails
    <3> QED BY <3>1
  <2> QED BY <1>3, <2>3, <2>4, <2>5, <2>6, <2>7, <2>8 DEF SaveFails, TypeOK, Filled
<1>4. ASSUME NEW n \in Nodes, Crash(n)
      PROVE  TypeInv'
  <2>1. disk' = disk /\ relays' = relays /\ minted' = minted /\ faults' = faults + 1
    BY <1>4 DEF Crash
  <2>2. CASE UNCHANGED <<chain, saves, syncs, torn, forgotten>> /\ down' = down \cup {n}
    BY <2>1, <2>2 DEF TypeOK, Filled
  <2>3. CASE /\ chain' = [chain EXCEPT ![n] = disk[n]]
             /\ saves' = [saves EXCEPT ![n] = <<>>]
             /\ syncs' = [syncs EXCEPT ![n] = NoSync]
             /\ torn' = torn \ {n}
             /\ forgotten' = (forgotten \/ \E block \in OwnLost(n, disk[n]) : Exists(block)')
             /\ UNCHANGED down
    <3>1. chain' \in [Nodes -> Seq(Blocks)] /\ \A m \in Nodes : chain'[m] # <<>>
      BY <2>3 DEF TypeOK, Filled
    <3>2. /\ saves' \in [Nodes -> Seq(Saves)]
          /\ \A m \in Nodes : \A i \in DOMAIN saves'[m] : Len(saves'[m][i].snapshot) > 1
      BY <2>3 DEF TypeOK, Filled
    <3>3. syncs' \in [Nodes -> Syncs]
      BY <2>3, SyncRecords DEF TypeOK
    <3>4. torn' \subseteq Nodes /\ down' \subseteq Nodes
      BY <2>3 DEF TypeOK
    <3>5. forgotten' \in BOOLEAN
      BY <2>3
    <3> QED BY <2>1, <3>1, <3>2, <3>3, <3>4, <3>5 DEF TypeOK, Filled
  <2> QED BY <1>4, <2>2, <2>3 DEF Crash
<1>5. ASSUME NEW n \in Nodes, StartSync(n)
      PROVE  TypeInv'
  <2>1. Links[n] \subseteq Nodes
    BY NetworkAssumption
  <2>2. syncs' \in [Nodes -> Syncs]
    BY <1>5, <2>1, SyncRecords, SyncAssigned DEF StartSync
  <2> QED BY <1>5, <2>2 DEF StartSync, TypeOK, Filled
<1>6. ASSUME NEW n \in Nodes, SyncHealth(n)
      PROVE  TypeInv'
  <2>1. PICK peer \in syncs[n].left :
          syncs' = [syncs EXCEPT ![n] =
                      [left |-> @.left \ {peer}, peer |-> peer, at |-> 0, upto |-> Height(chain[peer])]]
    BY <1>6 DEF SyncHealth
  <2>2. syncs[n].left \subseteq Nodes
    BY DEF TypeOK, Syncs
  <2>3. Height(chain[peer]) \in Nat
    BY <2>2, BlocksTyped
  <2>4. syncs' \in [Nodes -> Syncs]
    BY <2>1, <2>2, <2>3 DEF TypeOK, Syncs
  <2> QED BY <1>6, <2>4 DEF SyncHealth, TypeOK, Filled
<1>7. ASSUME NEW n \in Nodes, SyncCompares(n)
      PROVE  TypeInv'
  <2>1. syncs' \in [Nodes -> Syncs]
    <3>1. CASE syncs[n].upto > Height(chain[n])
      <4>1. Height(chain[n]) + 1 \in Nat
        BY BlocksTyped
      <4> QED BY <1>7, <3>1, <4>1, SyncRecords, SyncAssigned DEF SyncCompares
    <3>2. CASE ~(syncs[n].upto > Height(chain[n]))
      BY <1>7, <3>2, NextPeerTyped DEF SyncCompares
    <3> QED BY <3>1, <3>2
  <2> QED BY <1>7, <2>1 DEF SyncCompares, TypeOK, Filled
<1>8. ASSUME NEW n \in Nodes, SyncFetch(n)
      PROVE  TypeInv'
  <2>1. CASE \E block \in Fetched(n) :
               /\ Extends(block, chain[n])
               /\ Commit(n, block, "synced", 0, NoNode)
               /\ syncs' = [syncs EXCEPT ![n].at = @ + 1]
    <3>1. PICK block \in Fetched(n) :
             /\ Commit(n, block, "synced", 0, NoNode)
             /\ syncs' = [syncs EXCEPT ![n].at = @ + 1]
      BY <2>1
    <3>2. block \in Blocks
      BY <1>8, <3>1, NetworkAssumption, FetchedBlock DEF SyncFetch
    <3>3. /\ chain' \in [Nodes -> Seq(Blocks)] /\ saves' \in [Nodes -> Seq(Saves)]
          /\ \A m \in Nodes : chain'[m] # <<>>
          /\ \A m \in Nodes : \A i \in DOMAIN saves'[m] : Len(saves'[m][i].snapshot) > 1
          /\ torn' \subseteq Nodes
      BY <3>1, <3>2, CommitTyped
    <3>4. syncs' \in [Nodes -> Syncs]
      BY <3>1, SyncRecords, SyncAssigned
    <3> QED BY <1>8, <3>3, <3>4 DEF SyncFetch, TypeOK, Filled
  <2>2. CASE NextPeer(n) /\ UNCHANGED <<chain, saves, torn>>
    BY <1>8, <2>2, NextPeerTyped DEF SyncFetch, TypeOK, Filled
  <2> QED BY <1>8, <2>1, <2>2 DEF SyncFetch
<1>9. ASSUME NEW n \in Nodes, SyncEnds(n)
      PROVE  TypeInv'
  BY <1>9, NextPeerTyped DEF SyncEnds, TypeOK, Filled
<1>10. ASSUME NEW n \in Nodes, SyncFails(n)
       PROVE  TypeInv'
  <2>1. syncs' \in [Nodes -> Syncs]
    <3>1. CASE syncs[n].peer # NoNode
      BY <1>10, <3>1, NextPeerTyped DEF SyncFails
    <3>2. CASE syncs[n].peer = NoNode
      <4>1. PICK peer \in syncs[n].left :
              syncs' = [syncs EXCEPT ![n] = [NoSync EXCEPT !.left = syncs[n].left \ {peer}]]
        BY <1>10, <3>2 DEF SyncFails
      <4>2. syncs[n].left \ {peer} \subseteq Nodes
        BY SyncRecords
      <4>3. [NoSync EXCEPT !.left = syncs[n].left \ {peer}] \in Syncs
        BY <4>2, SyncRecords
      <4> QED BY <4>1, <4>3, SyncAssigned
    <3> QED BY <3>1, <3>2
  <2> QED BY <1>10, <2>1 DEF SyncFails, TypeOK, Filled
<1>11. ASSUME NEW relay \in relays, ReceiveBlock(relay)
       PROVE  TypeInv'
  <2>1. /\ relay.block \in Blocks /\ relay.to \in Nodes /\ relay.from \in Nodes
        /\ relay.ttl - 1 \in Nat
    BY DEF TypeOK, Filled, Relays
  <2>2. /\ chain' \in [Nodes -> Seq(Blocks)] /\ saves' \in [Nodes -> Seq(Saves)]
        /\ \A m \in Nodes : chain'[m] # <<>>
        /\ \A m \in Nodes : \A i \in DOMAIN saves'[m] : Len(saves'[m][i].snapshot) > 1
        /\ torn' \subseteq Nodes
    <3>1. CASE Extends(relay.block, chain[relay.to])
      BY <1>11, <2>1, <3>1, CommitTyped DEF ReceiveBlock
    <3>2. CASE ~Extends(relay.block, chain[relay.to])
      BY <1>11, <3>2 DEF ReceiveBlock, TypeOK, Filled
    <3> QED BY <3>1, <3>2
  <2> QED BY <1>11, <2>2 DEF ReceiveBlock, TypeOK, Filled
<1>12. ASSUME NEW relay \in relays, LoseRelay(relay)
       PROVE  TypeInv'
  BY <1>12 DEF LoseRelay, TypeOK, Filled
<1>13. CASE UNCHANGED vars
  BY <1>13 DEF vars, TypeOK, Filled
<1> QED
  BY <1>1, <1>2, <1>3, <1>4, <1>5, <1>6, <1>7, <1>8, <1>9, <1>10, <1>11, <1>12, <1>13 DEF Next

\* Chains are well typed whoever produces, whatever is lost and whoever crashes.
THEOREM NetworkTypeCorrect == Spec => []TypeOK
<1>1. TypeInv /\ [Next]_vars => TypeInv'
  BY StepTyped
<1>2. TypeInv => TypeOK
  BY DEF TypeInv
<1> QED BY <1>1, <1>2, InitTyped, PTL DEF Spec

-----------------------------------------------------------------------------
(* Lineages. *)

LEMMA AppendLineage ==
  ASSUME NEW blocks \in Seq(Blocks), blocks # <<>>, Lineage(blocks), NEW block \in Blocks,
         block.height = Len(blocks), block.maker = Last(blocks).next
  PROVE  Lineage(Append(blocks, block))
<1> DEFINE longer == Append(blocks, block)
<1>1. /\ Len(blocks) \in Nat \ {0} /\ Last(blocks) = blocks[Len(blocks)]
      /\ Len(longer) = Len(blocks) + 1
      /\ \A i \in 1 .. Len(blocks) : longer[i] = blocks[i]
      /\ longer[Len(blocks) + 1] = block
  BY AppendFacts, LastFacts
<1> HIDE DEF longer
<1> SUFFICES ASSUME NEW i \in 1 .. Len(longer)
             PROVE  longer[i].height = i - 1 /\ (i > 1 => longer[i].maker = longer[i - 1].next)
  BY DEF Lineage, longer
<1>2. CASE i \in 1 .. Len(blocks)
  <2>1. i > 1 => i - 1 \in 1 .. Len(blocks)
    BY <1>1, <1>2
  <2> QED BY <1>1, <1>2, <2>1 DEF Lineage
<1>3. CASE i = Len(blocks) + 1
  <2>1. i - 1 = Len(blocks) /\ i - 1 \in 1 .. Len(blocks)
    BY <1>1, <1>3
  <2> QED BY <1>1, <1>3, <2>1
<1> QED BY <1>1, <1>2, <1>3

LEMMA FrontLineage ==
  ASSUME NEW blocks \in Seq(Blocks), Len(blocks) > 1, Lineage(blocks)
  PROVE  Lineage(Front(blocks))
<1>1. /\ Len(blocks) \in Nat
      /\ Len(Front(blocks)) = Len(blocks) - 1
      /\ \A i \in 1 .. Len(blocks) - 1 : Front(blocks)[i] = blocks[i]
  BY FrontFacts
<1> SUFFICES ASSUME NEW i \in 1 .. Len(Front(blocks))
             PROVE  /\ Front(blocks)[i].height = i - 1
                    /\ i > 1 => Front(blocks)[i].maker = Front(blocks)[i - 1].next
  BY DEF Lineage
<1>2. i \in 1 .. Len(blocks) /\ i \in 1 .. Len(blocks) - 1 /\ (i > 1 => i - 1 \in 1 .. Len(blocks) - 1)
  BY <1>1
<1> QED BY <1>1, <1>2 DEF Lineage

-----------------------------------------------------------------------------
(* What agreement says of the blocks that exist. *)

LEMMA ChainsTyped ==
  ASSUME TypeInv, NEW n \in Nodes, NEW blocks \in Chains(n)
  PROVE  blocks \in Seq(Blocks) /\ blocks # <<>> /\ Elements(blocks) \subseteq Blocks
<1>1. ASSUME NEW i \in DOMAIN saves[n]
      PROVE  saves[n][i].snapshot \in Seq(Blocks) /\ saves[n][i].snapshot # <<>>
  <2>1. saves[n][i] \in Saves
    BY BlocksTyped
  <2>2. saves[n][i].snapshot \in Seq(Blocks) /\ Len(saves[n][i].snapshot) > 1
    BY <2>1 DEF Saves, TypeInv, Filled
  <2> QED BY <2>2
<1>2. blocks \in Seq(Blocks) /\ blocks # <<>>
  BY <1>1, BlocksTyped DEF Chains
<1>3. Elements(blocks) \subseteq Blocks
  BY <1>2 DEF Elements
<1> QED BY <1>2, <1>3

LEMMA ChainHeld ==
  ASSUME NEW n \in Nodes, NEW block \in Elements(chain[n])
  PROVE  Exists(block)
  BY DEF Chains, Exists

\* The maker of a block that exists still has it in memory.
LEMMA MakerHolds ==
  ASSUME Agreement, NEW block \in Blocks, Exists(block)
  PROVE  block.maker \in Nodes /\ block \in Elements(chain[block.maker])
  BY DEF Blocks, Agreement, Remembered

\* Whatever exists at the height that comes next extends the chain of a node.
LEMMA NextBlock ==
  ASSUME TypeInv, Agreement, NEW n \in Nodes, NEW block \in Blocks, Exists(block),
         block.height = Len(chain[n])
  PROVE  block.maker = Last(chain[n]).next
<1> DEFINE maker == block.maker
           blocks == chain[maker]
<1>1. maker \in Nodes /\ block \in Elements(blocks)
  BY MakerHolds
<1>2. Lineage(blocks) /\ Lineage(chain[n])
  BY <1>1 DEF Agreement, Lineages, Chains
<1>3. /\ blocks \in Seq(Blocks) /\ Len(blocks) \in Nat /\ DOMAIN blocks = 1 .. Len(blocks)
      /\ chain[n] \in Seq(Blocks) /\ Len(chain[n]) \in Nat \ {0} /\ Last(chain[n]) \in Blocks
  BY <1>1, BlocksTyped
<1>4. PICK i \in 1 .. Len(blocks) : block = blocks[i]
  BY <1>1, <1>3 DEF Elements
<1>5. i - 1 = Len(chain[n])
  BY <1>2, <1>4 DEF Lineage
<1>6. i > 1 /\ i - 1 \in 1 .. Len(blocks)
  BY <1>3, <1>5
<1>7. blocks[i - 1] \in Blocks /\ blocks[i - 1].height = i - 2 /\ blocks[i - 1].next = maker
  BY <1>2, <1>3, <1>4, <1>6 DEF Lineage
<1>8. Last(chain[n]).height = Len(chain[n]) - 1
  BY <1>2, <1>3, LastFacts DEF Lineage
<1>9. Exists(blocks[i - 1])
  <2>1. blocks[i - 1] \in Elements(blocks)
    BY <1>3, <1>6 DEF Elements
  <2> QED BY <1>1, <2>1, ChainHeld
<1>10. Exists(Last(chain[n]))
  BY <1>3, LastFacts, BlocksTyped, ChainHeld
<1>11. blocks[i - 1].height = Last(chain[n]).height
  BY <1>3, <1>5, <1>7, <1>8
<1>12. blocks[i - 1] = Last(chain[n])
  BY <1>3, <1>7, <1>9, <1>10, <1>11 DEF Agreement, OnePerHeight
<1> QED BY <1>7, <1>12

\* A node that may produce has every block that exists at or above its tip.
LEMMA NoneAhead ==
  ASSUME TypeInv, Agreement, NEW n \in Nodes, Last(chain[n]).next = n,
         NEW block \in Blocks, Exists(block)
  PROVE  block.height # Len(chain[n])
<1> SUFFICES ASSUME block.height = Len(chain[n]) PROVE FALSE
  OBVIOUS
<1>1. block.maker = n
  BY NextBlock
<1>2. block \in Elements(chain[n])
  BY <1>1, MakerHolds
<1>3. chain[n] \in Seq(Blocks) /\ Len(chain[n]) \in Nat /\ DOMAIN chain[n] = 1 .. Len(chain[n])
  BY BlocksTyped
<1>4. PICK i \in 1 .. Len(chain[n]) : block = chain[n][i]
  BY <1>2, <1>3 DEF Elements
<1>5. Lineage(chain[n])
  BY DEF Agreement, Lineages, Chains
<1>6. block.height = i - 1
  BY <1>4, <1>5 DEF Lineage
<1> QED BY <1>3, <1>4, <1>6

-----------------------------------------------------------------------------
(* Steps. *)

\* A block that extends a node's chain, to memory and into a save.
LEMMA CommitAgrees ==
  ASSUME TypeInv, Agreement, NEW n \in Nodes, NEW block \in Blocks, NEW ttl \in Nat,
         NEW kind \in {"produced", "relayed", "synced"}, NEW source \in Nodes \cup {NoNode},
         Commit(n, block, kind, ttl, source), disk' = disk, relays' \subseteq relays,
         block.height = Len(chain[n]), block.maker = Last(chain[n]).next
  PROVE  /\ Lineages'
         /\ \A b \in Blocks : Exists(b)' => Exists(b) \/ b = block
         /\ \A m \in Nodes : Elements(chain[m]) \subseteq Elements(chain'[m])
         /\ block \in Elements(chain'[n])
<1> DEFINE longer == Append(chain[n], block)
           save == [snapshot |-> longer, kind |-> kind, ttl |-> ttl, source |-> source]
<1>1. /\ chain[n] \in Seq(Blocks) /\ chain[n] # <<>> /\ saves[n] \in Seq(Saves)
      /\ longer \in Seq(Blocks) /\ Elements(longer) = Elements(chain[n]) \cup {block}
  BY BlocksTyped, AppendFacts
<1>2. save \in Saves /\ save.snapshot = longer
  BY <1>1 DEF Saves
<1>3. /\ Len(saves[n]) \in Nat /\ DOMAIN saves[n] = 1 .. Len(saves[n])
      /\ DOMAIN Append(saves[n], save) = 1 .. Len(saves[n]) + 1
      /\ \A i \in 1 .. Len(saves[n]) : Append(saves[n], save)[i] = saves[n][i]
      /\ Append(saves[n], save)[Len(saves[n]) + 1] = save
  BY <1>1, <1>2, AppendFacts
<1>4. /\ chain' = [chain EXCEPT ![n] = longer]
      /\ saves' = [saves EXCEPT ![n] = Append(saves[n], save)]
  BY DEF Commit
<1>5. Lineage(longer)
  BY <1>1, AppendLineage DEF Agreement, Lineages, Chains
<1>6. \A i \in DOMAIN Append(saves[n], save) :
        \/ i \in DOMAIN saves[n] /\ Append(saves[n], save)[i] = saves[n][i]
        \/ Append(saves[n], save)[i].snapshot = longer
  BY <1>2, <1>3
<1> HIDE DEF longer, save
<1>7. /\ chain'[n] = longer /\ saves'[n] = Append(saves[n], save)
      /\ \A m \in Nodes : m # n => chain'[m] = chain[m] /\ saves'[m] = saves[m]
  BY <1>4 DEF TypeInv, TypeOK
<1>8. \A m \in Nodes : \A blocks \in Chains(m)' : blocks \in Chains(m) \/ blocks = longer
  <2>1. \A blocks \in Chains(n)' : blocks \in Chains(n) \/ blocks = longer
    BY <1>6, <1>7 DEF Chains
  <2>2. \A m \in Nodes : m # n => Chains(m)' = Chains(m)
    BY <1>7 DEF Chains
  <2> QED BY <2>1, <2>2
<1>9. Lineages'
  BY <1>5, <1>8 DEF Agreement, Lineages
<1>10. \A b \in Elements(longer) : Exists(b) \/ b = block
  BY <1>1, ChainHeld
<1>11. \A b \in Blocks : Exists(b)' => Exists(b) \/ b = block
  BY <1>8, <1>10 DEF Exists
<1>12. \A m \in Nodes : Elements(chain[m]) \subseteq Elements(chain'[m])
  BY <1>1, <1>7
<1> QED BY <1>1, <1>7, <1>9, <1>11, <1>12

\* Steps after which nothing exists that did not before, and that leave each
\* block that does with its maker.
LEMMA NothingNew ==
  ASSUME Agreement, Lineages',
         \A b \in Blocks : Exists(b)' => Exists(b) /\ b \in Elements(chain'[b.maker])
  PROVE  Agreement'
  BY DEF Agreement, Remembered, OnePerHeight

LEMMA ProduceAgrees ==
  ASSUME Forced = {}, TypeInv, Agreement, NEW n \in Nodes, ProduceBlock(n)
  PROVE  Agreement'
<1>1. PICK next \in Nodes :
        Commit(n, [hash |-> minted + 1, height |-> Len(chain[n]), previousHash |-> Last(chain[n]).hash,
                   next |-> next, maker |-> n], "produced", TTL, NoNode)
  BY DEF ProduceBlock
<1> DEFINE block == [hash |-> minted + 1, height |-> Len(chain[n]), previousHash |-> Last(chain[n]).hash,
                     next |-> next, maker |-> n]
<1>2. block \in Blocks
  <2>1. minted + 1 \in Nat
    BY DEF TypeInv, TypeOK
  <2>2. Last(chain[n]).hash \in Nat /\ Len(chain[n]) \in Nat
    BY BlocksTyped DEF Blocks
  <2> QED BY <2>1, <2>2 DEF Blocks
<1>3. block.height = Len(chain[n]) /\ block.maker = n
  OBVIOUS
<1> HIDE DEF block
<1>4. Last(chain[n]).next = n
  BY DEF ProduceBlock, MayPropose
<1>5. Commit(n, block, "produced", TTL, NoNode) /\ TTL \in Nat
  BY <1>1, NetworkAssumption DEF block
<1>6. disk' = disk /\ relays' = relays
  BY DEF ProduceBlock
<1>7. /\ Lineages'
      /\ \A b \in Blocks : Exists(b)' => Exists(b) \/ b = block
      /\ \A m \in Nodes : Elements(chain[m]) \subseteq Elements(chain'[m])
      /\ block \in Elements(chain'[n])
  BY <1>2, <1>3, <1>4, <1>5, <1>6, CommitAgrees
<1>8. Remembered'
  BY <1>3, <1>7 DEF Agreement, Remembered, Blocks
<1>9. \A b \in Blocks : Exists(b) => b.height # block.height
  BY <1>3, <1>4, NoneAhead
<1>10. OnePerHeight'
  BY <1>7, <1>9 DEF Agreement, OnePerHeight
<1> QED BY <1>7, <1>8, <1>10 DEF Agreement

\* A block that exists is accepted.
LEMMA AcceptAgrees ==
  ASSUME TypeInv, Agreement, NEW n \in Nodes, NEW block \in Blocks, NEW ttl \in Nat,
         NEW kind \in {"relayed", "synced"}, NEW source \in Nodes \cup {NoNode},
         Exists(block), Extends(block, chain[n]), Commit(n, block, kind, ttl, source),
         disk' = disk, relays' \subseteq relays
  PROVE  Agreement'
<1>1. block.height = Len(chain[n]) /\ block.maker = Last(chain[n]).next
  BY NextBlock DEF Extends
<1>2. /\ Lineages'
      /\ \A b \in Blocks : Exists(b)' => Exists(b) \/ b = block
      /\ \A m \in Nodes : Elements(chain[m]) \subseteq Elements(chain'[m])
  BY <1>1, CommitAgrees
<1> QED BY <1>2, MakerHolds, NothingNew

\* Steps that leave the blocks of all nodes alone.
LEMMA BlocksUnchanged ==
  ASSUME Agreement, UNCHANGED <<chain, disk, saves>>, relays' \subseteq relays
  PROVE  Agreement'
<1>1. \A m \in Nodes : Chains(m)' = Chains(m)
  BY DEF Chains
<1>2. Lineages'
  BY <1>1 DEF Agreement, Lineages
<1>3. \A b \in Blocks : Exists(b)' => Exists(b)
  BY <1>1 DEF Exists
<1> QED BY <1>2, <1>3, MakerHolds, NothingNew

\* What a node holds after a save ended or failed: nothing that it did not.
LEMMA ChainsDrained ==
  ASSUME TypeInv, NEW n \in Nodes, NEW i \in DOMAIN saves[n],
         \/ chain' = chain
         \/ chain' = [chain EXCEPT ![n] = Front(saves[n][i].snapshot)],
         \/ disk' = disk
         \/ disk' = [disk EXCEPT ![n] = saves[n][i].snapshot],
         saves' = [saves EXCEPT ![n] = Without(saves[n], i)]
  PROVE  \A m \in Nodes : \A blocks \in Chains(m)' :
           blocks \in Chains(m) \/ (m = n /\ blocks = Front(saves[n][i].snapshot))
<1>1. /\ saves[n] \in Seq(Saves)
      /\ \A j \in DOMAIN Without(saves[n], i) :
           \E k \in DOMAIN saves[n] : Without(saves[n], i)[j] = saves[n][k]
  BY BlocksTyped, WithoutFacts
<1>2. /\ saves'[n] = Without(saves[n], i)
      /\ chain'[n] = chain[n] \/ chain'[n] = Front(saves[n][i].snapshot)
      /\ disk'[n] = disk[n] \/ disk'[n] = saves[n][i].snapshot
  BY DEF TypeInv, TypeOK
<1>3. \A m \in Nodes : m # n => chain'[m] = chain[m] /\ disk'[m] = disk[m] /\ saves'[m] = saves[m]
  BY DEF TypeInv, TypeOK
<1>4. \A blocks \in Chains(n)' : blocks \in Chains(n) \/ blocks = Front(saves[n][i].snapshot)
  BY <1>1, <1>2 DEF Chains
<1>5. \A m \in Nodes : m # n => Chains(m)' = Chains(m)
  BY <1>3 DEF Chains
<1> QED BY <1>4, <1>5

LEMMA SaveEndsAgrees ==
  ASSUME TypeInv, Agreement, NEW n \in Nodes, SaveEnds(n)
  PROVE  Agreement'
<1>1. PICK i \in DOMAIN saves[n] :
        /\ disk' = [disk EXCEPT ![n] = saves[n][i].snapshot] \/ UNCHANGED disk
        /\ saves' = [saves EXCEPT ![n] = Without(saves[n], i)]
        /\ Broadcast(n, saves[n][i])
  BY DEF SaveEnds
<1>2. chain' = chain
  BY DEF SaveEnds
<1>3. Chains(n)' \subseteq Chains(n) /\ \A m \in Nodes : m # n => Chains(m)' = Chains(m)
  <2>1. /\ saves[n] \in Seq(Saves)
        /\ \A j \in DOMAIN Without(saves[n], i) :
             \E k \in DOMAIN saves[n] : Without(saves[n], i)[j] = saves[n][k]
    BY BlocksTyped, WithoutFacts
  <2>2. saves'[n] = Without(saves[n], i) /\ (disk'[n] = disk[n] \/ disk'[n] = saves[n][i].snapshot)
    BY <1>1 DEF TypeInv, TypeOK
  <2>3. \A m \in Nodes : m # n => disk'[m] = disk[m] /\ saves'[m] = saves[m]
    BY <1>1 DEF TypeInv, TypeOK
  <2>4. Chains(n)' \subseteq Chains(n)
    BY <1>2, <2>1, <2>2 DEF Chains
  <2>5. \A m \in Nodes : m # n => Chains(m)' = Chains(m)
    BY <1>2, <2>3 DEF Chains
  <2> QED BY <2>4, <2>5
<1>4. Lineages'
  BY <1>3 DEF Agreement, Lineages
<1>5. PICK last : last = Last(saves[n][i].snapshot)
  OBVIOUS
<1>6. Exists(last)
  <2>1. last \in Elements(saves[n][i].snapshot)
    BY <1>5, SavesDrained, LastFacts
  <2> QED BY <2>1 DEF Exists, Chains
<1>7. \A relay \in relays' : relay \in relays \/ relay.block = last
  BY <1>1, <1>5 DEF Broadcast
<1>8. \A b \in Blocks : Exists(b)' => Exists(b)
  BY <1>3, <1>6, <1>7 DEF Exists
<1> QED BY <1>2, <1>4, <1>8, MakerHolds, NothingNew

\* A node's chain becomes another that it had, or the beginning of one, and it
\* loses no block of its own that exists.
LEMMA RolledBack ==
  ASSUME TypeInv, Agreement, NEW n \in Nodes, relays' = relays,
         \A m \in Nodes : m # n => chain'[m] = chain[m] /\ Chains(m)' = Chains(m),
         \A blocks \in Chains(n)' :
           Lineage(blocks) /\ \A b \in Elements(blocks) : \E old \in Chains(n) : b \in Elements(old),
         \A b \in OwnLost(n, chain'[n]) : ~Exists(b)'
  PROVE  Agreement'
<1>1. Lineages'
  BY DEF Agreement, Lineages
<1>2. \A b \in Blocks : Exists(b)' => Exists(b)
  BY DEF Exists
<1>3. ASSUME NEW b \in Blocks, Exists(b)'
      PROVE  b \in Elements(chain'[b.maker])
  <2>1. b.maker \in Nodes /\ b \in Elements(chain[b.maker])
    BY <1>2, <1>3, MakerHolds
  <2>2. CASE b.maker = n
    BY <1>3, <2>1, <2>2 DEF OwnLost
  <2>3. CASE b.maker # n
    BY <2>1, <2>3
  <2> QED BY <2>2, <2>3
<1> QED BY <1>1, <1>2, <1>3, NothingNew

LEMMA SaveFailsAgrees ==
  ASSUME TypeInv, Agreement, NEW n \in Nodes, SaveFails(n), ~forgotten'
  PROVE  Agreement'
<1>1. PICK i \in DOMAIN saves[n] :
        /\ chain' = chain \/ chain' = [chain EXCEPT ![n] = Front(saves[n][i].snapshot)]
        /\ disk' = disk \/ disk' = [disk EXCEPT ![n] = saves[n][i].snapshot]
        /\ saves' = [saves EXCEPT ![n] = Without(saves[n], i)]
  BY DEF SaveFails
<1>2. relays' = relays /\ \A b \in OwnLost(n, chain'[n]) : ~Exists(b)'
  BY DEF SaveFails
<1>3. PICK snapshot : snapshot = saves[n][i].snapshot
  OBVIOUS
<1>4. snapshot \in Seq(Blocks) /\ Len(snapshot) > 1 /\ snapshot \in Chains(n)
  BY <1>3, SavesDrained DEF Chains
<1>5. Lineage(Front(snapshot)) /\ Elements(Front(snapshot)) \subseteq Elements(snapshot)
  BY <1>4, FrontFacts, FrontLineage DEF Agreement, Lineages
<1>6. \A m \in Nodes : \A blocks \in Chains(m)' :
        blocks \in Chains(m) \/ (m = n /\ blocks = Front(snapshot))
  BY <1>1, <1>3, ChainsDrained
<1>7. \A m \in Nodes : m # n => chain'[m] = chain[m] /\ Chains(m)' = Chains(m)
  <2>1. \A m \in Nodes : m # n => chain'[m] = chain[m] /\ disk'[m] = disk[m] /\ saves'[m] = saves[m]
    BY <1>1 DEF TypeInv, TypeOK
  <2> QED BY <2>1 DEF Chains
<1>8. \A blocks \in Chains(n)' :
        Lineage(blocks) /\ \A b \in Elements(blocks) : \E old \in Chains(n) : b \in Elements(old)
  BY <1>4, <1>5, <1>6 DEF Agreement, Lineages
<1> QED BY <1>2, <1>7, <1>8, RolledBack

LEMMA CrashAgrees ==
  ASSUME TypeInv, Agreement, NEW n \in Nodes, Crash(n), ~forgotten'
  PROVE  Agreement'
<1>1. CASE UNCHANGED <<chain, saves>>
  BY <1>1, BlocksUnchanged DEF Crash
<1>2. CASE /\ chain' = [chain EXCEPT ![n] = disk[n]]
           /\ saves' = [saves EXCEPT ![n] = <<>>]
           /\ forgotten' = (forgotten \/ \E block \in OwnLost(n, disk[n]) : Exists(block)')
  <2>1. disk' = disk /\ relays' = relays
    BY DEF Crash
  <2>2. chain'[n] = disk[n] /\ saves'[n] = <<>>
    BY <1>2 DEF TypeInv, TypeOK
  <2>3. \A m \in Nodes : m # n => chain'[m] = chain[m] /\ saves'[m] = saves[m]
    BY <1>2 DEF TypeInv, TypeOK
  <2>4. \A m \in Nodes : m # n => chain'[m] = chain[m] /\ Chains(m)' = Chains(m)
    BY <2>1, <2>3 DEF Chains
  <2>5. \A blocks \in Chains(n)' : blocks = disk[n]
    BY <2>1, <2>2 DEF Chains
  <2>6. disk[n] \in Chains(n) /\ Lineage(disk[n])
    BY DEF Agreement, Lineages, Chains
  <2>7. \A b \in OwnLost(n, chain'[n]) : ~Exists(b)'
    BY <1>2, <2>2
  <2> QED BY <2>1, <2>4, <2>5, <2>6, <2>7, RolledBack
<1> QED BY <1>1, <1>2 DEF Crash

LEMMA ReceiveAgrees ==
  ASSUME TypeInv, Agreement, NEW relay \in relays, ReceiveBlock(relay)
  PROVE  Agreement'
<1>1. /\ relay.block \in Blocks /\ relay.to \in Nodes /\ relay.from \in Nodes
      /\ relay.ttl - 1 \in Nat
  BY DEF TypeInv, TypeOK, Filled, Relays
<1>2. disk' = disk /\ relays' \subseteq relays
  BY DEF ReceiveBlock
<1>3. CASE Extends(relay.block, chain[relay.to])
  <2>1. Commit(relay.to, relay.block, "relayed", relay.ttl - 1, relay.from)
    BY <1>3 DEF ReceiveBlock
  <2>2. PICK block \in Blocks : block = relay.block
    BY <1>1
  <2>3. Exists(block)
    BY <2>2 DEF Exists
  <2> QED BY <1>1, <1>2, <1>3, <2>1, <2>2, <2>3, AcceptAgrees
<1>4. CASE ~Extends(relay.block, chain[relay.to])
  BY <1>2, <1>4, BlocksUnchanged DEF ReceiveBlock
<1> QED BY <1>3, <1>4

LEMMA FetchAgrees ==
  ASSUME TypeInv, Agreement, NEW n \in Nodes, SyncFetch(n)
  PROVE  Agreement'
<1>1. disk' = disk /\ relays' = relays
  BY DEF SyncFetch
<1>2. ASSUME NEW block \in Fetched(n), Extends(block, chain[n]),
             Commit(n, block, "synced", 0, NoNode)
      PROVE  Agreement'
  <2>1. /\ syncs[n].peer \in Nodes /\ block \in Blocks
        /\ syncs[n].at + 1 \in 2 .. Len(chain[syncs[n].peer])
        /\ block = chain[syncs[n].peer][syncs[n].at + 1]
    BY NetworkAssumption, FetchedBlock DEF SyncFetch
  <2>2. block \in Elements(chain[syncs[n].peer])
    <3>1. DOMAIN chain[syncs[n].peer] = 1 .. Len(chain[syncs[n].peer])
      BY <2>1, BlocksTyped
    <3>2. syncs[n].at + 1 \in DOMAIN chain[syncs[n].peer]
      BY <2>1, <3>1
    <3> QED BY <2>1, <3>2 DEF Elements
  <2>3. Exists(block)
    BY <2>1, <2>2, ChainHeld
  <2> QED BY <1>1, <1>2, <2>1, <2>3, AcceptAgrees
<1>3. CASE UNCHANGED <<chain, saves>>
  BY <1>1, <1>3, BlocksUnchanged
<1> QED BY <1>2, <1>3 DEF SyncFetch

LEMMA InitAgrees == Init => Agreement
<1> SUFFICES ASSUME Init PROVE Agreement
  OBVIOUS
<1>1. PICK first \in Nodes : chain = [n \in Nodes |-> <<Genesis(first)>>]
  BY DEF Init
<1> DEFINE genesis == <<Genesis(first)>>
<1>2. Elements(genesis) = {Genesis(first)} /\ Lineage(genesis)
  BY DEF Elements, Lineage, Genesis
<1>3. /\ \A n \in Nodes : chain[n] = genesis /\ disk[n] = genesis /\ saves[n] = <<>>
      /\ relays = {}
  BY <1>1 DEF Init
<1> HIDE DEF genesis
<1>4. \A n \in Nodes : Chains(n) = {genesis}
  BY <1>3 DEF Chains
<1>5. \A b : Exists(b) => b = Genesis(first)
  BY <1>2, <1>3, <1>4 DEF Exists
<1>6. Lineages
  BY <1>2, <1>4 DEF Lineages
<1>7. Remembered
  BY <1>2, <1>3, <1>5 DEF Remembered, Blocks
<1>8. OnePerHeight
  BY <1>5 DEF OnePerHeight
<1> QED BY <1>6, <1>7, <1>8 DEF Agreement

LEMMA StepAgrees ==
  ASSUME Forced = {}, Inv, [Next]_vars
  PROVE  Inv'
<1>1. TypeInv'
  BY StepTyped DEF Inv
<1>2. CASE forgotten
  <2>1. forgotten'
    BY <1>2 DEF Next, vars, ProduceBlock, SaveEnds, SaveFails, Crash, StartSync, SyncHealth, SyncCompares,
                SyncFetch, SyncEnds, SyncFails, ReceiveBlock, LoseRelay
  <2> QED BY <1>1, <2>1 DEF Inv
<1>3. CASE ~forgotten
  <2> SUFFICES ASSUME ~forgotten' PROVE Agreement'
    BY <1>1 DEF Inv
  <2>0. TypeInv /\ Agreement
    BY <1>3 DEF Inv
  <2>1. ASSUME NEW n \in Nodes, ProduceBlock(n)
        PROVE  Agreement'
    BY <2>0, <2>1, ProduceAgrees
  <2>2. ASSUME NEW n \in Nodes, SaveEnds(n)
        PROVE  Agreement'
    BY <2>0, <2>2, SaveEndsAgrees
  <2>3. ASSUME NEW n \in Nodes, SaveFails(n)
        PROVE  Agreement'
    BY <2>0, <2>3, SaveFailsAgrees
  <2>4. ASSUME NEW n \in Nodes, Crash(n)
        PROVE  Agreement'
    BY <2>0, <2>4, CrashAgrees
  <2>5. ASSUME NEW n \in Nodes, SyncFetch(n)
        PROVE  Agreement'
    BY <2>0, <2>5, FetchAgrees
  <2>6. ASSUME NEW n \in Nodes,
               StartSync(n) \/ SyncHealth(n) \/ SyncCompares(n) \/ SyncEnds(n) \/ SyncFails(n)
        PROVE  Agreement'
    <3>1. UNCHANGED <<chain, disk, saves>> /\ relays' \subseteq relays
      BY <2>6 DEF StartSync, SyncHealth, SyncCompares, SyncEnds, SyncFails
    <3> QED BY <2>0, <3>1, BlocksUnchanged
  <2>7. ASSUME NEW relay \in relays, ReceiveBlock(relay)
        PROVE  Agreement'
    BY <2>0, <2>7, ReceiveAgrees
  <2>8. ASSUME NEW relay \in relays, LoseRelay(relay)
        PROVE  Agreement'
    <3>1. UNCHANGED <<chain, disk, saves>> /\ relays' \subseteq relays
      BY <2>8 DEF LoseRelay
    <3> QED BY <2>0, <3>1, BlocksUnchanged
  <2>9. CASE UNCHANGED vars
    <3>1. UNCHANGED <<chain, disk, saves>> /\ relays' \subseteq relays
      BY <2>9 DEF vars
    <3> QED BY <2>0, <3>1, BlocksUnchanged
  <2> QED BY <2>1, <2>2, <2>3, <2>4, <2>5, <2>6, <2>7, <2>8, <2>9 DEF Next
<1> QED BY <1>2, <1>3

LEMMA InvAgrees == Inv => ChainsAgree
<1> SUFFICES ASSUME TypeInv, Agreement, NEW n \in Nodes, NEW m \in Nodes,
                    NEW i \in DOMAIN chain[n] \cap DOMAIN chain[m]
             PROVE  chain[n][i] = chain[m][i]
  BY DEF Inv, ChainsAgree
<1>1. \A k \in {n, m} : /\ chain[k] \in Seq(Blocks) /\ DOMAIN chain[k] = 1 .. Len(chain[k])
                        /\ Lineage(chain[k])
  BY BlocksTyped DEF Agreement, Lineages, Chains
<1>2. \A k \in {n, m} : chain[k][i] \in Blocks /\ chain[k][i].height = i - 1 /\ Exists(chain[k][i])
  <2> SUFFICES ASSUME NEW k \in {n, m}
               PROVE  chain[k][i] \in Blocks /\ chain[k][i].height = i - 1 /\ Exists(chain[k][i])
    OBVIOUS
  <2>1. chain[k][i] \in Blocks /\ chain[k][i].height = i - 1
    <3>1. i \in 1 .. Len(chain[k])
      BY <1>1
    <3> QED BY <1>1, <3>1 DEF Lineage
  <2>2. chain[k][i] \in Elements(chain[k])
    BY DEF Elements
  <2> QED BY <2>1, <2>2, ChainHeld
<1> QED BY <1>2 DEF Agreement, OnePerHeight

\* In any network where only the selected validators produce, no two nodes
\* hold different blocks of one height, unless a maker forgot one of its own
\* that still existed: whatever is relayed, lost or fetched early, in whatever
\* order saves end or fail, and whatever a restart finds on disk.
THEOREM NetworkChainsAgree ==
  ASSUME Forced = {}
  PROVE  Spec => []ChainsAgree
<1>1. Init => Inv
  BY InitTyped, InitAgrees DEF Inv
<1>2. Inv /\ [Next]_vars => Inv'
  BY StepAgrees
<1>3. Inv => ChainsAgree
  BY InvAgrees
<1> QED BY <1>1, <1>2, <1>3, PTL DEF Spec

-----------------------------------------------------------------------------
(***************************************************************************)
(* What a record says of the answers that its peer gave: a streak counts   *)
(* them until an answer from another chain, whatever counts for three      *)
(* leaves its mark in the record, and the mark has no other reason than    *)
(* the answers or the score.                                               *)
(***************************************************************************)
Earned(record, count) ==
  /\ record.status = "unlisted" => record = Unlisted /\ count = 0
  /\ count = 3 => record.quarantined
  /\ record.streak = count \/ count = 3
  /\ record.status = "incompatible" => count = 3
  /\ record.quarantined => count = 3 \/ record.score <= PEER_QUARANTINE_SCORE

AllEarned == \A entry \in Entries : Earned(peerDirectory[entry], strikes[entry])

PeerInv == PeerTypeOK /\ AllEarned

-----------------------------------------------------------------------------
(* Records. *)

LEMMA Bounds == /\ LowestScore \in Int /\ LowestScore <= -20 /\ HighestScore \in Nat
                /\ PEER_QUARANTINE_SCORE = -20 /\ PEER_QUARANTINE_FAILURE_STREAK = 3
  BY PeerHealthAssumption DEF PEER_QUARANTINE_SCORE, PEER_QUARANTINE_FAILURE_STREAK

LEMMA ClampPeerScore ==
  ASSUME NEW score \in Int
  PROVE  /\ clampPeerScore(score) \in LowestScore .. HighestScore
         /\ score <= -20 => clampPeerScore(score) <= -20
  BY Bounds DEF clampPeerScore

LEMMA FreshRecords ==
  /\ Unlisted \in Records /\ Registered \in Records
  /\ Earned(Unlisted, 0) /\ Earned(Registered, 0)
<1>1. 0 \in LowestScore .. HighestScore
  BY Bounds
<1>2. Unlisted \in Records
  BY <1>1 DEF Unlisted, Records, Statuses
<1>3. Registered \in Records
  BY <1>2 DEF Registered, Records, Statuses
<1>4. Earned(Unlisted, 0)
  BY DEF Unlisted, Earned
<1>5. Registered.streak = 0 /\ Registered.status = "registered" /\ Registered.quarantined = FALSE
  BY DEF Registered, Unlisted
<1>6. Earned(Registered, 0)
  BY <1>5 DEF Earned
<1> QED BY <1>2, <1>3, <1>4, <1>6

LEMMA PenaltyBounds ==
  ASSUME NEW streak \in Nat
  PROVE  Penalty(streak) \in Nat
  BY DEF Penalty

\* A good answer makes a record of its own.
LEMMA SuccessEarned ==
  ASSUME NEW directory \in [Entries -> Records], NEW peer \in Entries,
         NEW found \in 0 .. 2, NEW imported \in 0 .. 7
  PROVE  LET record == RecordPeerSuccess(directory, peer, found, imported)[peer]
         IN  record \in Records /\ Earned(record, 0)
<1> DEFINE score == clampPeerScore(directory[peer].score + 2 + imported + found)
           record == RecordPeerSuccess(directory, peer, found, imported)[peer]
<1>1. directory[peer].score \in Int
  BY Bounds DEF Records
<1>2. score \in LowestScore .. HighestScore
  BY <1>1, ClampPeerScore
<1>3. record = [score |-> score, streak |-> 0, status |-> "reachable", quarantined |-> FALSE]
  BY DEF RecordPeerSuccess
<1> HIDE DEF score, record
<1> QED BY <1>2, <1>3 DEF Records, Statuses, Earned, record

\* A failure counts, and marks the record when it is the third or comes from
\* another chain.
LEMMA FailureEarned ==
  ASSUME NEW directory \in [Entries -> Records], NEW peer \in Entries, NEW count \in 0 .. 3,
         NEW status \in {"failed", "incompatible"}, Earned(directory[peer], count)
  PROVE  LET record == RecordPeerFailure(directory, peer, status)[peer]
         IN  /\ record \in Records
             /\ Earned(record, IF status = "incompatible" \/ count = 3 THEN 3 ELSE count + 1)
<1> DEFINE old == directory[peer]
           streak == old.streak + 1
           score == clampPeerScore(old.score - Penalty(streak))
           quarantine == \/ status = "incompatible"
                         \/ streak >= PEER_QUARANTINE_FAILURE_STREAK
                         \/ score <= PEER_QUARANTINE_SCORE
           record == RecordPeerFailure(directory, peer, status)[peer]
           next == IF status = "incompatible" \/ count = 3 THEN 3 ELSE count + 1
<1>1. old \in Records /\ old.score \in Int /\ old.streak \in Nat /\ streak \in Nat
  BY Bounds DEF Records
<1>2. score \in LowestScore .. HighestScore /\ (old.score <= -20 => score <= -20)
  BY <1>1, ClampPeerScore, PenaltyBounds
<1>3. record = [score |-> score, streak |-> streak,
                status |-> IF quarantine /\ status = "failed" THEN "quarantined" ELSE status,
                quarantined |-> old.quarantined \/ quarantine]
  BY DEF RecordPeerFailure
<1>4. old.quarantined \in BOOLEAN /\ quarantine \in BOOLEAN
  BY <1>1 DEF Records
<1>5. record \in Records
  BY <1>1, <1>2, <1>3, <1>4 DEF Records, Statuses
<1>6. /\ count = 3 => old.quarantined
      /\ old.streak = count \/ count = 3
      /\ old.quarantined => count = 3 \/ old.score <= -20
  BY Bounds DEF Earned
<1>7. streak = next \/ next = 3
  BY <1>6
<1>8. next = 3 => old.quarantined \/ quarantine
  BY <1>6, Bounds
<1>9. old.quarantined \/ quarantine => next = 3 \/ score <= -20
  BY <1>1, <1>2, <1>6, Bounds
<1>10. status = "incompatible" => next = 3
  OBVIOUS
<1> HIDE DEF record, next, score, quarantine, streak
<1>11. Earned(record, next)
  BY <1>3, <1>4, <1>7, <1>8, <1>9, <1>10, Bounds DEF Earned
<1> QED BY <1>5, <1>11 DEF record, next

LEMMA RestoredEarned ==
  ASSUME NEW directory \in [Entries -> Records], NEW entry \in Entries
  PROVE  LET record == RestoredPeer(directory, entry)[entry]
         IN  record \in Records /\ Earned(record, 0)
<1> DEFINE record == RestoredPeer(directory, entry)[entry]
           old == directory[entry]
<1>1. old.score \in LowestScore .. HighestScore
  BY DEF Records
<1>2. record = [score |-> IF old.score > 0 THEN old.score ELSE 0, streak |-> 0,
                status |-> "registered", quarantined |-> FALSE]
  BY DEF RestoredPeer
<1> HIDE DEF record
<1> QED BY <1>1, <1>2, Bounds DEF Records, Statuses, Earned, record

-----------------------------------------------------------------------------
(* Directories. *)

DirectoryOK(directory, counts) ==
  /\ directory \in [Entries -> Records]
  /\ counts \in [Entries -> 0 .. 3]
  /\ \A entry \in Entries : Earned(directory[entry], counts[entry])

LEMMA InvDirectory ==
  PeerInv <=> /\ DirectoryOK(peerDirectory, strikes)
          /\ calls \in [Calls -> Requests]
          /\ failures \in Nat
  BY DEF PeerInv, PeerTypeOK, AllEarned, DirectoryOK

LEMMA AddedOK ==
  ASSUME NEW directory, NEW counts, DirectoryOK(directory, counts), NEW entries
  PROVE  DirectoryOK(AddPeers(directory, entries), counts)
<1>1. AddPeers(directory, entries) \in [Entries -> Records]
  BY FreshRecords DEF AddPeers, DirectoryOK
<1>2. ASSUME NEW entry \in Entries
      PROVE  Earned(AddPeers(directory, entries)[entry], counts[entry])
  <2>1. CASE entry \in entries /\ ~ Listed(directory, entry)
    <3>1. counts[entry] = 0
      BY <2>1 DEF Listed, DirectoryOK, Earned
    <3> QED BY <2>1, <3>1, FreshRecords DEF AddPeers
  <2>2. CASE ~ (entry \in entries /\ ~ Listed(directory, entry))
    BY <2>2 DEF AddPeers, DirectoryOK
  <2> QED BY <2>1, <2>2
<1> QED BY <1>1, <1>2 DEF DirectoryOK

\* A peer that was seen keeps what its record says of its answers.
LEMMA SeenOK ==
  ASSUME NEW directory, NEW counts, DirectoryOK(directory, counts), NEW peer \in Entries
  PROVE  DirectoryOK(NotePeerSeen(directory, peer), counts)
<1> DEFINE added == AddPeers(directory, {peer})
           seen == NotePeerSeen(directory, peer)
<1>1. DirectoryOK(added, counts)
  BY AddedOK
<1>2. seen = [added EXCEPT ![peer] = [@ EXCEPT !.status = "reachable"]]
  BY DEF NotePeerSeen
<1> HIDE DEF added, seen
<1>3. seen \in [Entries -> Records]
  BY <1>1, <1>2 DEF DirectoryOK, Records, Statuses
<1>4. Earned(seen[peer], counts[peer])
  <2>1. /\ added[peer] \in Records /\ Earned(added[peer], counts[peer])
        /\ seen[peer] = [added[peer] EXCEPT !.status = "reachable"]
    BY <1>1, <1>2 DEF DirectoryOK
  <2> QED BY <2>1 DEF Earned, Records
<1>5. \A entry \in Entries \ {peer} : seen[entry] = added[entry]
  BY <1>1, <1>2 DEF DirectoryOK
<1> QED BY <1>1, <1>3, <1>4, <1>5 DEF DirectoryOK, seen

LEMMA SuccessOK ==
  ASSUME NEW directory, NEW counts, DirectoryOK(directory, counts), NEW peer \in Entries,
         NEW found \in 0 .. 2, NEW imported \in 0 .. 7
  PROVE  DirectoryOK(RecordPeerSuccess(directory, peer, found, imported), [counts EXCEPT ![peer] = 0])
<1> DEFINE next == RecordPeerSuccess(directory, peer, found, imported)
<1>1. directory \in [Entries -> Records]
  BY DEF DirectoryOK
<1>2. next[peer] \in Records /\ Earned(next[peer], 0)
  BY <1>1, SuccessEarned
<1>3. DOMAIN next = Entries /\ \A entry \in Entries \ {peer} : next[entry] = directory[entry]
  BY <1>1 DEF RecordPeerSuccess
<1>4. next = [entry \in Entries |-> next[entry]]
  BY <1>1 DEF RecordPeerSuccess
<1> HIDE DEF next
<1> QED BY <1>1, <1>2, <1>3, <1>4 DEF DirectoryOK, next

LEMMA FailureOK ==
  ASSUME NEW directory, NEW counts, DirectoryOK(directory, counts), NEW peer \in Entries,
         NEW status \in {"failed", "incompatible"}
  PROVE  DirectoryOK(RecordPeerFailure(directory, peer, status),
                     [counts EXCEPT ![peer] = IF status = "incompatible" \/ @ = 3 THEN 3 ELSE @ + 1])
<1> DEFINE next == RecordPeerFailure(directory, peer, status)
           count == IF status = "incompatible" \/ counts[peer] = 3 THEN 3 ELSE counts[peer] + 1
<1>1. directory \in [Entries -> Records] /\ counts[peer] \in 0 .. 3 /\ Earned(directory[peer], counts[peer])
  BY DEF DirectoryOK
<1>2. next[peer] \in Records /\ Earned(next[peer], count)
  BY <1>1, FailureEarned
<1>3. \A entry \in Entries \ {peer} : next[entry] = directory[entry]
  BY <1>1 DEF RecordPeerFailure
<1>4. next = [entry \in Entries |-> next[entry]]
  BY <1>1 DEF RecordPeerFailure
<1>5. count \in 0 .. 3
  BY <1>1
<1>6. [counts EXCEPT ![peer] = IF status = "incompatible" \/ @ = 3 THEN 3 ELSE @ + 1]
        = [counts EXCEPT ![peer] = count]
  OBVIOUS
<1> HIDE DEF next, count
<1>7. DirectoryOK(next, [counts EXCEPT ![peer] = count])
  BY <1>1, <1>2, <1>3, <1>4, <1>5 DEF DirectoryOK
<1> QED BY <1>6, <1>7 DEF next

LEMMA RestoredOK ==
  ASSUME NEW directory, NEW counts, DirectoryOK(directory, counts), NEW entry \in Entries
  PROVE  DirectoryOK(RestoredPeer(directory, entry), [counts EXCEPT ![entry] = 0])
<1> DEFINE next == RestoredPeer(directory, entry)
<1>1. directory \in [Entries -> Records]
  BY DEF DirectoryOK
<1>2. next[entry] \in Records /\ Earned(next[entry], 0)
  BY <1>1, RestoredEarned
<1>3. \A other \in Entries \ {entry} : next[other] = directory[other]
  BY <1>1 DEF RestoredPeer
<1>4. next = [x \in Entries |-> next[x]]
  BY <1>1 DEF RestoredPeer
<1> HIDE DEF next
<1> QED BY <1>1, <1>2, <1>3, <1>4 DEF DirectoryOK, next

LEMMA RefilledOK ==
  ASSUME NEW entries
  PROVE  DirectoryOK(Refilled(entries), [entry \in Entries |-> 0])
  BY FreshRecords DEF DirectoryOK, Refilled

-----------------------------------------------------------------------------
(* Calls. *)

LEMMA NoRequestType == NoRequest \in Requests
  BY DEF NoRequest, Requests

LEMMA BeginTypes ==
  ASSUME calls \in [Calls -> Requests], NEW call \in Calls,
         NEW kind \in {"probe", "sync", "relay"}, NEW targets \in SUBSET Entries,
         Begin(call, kind, targets)
  PROVE  calls' \in [Calls -> Requests]
<1>1. [NoRequest EXCEPT !.kind = kind, !.left = targets] \in Requests
  BY NoRequestType DEF NoRequest, Requests
<1> QED BY <1>1, NoRequestType DEF Begin

LEMMA DoneTypes ==
  ASSUME calls \in [Calls -> Requests], NEW call \in Calls, NEW target, Done(call, target)
  PROVE  calls' \in [Calls -> Requests]
<1> DEFINE rest == calls[call].left \ {target}
           next == [NoRequest EXCEPT !.kind = calls[call].kind, !.left = rest]
<1>1. calls[call].left \subseteq Entries /\ calls[call].kind \in {"none", "probe", "sync", "relay"}
  BY DEF Requests
<1>2. next \in Requests
  BY <1>1, NoRequestType DEF Requests
<1>3. calls' = [calls EXCEPT ![call] = IF rest = {} THEN NoRequest ELSE next]
  BY DEF Done
<1> HIDE DEF next
<1> QED BY <1>2, <1>3, NoRequestType

LEMMA BroadcastTypes ==
  ASSUME NEW directory, NEW excluded, NEW targets \in BroadcastPeers(directory, excluded)
  PROVE  targets \in SUBSET Entries
  BY DEF BroadcastPeers, Entries, Peers

LEMMA GoodKeeps ==
  ASSUME PeerInv, NEW peer \in Entries, NEW found \in 0 .. 2, NEW imported \in 0 .. 7,
         Good(peer, found, imported), calls' \in [Calls -> Requests]
  PROVE  PeerInv'
<1>1. DirectoryOK(peerDirectory, strikes) /\ failures \in Nat
  BY InvDirectory
<1>2. DirectoryOK(peerDirectory', strikes') /\ failures' \in Nat
  BY <1>1, SuccessOK DEF Good
<1> QED BY <1>2 DEF PeerInv, PeerTypeOK, AllEarned, DirectoryOK

LEMMA BadKeeps ==
  ASSUME PeerInv, NEW peer \in Entries, NEW status \in {"failed", "incompatible"},
         Bad(peer, status), calls' \in [Calls -> Requests]
  PROVE  PeerInv'
<1>1. DirectoryOK(peerDirectory, strikes) /\ failures \in Nat
  BY InvDirectory
<1>2. DirectoryOK(peerDirectory', strikes')
  BY <1>1, FailureOK DEF Bad
<1>3. failures' \in Nat
  BY <1>1 DEF Bad
<1> QED BY <1>2, <1>3 DEF PeerInv, PeerTypeOK, AllEarned, DirectoryOK

LEMMA AnnouncedKeeps ==
  ASSUME PeerInv, NEW call \in Calls, NEW entries, NEW excluded, NEW relayed,
         Announced(call, entries, excluded, relayed)
  PROVE  PeerInv'
<1>1. DirectoryOK(peerDirectory, strikes) /\ failures \in Nat /\ calls \in [Calls -> Requests]
  BY InvDirectory
<1>2. DirectoryOK(peerDirectory', strikes') /\ failures' \in Nat
  BY <1>1, AddedOK DEF Announced
<1>3. calls' \in [Calls -> Requests]
  <2>1. CASE UNCHANGED calls
    BY <1>1, <2>1
  <2>2. CASE \E targets \in BroadcastPeers(peerDirectory', excluded) : Begin(call, "relay", targets)
    BY <1>1, <2>2, BroadcastTypes, BeginTypes
  <2> QED BY <2>1, <2>2 DEF Announced
<1> QED BY <1>2, <1>3 DEF PeerInv, PeerTypeOK, AllEarned, DirectoryOK

\* A step that leaves the directory alone.
LEMMA QuietKeeps ==
  ASSUME PeerInv, UNCHANGED <<peerDirectory, strikes, failures>>, calls' \in [Calls -> Requests]
  PROVE  PeerInv'
  BY DEF PeerInv, PeerTypeOK, AllEarned

LEMMA RespondKeeps ==
  ASSUME PeerInv, NEW call \in Calls, Respond(call)
  PROVE  PeerInv'
<1>1. calls \in [Calls -> Requests] /\ DirectoryOK(peerDirectory, strikes) /\ failures \in Nat
  BY InvDirectory
<1>2. HttpPeers \subseteq Entries /\ Peers \subseteq Entries
  BY DEF Entries, Peers
<1>3. ASSUME NEW peer \in HttpPeers, RelayAnswered(call, peer) PROVE PeerInv'
  <2>1. calls' \in [Calls -> Requests]
    BY <1>1, <1>3, DoneTypes DEF RelayAnswered
  <2>2. peer \in Entries
    BY <1>2
  <2>3. CASE Good(peer, 0, 0)
    BY <2>1, <2>2, <2>3, GoodKeeps
  <2>4. CASE Bad(peer, "failed")
    BY <2>1, <2>2, <2>4, BadKeeps
  <2> QED BY <1>3, <2>3, <2>4 DEF RelayAnswered
<1>4. ASSUME NEW peer \in HttpPeers, PeerSyncHealth(call, peer) PROVE PeerInv'
  <2>1. [calls[call] EXCEPT !.at = peer] \in Requests
    BY <1>1 DEF Requests
  <2>2. calls' \in [Calls -> Requests]
    BY <1>1, <1>4, <2>1 DEF PeerSyncHealth
  <2>3. DirectoryOK(peerDirectory', strikes') /\ failures' \in Nat
    BY <1>1, <1>2, <1>4, SeenOK DEF PeerSyncHealth
  <2> QED BY <2>2, <2>3 DEF PeerInv, PeerTypeOK, AllEarned, DirectoryOK
<1>5. ASSUME NEW peer \in HttpPeers, PeerSyncFails(call, peer) PROVE PeerInv'
  <2>1. calls' \in [Calls -> Requests]
    BY <1>1, <1>5, DoneTypes DEF PeerSyncFails
  <2>2. peer \in Entries
    BY <1>2
  <2> QED BY <1>5, <2>1, <2>2, BadKeeps DEF PeerSyncFails
<1>6. ASSUME NEW target \in Entries, ProbePeer(call, target) PROVE PeerInv'
  <2>1. CASE Done(call, target) /\ Good(target, 0, 0)
    BY <1>1, <2>1, DoneTypes, GoodKeeps
  <2>2. CASE Done(call, target) /\ \E status \in {"failed", "incompatible"} : Bad(target, status)
    BY <1>1, <2>2, DoneTypes, BadKeeps
  <2>3. CASE /\ calls' = [calls EXCEPT ![call] = NoRequest]
             /\ UNCHANGED <<peerDirectory, strikes, failures>>
    BY <1>1, <2>3, NoRequestType, QuietKeeps
  <2> QED BY <1>6, <2>1, <2>2, <2>3 DEF ProbePeer
<1>7. ASSUME NEW peers \in SUBSET Peers, SyncDiscovers(call, peers) PROVE PeerInv'
  <2> DEFINE discovered == {peer \in peers \ {calls[call].at} : ~Listed(peerDirectory, peer)}
             count == Cardinality(discovered)
             found == IF count < 2 THEN count ELSE 2
             request == [calls[call] EXCEPT !.stage = "blocks", !.found = found]
  <2>1. IsFiniteSet(Peers)
    BY PeerHealthAssumption, FS_Union DEF Peers
  <2>2. count \in Nat
    BY <2>1, FS_Subset, FS_CardinalityType
  <2>3. peerDirectory' = AddPeers(peerDirectory, discovered) /\ UNCHANGED <<strikes, failures>>
        /\ calls' = [calls EXCEPT ![call] = request]
    BY <1>7 DEF SyncDiscovers
  <2> HIDE DEF count
  <2>4. found \in 0 .. 2
    BY <2>2
  <2>5. calls[call] \in Requests
    BY <1>1
  <2> HIDE DEF found
  <2>6. request \in Requests
    BY <2>4, <2>5 DEF Requests
  <2> HIDE DEF request, discovered
  <2>7. calls' \in [Calls -> Requests]
    BY <1>1, <2>3, <2>6
  <2>8. DirectoryOK(peerDirectory', strikes') /\ failures' \in Nat
    BY <1>1, <2>3, AddedOK
  <2> QED BY <2>7, <2>8 DEF PeerInv, PeerTypeOK, AllEarned, DirectoryOK
<1>8. CASE SyncSucceeds(call)
  <2>1. calls' \in [Calls -> Requests]
    BY <1>1, <1>8, DoneTypes DEF SyncSucceeds
  <2>2. calls[call].at \in HttpPeers /\ calls[call].found \in 0 .. 2
    BY <1>1, <1>8 DEF SyncSucceeds, Requests
  <2>3. PICK imported \in Imports : Good(calls[call].at, calls[call].found, imported)
    BY <1>8 DEF SyncSucceeds
  <2>4. imported \in 0 .. 7
    BY PeerHealthAssumption
  <2> QED BY <1>2, <2>1, <2>2, <2>3, <2>4, GoodKeeps
<1> QED BY <1>3, <1>4, <1>5, <1>6, <1>7, <1>8 DEF Respond

-----------------------------------------------------------------------------
LEMMA InitInv == PeerInit => PeerInv
<1> SUFFICES ASSUME PeerInit PROVE PeerInv
  OBVIOUS
<1>1. DirectoryOK(peerDirectory, strikes)
  BY RefilledOK DEF PeerInit
<1>2. calls \in [Calls -> Requests] /\ failures \in Nat
  BY NoRequestType DEF PeerInit
<1> QED BY <1>1, <1>2, InvDirectory

LEMMA NextInv == PeerInv /\ [PeerNext]_peerVars => PeerInv'
<1> SUFFICES ASSUME PeerInv, [PeerNext]_peerVars PROVE PeerInv'
  OBVIOUS
<1>1. calls \in [Calls -> Requests] /\ DirectoryOK(peerDirectory, strikes) /\ failures \in Nat
  BY InvDirectory
<1>2. HttpPeers \subseteq Entries /\ Peers \subseteq Entries /\ SocketPeers \subseteq Entries
      /\ Strangers \subseteq Entries /\ Others \subseteq Calls /\ Timer \in Calls
  BY DEF Entries, Peers, Calls
<1>3. ASSUME NEW call \in Calls, Respond(call) PROVE PeerInv'
  BY <1>3, RespondKeeps
<1>4. ASSUME NEW call \in Others, NEW peer \in Peers, AnnouncePeer(call, peer) PROVE PeerInv'
  BY <1>2, <1>4, AnnouncedKeeps DEF AnnouncePeer
<1>5. ASSUME NEW call \in Others, NEW source \in Peers, NEW peers \in SUBSET Peers,
             ReceivePeerAnnouncements(call, source, peers)
      PROVE  PeerInv'
  BY <1>2, <1>5, AnnouncedKeeps DEF ReceivePeerAnnouncements
<1>6. ASSUME NEW call \in Others, NEW excluded, BroadcastJson(call, excluded) PROVE PeerInv'
  <2>1. PICK targets \in BroadcastPeers(peerDirectory, excluded) : Begin(call, "relay", targets)
    BY <1>6 DEF BroadcastJson
  <2>2. targets \in SUBSET Entries /\ call \in Calls
    BY <1>2, BroadcastTypes
  <2>3. calls' \in [Calls -> Requests]
    BY <1>1, <2>1, <2>2, BeginTypes
  <2> QED BY <1>6, <2>3, QuietKeeps DEF BroadcastJson
<1>7. ASSUME NEW call \in Others, ProbePeers(call) PROVE PeerInv'
  <2>1. PICK targets \in ProbeTargets : Begin(call, "probe", targets)
    BY <1>7 DEF ProbePeers
  <2>2. targets \in SUBSET Entries /\ call \in Calls
    BY <1>2 DEF ProbeTargets
  <2>3. calls' \in [Calls -> Requests]
    BY <1>1, <2>1, <2>2, BeginTypes
  <2> QED BY <1>7, <2>3, QuietKeeps DEF ProbePeers
<1>8. ASSUME NEW call \in Calls, StartPeerSync(call) PROVE PeerInv'
  <2>1. SyncTargets \in SUBSET Entries
    BY <1>2 DEF SyncTargets
  <2>2. calls' \in [Calls -> Requests]
    BY <1>1, <1>8, <2>1, BeginTypes DEF StartPeerSync
  <2> QED BY <1>8, <2>2, QuietKeeps DEF StartPeerSync
<1>9. ASSUME NEW peer \in SocketPeers, SocketSays(peer) PROVE PeerInv'
  <2>1. calls' \in [Calls -> Requests] /\ peer \in Entries
    BY <1>1, <1>2, <1>9 DEF SocketSays
  <2>2. CASE Good(peer, 0, 0)
    BY <2>1, <2>2, GoodKeeps
  <2>3. CASE Bad(peer, "failed")
    BY <2>1, <2>3, BadKeeps
  <2> QED BY <1>9, <2>2, <2>3 DEF SocketSays
<1>10. ASSUME NEW peer \in SocketPeers, NEW url \in HttpPeers, Handshake(peer, url) PROVE PeerInv'
  <2> DEFINE added == AddPeers(peerDirectory, {peer, url})
  <2>1. DirectoryOK(added, strikes) /\ peer \in Entries
    BY <1>1, <1>2, AddedOK
  <2>2. DirectoryOK(peerDirectory', strikes')
    <3> HIDE DEF added
    <3>1. DirectoryOK(RecordPeerSuccess(added, peer, 0, 0), [strikes EXCEPT ![peer] = 0])
      BY <2>1, SuccessOK
    <3> QED BY <1>10, <3>1 DEF Handshake, added
  <2> QED BY <1>1, <1>10, <2>2 DEF Handshake, PeerInv, PeerTypeOK, AllEarned, DirectoryOK
<1>11. ASSUME NEW entry \in Entries, RestorePeer(entry) PROVE PeerInv'
  <2>1. DirectoryOK(peerDirectory', strikes')
    BY <1>1, <1>11, RestoredOK DEF RestorePeer
  <2> QED BY <1>1, <1>11, <2>1 DEF RestorePeer, PeerInv, PeerTypeOK, AllEarned, DirectoryOK
<1>12. ASSUME NEW stranger \in Strangers, StrangerFails(stranger) PROVE PeerInv'
  <2>1. calls' \in [Calls -> Requests] /\ stranger \in Entries
    BY <1>1, <1>2, <1>12 DEF StrangerFails
  <2> QED BY <1>12, <2>1, BadKeeps DEF StrangerFails
<1>13. ASSUME NEW entries \in SUBSET Entries, ImportSnapshot(entries) PROVE PeerInv'
  <2>1. DirectoryOK(peerDirectory', strikes')
    BY <1>13, RefilledOK DEF ImportSnapshot
  <2> QED BY <1>1, <1>13, <2>1 DEF ImportSnapshot, PeerInv, PeerTypeOK, AllEarned, DirectoryOK
<1>14. ASSUME NEW entries \in SUBSET Entries, Restart(entries) PROVE PeerInv'
  <2>1. DirectoryOK(peerDirectory', strikes')
    BY <1>14, RefilledOK DEF Restart
  <2>2. calls' \in [Calls -> Requests]
    BY <1>14, NoRequestType DEF Restart
  <2> QED BY <1>1, <1>14, <2>1, <2>2 DEF Restart, PeerInv, PeerTypeOK, AllEarned, DirectoryOK
<1>15. CASE UNCHANGED peerVars
  BY <1>15 DEF peerVars, PeerInv, PeerTypeOK, AllEarned
<1> QED BY <1>2, <1>3, <1>4, <1>5, <1>6, <1>7, <1>8, <1>9, <1>10, <1>11, <1>12, <1>13, <1>14, <1>15
        DEF PeerNext

\* Eligibility is what the answers earned.
LEMMA EarnedIsEligible == PeerInv => EligibleWhenEarned
<1> SUFFICES ASSUME PeerInv, NEW entry \in Entries
             PROVE  BroadcastEligible(peerDirectory, entry) <=>
                      /\ Listed(peerDirectory, entry)
                      /\ strikes[entry] < 3
                      /\ peerDirectory[entry].score > PEER_QUARANTINE_SCORE
  BY DEF EligibleWhenEarned
<1> DEFINE record == peerDirectory[entry]
           count == strikes[entry]
<1>1. record \in Records /\ count \in 0 .. 3 /\ Earned(record, count)
  BY DEF PeerInv, PeerTypeOK, AllEarned
<1>2. record.score \in Int /\ record.streak \in Nat
  BY <1>1, Bounds DEF Records
<1> HIDE DEF record, count
<1>3. Quarantined(record) <=> count = 3 \/ record.score <= -20
  BY <1>1, <1>2, Bounds DEF Quarantined, Earned
<1>4. BroadcastEligible(peerDirectory, entry) <=> Listed(peerDirectory, entry) /\ ~ Quarantined(record)
  BY DEF BroadcastEligible, record
<1>5. ~ (count = 3 \/ record.score <= -20) <=> count < 3 /\ record.score > -20
  BY <1>1, <1>2
<1> QED BY <1>3, <1>4, <1>5, Bounds DEF record, count

\* Records, calls and counts have their types in every state: a score stays
\* within its bounds (clampPeerScore) whatever is reported.
THEOREM PeerHealthTypeCorrect == PeerSpec => []PeerTypeOK
<1>1. PeerInv => PeerTypeOK
  BY DEF PeerInv
<1> QED BY <1>1, InitInv, NextInv, PTL DEF PeerSpec

\* In every state, a listed peer is relayed to exactly when its record since it
\* was last forgiven, by a good answer, an operator's restore, an import or a
\* restart, earned it (recordPeerSuccess, recordPeerFailure, addPeer,
\* notePeerSeen, restorePeer and buildPeerView).
THEOREM PeersEligibleWhenEarned == PeerSpec => []EligibleWhenEarned
  BY InitInv, NextInv, EarnedIsEligible, PTL DEF PeerSpec

-----------------------------------------------------------------------------
(***************************************************************************)
(* The socket transport.  The argument (SocketInv) is about each           *)
(* connection by itself (Sane: a line is on its way to a dialer only after *)
(* the listener authenticated it), about what is registered (AllServe)     *)
(* and about what waits (Proper: the rest of a chunk fits the end that it  *)
(* came to).  Handlers only ever authenticate more of a connection         *)
(* (Continues), so that what waits still fits when it goes on.             *)
(***************************************************************************)

(***************************************************************************)
(* What holds of every line on its way to an end of a connection, or kept  *)
(* in the rest of a chunk: an item has hops left, and whatever else is on  *)
(* its way to the dialer was sent by a listener that authenticated it.     *)
(***************************************************************************)
Fits(line, c, side) ==
  /\ line.type = "item" => line.ttl # 0
  /\ side = "dialer" /\ line.type # "item" => c.ends["listener"].authenticated

AllFit(lines, c, side) == \A k \in 1 .. Len(lines) : Fits(lines[k], c, side)

(***************************************************************************)
(* What holds of a connection by itself.                                   *)
(***************************************************************************)
Sane(c) ==
  /\ c.dialer # Owner[c.url]
  /\ \A side \in Sides :
       /\ AllFit(c.wires[side], c, side)
       /\ c.ends[side].authenticated =>
            c.ends[side].peerUrl = Advertised[NodeAt(c, Other(side))]
  /\ c.ends["dialer"].ready = "resolved" => c.ends["listener"].authenticated
  /\ c.ends["listener"].authenticated => Same(c.dialer, Owner[c.url])

\* A connection that node n may have registered for a URL.
Serves(c, n, url, gone) ==
  \E side \in Sides :
    /\ NodeAt(c, side) = n
    /\ url = Advertised[NodeAt(c, Other(side))]
    /\ c.ends[side].authenticated
    /\ c.ends[side].socket = "closed" => gone

AllServe(w, m) ==
  \A n \in Hosts, url \in Urls :
    LET i == w.registry[n][url]
    IN i # 0 => i \in 1 .. m /\ Serves(w.conn[i], n, url, w.late)

Worlds(m) ==
  [conn : [1 .. m -> ConnRecords], registry : [Hosts -> [Urls -> 0 .. MaxConnections]], late : BOOLEAN]

GoodWorld(w, m) ==
  /\ w \in Worlds(m)
  /\ \A i \in 1 .. m : Sane(w.conn[i])
  /\ AllServe(w, m)

\* A connection is what it was, or more of it is authenticated.
Continues(d, c) ==
  /\ d.dialer = c.dialer /\ d.url = c.url
  /\ \A side \in Sides : c.ends[side].authenticated => d.ends[side].authenticated

Follows(v, w, m) == \A i \in 1 .. m : Continues(v.conn[i], w.conn[i])

-----------------------------------------------------------------------------
LEMMA SideFacts ==
  /\ Sides = {"dialer", "listener"}
  /\ \A side \in Sides : Other(side) \in Sides /\ Other(side) # side /\ Other(Other(side)) = side
BY DEF Sides, Other

LEMMA NodeFacts ==
  ASSUME NEW c \in ConnRecords, NEW side \in Sides
  PROVE  /\ NodeAt(c, side) \in Hosts
         /\ Advertised[NodeAt(c, side)] \in Urls
         /\ Owner[Advertised[NodeAt(c, side)]] = NodeAt(c, side)
BY SocketAssumption DEF ConnRecords, NodeAt

LEMMA FitsContinued ==
  ASSUME NEW c, NEW d, Continues(d, c), NEW side, NEW line, Fits(line, c, side)
  PROVE  Fits(line, d, side)
BY DEF Continues, Fits, Sides

LEMMA AllFitContinued ==
  ASSUME NEW c, NEW d, Continues(d, c), NEW side, NEW lines, AllFit(lines, c, side)
  PROVE  AllFit(lines, d, side)
BY FitsContinued DEF AllFit

LEMMA EmptyFits ==
  ASSUME NEW c, NEW side
  PROVE  AllFit(<<>>, c, side)
BY DEF AllFit

LEMMA AppendFits ==
  ASSUME NEW lines \in Seq(Lines), NEW line \in Lines, NEW c, NEW side,
         AllFit(lines, c, side), Fits(line, c, side)
  PROVE  Append(lines, line) \in Seq(Lines) /\ AllFit(Append(lines, line), c, side)
<1> DEFINE longer == Append(lines, line)
<1>1. longer \in Seq(Lines) /\ Len(longer) = Len(lines) + 1 /\ Len(lines) \in Nat
  OBVIOUS
<1>2. \A k \in 1 .. Len(lines) + 1 : longer[k] = IF k = Len(lines) + 1 THEN line ELSE lines[k]
  OBVIOUS
<1> HIDE DEF longer
<1>3. \A k \in 1 .. Len(longer) : Fits(longer[k], c, side)
  <2> TAKE k \in 1 .. Len(longer)
  <2>1. CASE k = Len(lines) + 1
    BY <1>1, <1>2, <2>1
  <2>2. CASE k # Len(lines) + 1
    BY <1>1, <1>2, <2>2 DEF AllFit
  <2> QED BY <2>1, <2>2
<1> QED BY <1>1, <1>3 DEF AllFit, longer

LEMMA PartFits ==
  ASSUME NEW lines \in Seq(Lines), NEW c, NEW side, AllFit(lines, c, side),
         NEW first \in Nat \ {0}, NEW last \in 0 .. Len(lines)
  PROVE  SubSeq(lines, first, last) \in Seq(Lines) /\ AllFit(SubSeq(lines, first, last), c, side)
<1> DEFINE part == SubSeq(lines, first, last)
<1>1. CASE first <= last
  <2>1. part \in Seq(Lines) /\ Len(part) = last - first + 1
    BY <1>1, SubSeqProperties
  <2>2. \A k \in 1 .. last - first + 1 : part[k] = lines[first + k - 1] /\ first + k - 1 \in 1 .. Len(lines)
    BY <1>1, SubSeqProperties
  <2> HIDE DEF part
  <2>3. \A k \in 1 .. Len(part) : Fits(part[k], c, side)
    BY <2>1, <2>2 DEF AllFit
  <2> QED BY <2>1, <2>3 DEF AllFit, part
<1>2. CASE ~(first <= last)
  <2>1. part = <<>>
    BY <1>2
  <2> QED BY <2>1, EmptyFits
<1> QED BY <1>1, <1>2

LEMMA TailFits ==
  ASSUME NEW lines \in Seq(Lines), lines # <<>>, NEW c, NEW side, AllFit(lines, c, side)
  PROVE  /\ Head(lines) \in Lines /\ Fits(Head(lines), c, side)
         /\ Tail(lines) \in Seq(Lines) /\ AllFit(Tail(lines), c, side)
<1> DEFINE rest == Tail(lines)
<1>1. /\ Len(lines) \in Nat \ {0} /\ rest \in Seq(Lines) /\ Len(rest) = Len(lines) - 1
      /\ Head(lines) = lines[1] /\ lines[1] \in Lines
  OBVIOUS
<1>2. \A k \in 1 .. Len(lines) - 1 : rest[k] = lines[k + 1]
  OBVIOUS
<1> HIDE DEF rest
<1>3. \A k \in 1 .. Len(rest) : Fits(rest[k], c, side)
  BY <1>1, <1>2 DEF AllFit
<1>4. Fits(Head(lines), c, side)
  BY <1>1 DEF AllFit
<1> QED BY <1>1, <1>3, <1>4 DEF AllFit, rest

-----------------------------------------------------------------------------
(***************************************************************************)
(* Most handlers change one end of one connection and the lines on their   *)
(* way to it.                                                              *)
(***************************************************************************)
Edited(c, side, end, lines) == [c EXCEPT !.ends[side] = end, !.wires[side] = lines]

LEMMA OnlyLinesEdited ==
  ASSUME NEW c \in ConnRecords, NEW side \in Sides, NEW lines
  PROVE  [c EXCEPT !.wires[side] = lines] = Edited(c, side, c.ends[side], lines)
<1>1. [c EXCEPT !.ends[side] = c.ends[side]] = c
  <2>1. [c.ends EXCEPT ![side] = c.ends[side]] = c.ends
    BY DEF ConnRecords
  <2>2. [c EXCEPT !.ends = c.ends] = c
    BY DEF ConnRecords
  <2> QED BY <2>1, <2>2
<1>2. Edited(c, side, c.ends[side], lines) = [[c EXCEPT !.ends[side] = c.ends[side]] EXCEPT !.wires[side] = lines]
  BY DEF Edited
<1> QED BY <1>1, <1>2

LEMMA EditedFields ==
  ASSUME NEW c \in ConnRecords, NEW side \in Sides, NEW end \in EndRecords, NEW lines \in Seq(Lines),
         NEW d, d = Edited(c, side, end, lines)
  PROVE  /\ d \in ConnRecords /\ d.dialer = c.dialer /\ d.url = c.url
         /\ d.ends[side] = end /\ d.wires[side] = lines
         /\ \A s \in Sides : s # side => d.ends[s] = c.ends[s] /\ d.wires[s] = c.wires[s]
BY DEF Edited, ConnRecords

LEMMA EditedSane ==
  ASSUME NEW c \in ConnRecords, Sane(c), NEW side \in Sides, NEW end \in EndRecords,
         NEW lines \in Seq(Lines), AllFit(lines, c, side),
         c.ends[side].authenticated => end.authenticated,
         end.authenticated => end.peerUrl = Advertised[NodeAt(c, Other(side))],
         side = "dialer" /\ end.ready = "resolved" => c.ends["listener"].authenticated,
         side = "listener" /\ end.authenticated => Same(c.dialer, Owner[c.url]),
         NEW d, d = Edited(c, side, end, lines)
  PROVE  d \in ConnRecords /\ Sane(d) /\ Continues(d, c)
<1>1. /\ d \in ConnRecords /\ d.dialer = c.dialer /\ d.url = c.url
      /\ d.ends[side] = end /\ d.wires[side] = lines
      /\ \A s \in Sides : s # side => d.ends[s] = c.ends[s] /\ d.wires[s] = c.wires[s]
  BY EditedFields
<1>2. Continues(d, c)
  BY <1>1 DEF Continues
<1>3. \A s \in Sides : NodeAt(d, s) = NodeAt(c, s)
  BY <1>1 DEF NodeAt
<1>4. ASSUME NEW s \in Sides
      PROVE  /\ AllFit(d.wires[s], d, s)
             /\ d.ends[s].authenticated => d.ends[s].peerUrl = Advertised[NodeAt(d, Other(s))]
  <2>1. AllFit(d.wires[s], c, s)
    BY <1>1 DEF Sane
  <2>2. d.ends[s].authenticated => d.ends[s].peerUrl = Advertised[NodeAt(c, Other(s))]
    BY <1>1 DEF Sane
  <2> QED BY <1>2, <1>3, <2>1, <2>2, AllFitContinued, SideFacts
<1>5. d.ends["dialer"].ready = "resolved" => d.ends["listener"].authenticated
  BY <1>1, SideFacts DEF Sane
<1>6. d.ends["listener"].authenticated => Same(d.dialer, Owner[d.url])
  BY <1>1, SideFacts DEF Sane
<1>7. d.dialer # Owner[d.url]
  BY <1>1 DEF Sane
<1> QED BY <1>1, <1>2, <1>4, <1>5, <1>6, <1>7 DEF Sane

-----------------------------------------------------------------------------
(***************************************************************************)
(* Worlds that handlers make of a good one.                                *)
(***************************************************************************)
\* No socket closes.
Stays(d, c) == \A side \in Sides : d.ends[side].socket = "closed" => c.ends[side].socket = "closed"

LEMMA ServesContinued ==
  ASSUME NEW c, NEW d, Continues(d, c), NEW n, NEW url, NEW gone, NEW after,
         Serves(c, n, url, gone), Stays(d, c), gone => after
  PROVE  Serves(d, n, url, after)
<1>1. \A side \in Sides : NodeAt(d, side) = NodeAt(c, side)
  BY DEF Continues, NodeAt
<1>2. PICK side \in Sides :
        /\ NodeAt(c, side) = n
        /\ url = Advertised[NodeAt(c, Other(side))]
        /\ c.ends[side].authenticated
        /\ c.ends[side].socket = "closed" => gone
  BY DEF Serves
<1>3. /\ NodeAt(d, side) = n
      /\ url = Advertised[NodeAt(d, Other(side))]
      /\ d.ends[side].authenticated
      /\ d.ends[side].socket = "closed" => after
  BY <1>1, <1>2, SideFacts DEF Continues, Stays
<1> QED BY <1>3 DEF Serves

LEMMA GoodStays ==
  ASSUME NEW m \in Nat, NEW k \in Nat, m <= k, NEW w, GoodWorld(w, m),
         NEW v \in Worlds(k), v.registry = w.registry, w.late => v.late,
         \A i \in 1 .. k : Sane(v.conn[i]),
         \A i \in 1 .. m : Continues(v.conn[i], w.conn[i]) /\ Stays(v.conn[i], w.conn[i])
  PROVE  GoodWorld(v, k)
<1>1. ASSUME NEW n \in Hosts, NEW url \in Urls, v.registry[n][url] # 0
      PROVE  v.registry[n][url] \in 1 .. k /\ Serves(v.conn[v.registry[n][url]], n, url, v.late)
  <2>1. PICK i : i = v.registry[n][url]
    OBVIOUS
  <2>2. i \in 1 .. m /\ Serves(w.conn[i], n, url, w.late)
    BY <1>1, <2>1 DEF GoodWorld, AllServe
  <2>3. Serves(v.conn[i], n, url, v.late)
    BY <2>2, ServesContinued
  <2> QED BY <2>1, <2>2, <2>3
<1> QED BY <1>1 DEF GoodWorld, AllServe

LEMMA ChangedGood ==
  ASSUME NEW m \in Nat, NEW w, GoodWorld(w, m), NEW i \in 1 .. m,
         NEW d \in ConnRecords, Sane(d), Continues(d, w.conn[i]), Stays(d, w.conn[i]),
         NEW v, v = [w EXCEPT !.conn[i] = d]
  PROVE  GoodWorld(v, m) /\ Follows(v, w, m)
<1>1. w \in Worlds(m)
  BY DEF GoodWorld
<1>2. /\ v \in Worlds(m) /\ v.registry = w.registry /\ v.late = w.late
      /\ v.conn = [w.conn EXCEPT ![i] = d]
  BY <1>1 DEF Worlds
<1>3. \A j \in 1 .. m : v.conn[j] = IF j = i THEN d ELSE w.conn[j]
  BY <1>1, <1>2 DEF Worlds
<1>4. \A c : Continues(c, c) /\ Stays(c, c)
  BY DEF Continues, Stays
<1>5. \A j \in 1 .. m : Continues(v.conn[j], w.conn[j]) /\ Stays(v.conn[j], w.conn[j]) /\ Sane(v.conn[j])
  BY <1>3, <1>4 DEF GoodWorld
<1>6. \A j \in 1 .. m : Sane(v.conn[j])
  BY <1>5
<1>7. GoodWorld(v, m)
  <2>1. m <= m /\ (w.late => v.late)
    BY <1>2
  <2> QED BY <1>2, <1>5, <1>6, <2>1, GoodStays
<1> QED BY <1>5, <1>7 DEF Follows

LEMMA FollowsSelf ==
  ASSUME NEW w, NEW m
  PROVE  Follows(w, w, m)
BY DEF Follows, Continues

LEMMA FollowsOn ==
  ASSUME NEW u, NEW v, NEW w, NEW m, Follows(u, v, m), Follows(v, w, m)
  PROVE  Follows(u, w, m)
BY DEF Follows, Continues

LEMMA GoodConn ==
  ASSUME NEW m, NEW w, GoodWorld(w, m), NEW i \in 1 .. m
  PROVE  w.conn[i] \in ConnRecords /\ Sane(w.conn[i])
BY DEF GoodWorld, Worlds

LEMMA WrittenSane ==
  ASSUME NEW c \in ConnRecords, Sane(c), NEW side \in Sides, NEW line \in Lines,
         Fits(line, c, Other(side)), NEW d, d = Written(c, side, line)
  PROVE  d \in ConnRecords /\ Sane(d) /\ Continues(d, c) /\ Stays(d, c)
<1>1. PICK o \in Sides : o = Other(side)
  BY SideFacts
<1>2. CASE ~(IsOpen(c, side) /\ IsOpen(c, Other(side)))
  <2>1. d = c
    BY <1>2 DEF Written
  <2> QED BY <2>1 DEF Continues, Stays
<1>3. CASE IsOpen(c, side) /\ IsOpen(c, Other(side))
  <2>1. c.wires[o] \in Seq(Lines) /\ c.ends[o] \in EndRecords /\ AllFit(c.wires[o], c, o)
    BY DEF ConnRecords, Sane
  <2>2. PICK lines \in Seq(Lines) : lines = Append(c.wires[o], line) /\ AllFit(lines, c, o)
    BY <1>1, <2>1, AppendFits
  <2>3. d = [c EXCEPT !.wires[o] = lines]
    BY <1>1, <1>3, <2>2 DEF Written
  <2>4. PICK end \in EndRecords : end = c.ends[o]
    BY <2>1
  <2>5. d = Edited(c, o, end, lines)
    <3>1. [c EXCEPT !.wires[o] = lines] = Edited(c, o, c.ends[o], lines)
      BY OnlyLinesEdited
    <3> QED BY <2>3, <2>4, <3>1
  <2>6. d \in ConnRecords /\ Sane(d) /\ Continues(d, c)
    <3>1. /\ c.ends[o].authenticated => end.authenticated
          /\ end.authenticated => end.peerUrl = Advertised[NodeAt(c, Other(o))]
          /\ o = "dialer" /\ end.ready = "resolved" => c.ends["listener"].authenticated
          /\ o = "listener" /\ end.authenticated => Same(c.dialer, Owner[c.url])
      BY <2>4 DEF Sane
    <3> QED BY <2>2, <2>5, <3>1, EditedSane
  <2>7. Stays(d, c)
    BY <2>3 DEF Stays, ConnRecords
  <2> QED BY <2>6, <2>7
<1> QED BY <1>2, <1>3

LEMMA WriteGood ==
  ASSUME NEW m \in Nat, NEW w, GoodWorld(w, m), NEW i \in 1 .. m, NEW side \in Sides, NEW line \in Lines,
         Fits(line, w.conn[i], Other(side)), NEW v, v = Write(w, i, side, line)
  PROVE  GoodWorld(v, m) /\ Follows(v, w, m)
<1>1. PICK d : d = Written(w.conn[i], side, line)
  OBVIOUS
<1>2. d \in ConnRecords /\ Sane(d) /\ Continues(d, w.conn[i]) /\ Stays(d, w.conn[i])
  BY <1>1, GoodConn, WrittenSane
<1>3. v = [w EXCEPT !.conn[i] = d]
  BY <1>1 DEF Write, GoodWorld, Worlds
<1> QED BY <1>2, <1>3, ChangedGood

LEMMA DestroyedEnd ==
  ASSUME NEW end \in EndRecords, NEW failed \in BOOLEAN, NEW e, e = EndDestroyed(end, failed)
  PROVE  /\ e \in EndRecords /\ e.authenticated = end.authenticated
         /\ e.peerUrl = end.peerUrl /\ e.socket = "destroyed"
         /\ e.ready = "resolved" => end.ready = "resolved"
<1>1. CASE failed
  BY <1>1 DEF EndRecords, EndDestroyed, Rejected
<1>2. CASE ~failed
  BY <1>2 DEF EndRecords, EndDestroyed, Rejected
<1> QED BY <1>1, <1>2

LEMMA DestroyedSane ==
  ASSUME NEW c \in ConnRecords, Sane(c), NEW side \in Sides, NEW failed \in BOOLEAN,
         NEW d, d = Destroyed(c, side, failed)
  PROVE  d \in ConnRecords /\ Sane(d) /\ Continues(d, c) /\ Stays(d, c)
<1>1. CASE c.ends[side].socket \notin {"opening", "open"}
  <2>1. d = c
    BY <1>1 DEF Destroyed
  <2> QED BY <2>1 DEF Continues, Stays
<1>2. CASE c.ends[side].socket \in {"opening", "open"}
  <2>1. PICK end : end = EndDestroyed(c.ends[side], failed)
    OBVIOUS
  <2>2. c.ends[side] \in EndRecords
    BY DEF ConnRecords
  <2>3. /\ end \in EndRecords /\ end.authenticated = c.ends[side].authenticated
        /\ end.peerUrl = c.ends[side].peerUrl /\ end.socket = "destroyed"
        /\ end.ready = "resolved" => c.ends[side].ready = "resolved"
    BY <2>1, <2>2, DestroyedEnd
  <2>4. PICK none \in Seq(Lines) : none = <<>>
    BY EmptySeq
  <2>5. d = Edited(c, side, end, none)
    BY <1>2, <2>1, <2>4 DEF Destroyed, Edited
  <2>6. AllFit(none, c, side)
    BY <2>4, EmptyFits
  <2>7. /\ c.ends[side].authenticated => end.authenticated
        /\ end.authenticated => end.peerUrl = Advertised[NodeAt(c, Other(side))]
        /\ side = "dialer" /\ end.ready = "resolved" => c.ends["listener"].authenticated
        /\ side = "listener" /\ end.authenticated => Same(c.dialer, Owner[c.url])
    BY <2>3 DEF Sane
  <2>8. d \in ConnRecords /\ Sane(d) /\ Continues(d, c)
    BY <2>3, <2>5, <2>6, <2>7, EditedSane
  <2>9. d.ends[side] = end /\ \A s \in Sides : s # side => d.ends[s] = c.ends[s]
    BY <2>3, <2>5, EditedFields
  <2>10. Stays(d, c)
    BY <2>3, <2>9 DEF Stays
  <2> QED BY <2>8, <2>10
<1> QED BY <1>1, <1>2

LEMMA DestroyGood ==
  ASSUME NEW m \in Nat, NEW w, GoodWorld(w, m), NEW i \in 1 .. m, NEW side \in Sides, NEW failed \in BOOLEAN,
         NEW v, v = Destroy(w, i, side, failed)
  PROVE  GoodWorld(v, m) /\ Follows(v, w, m)
<1>1. PICK d : d = Destroyed(w.conn[i], side, failed)
  OBVIOUS
<1>2. d \in ConnRecords /\ Sane(d) /\ Continues(d, w.conn[i]) /\ Stays(d, w.conn[i])
  BY <1>1, GoodConn, DestroyedSane
<1>3. v = [w EXCEPT !.conn[i] = d]
  BY <1>1 DEF Destroy, GoodWorld, Worlds
<1> QED BY <1>2, <1>3, ChangedGood

LEMMA HelloLine == \A type \in {"hello", "hello_ack"} : Line(type) \in Lines /\ Line(type).type = type
BY SocketAssumption DEF Line, Lines

(***************************************************************************)
(* A registration: the end is authenticated first, then looked up.         *)
(***************************************************************************)
LEMMA AuthenticatedEnd ==
  ASSUME NEW end \in EndRecords, NEW url \in Urls, NEW e, e = EndAuthenticated(end, url)
  PROVE  e \in EndRecords /\ e.authenticated /\ e.peerUrl = url /\ e.socket = end.socket
BY DEF EndRecords, EndAuthenticated

LEMMA OnlyEndEdited ==
  ASSUME NEW c \in ConnRecords, NEW side \in Sides, NEW end
  PROVE  [c EXCEPT !.ends[side] = end] = Edited(c, side, end, c.wires[side])
<1>1. [c.wires EXCEPT ![side] = c.wires[side]] = c.wires
  BY DEF ConnRecords
<1>2. Edited(c, side, end, c.wires[side])
        = [[c EXCEPT !.ends[side] = end] EXCEPT !.wires = [c.wires EXCEPT ![side] = c.wires[side]]]
  BY DEF Edited
<1>3. [[c EXCEPT !.ends[side] = end] EXCEPT !.wires = c.wires] = [c EXCEPT !.ends[side] = end]
  BY DEF ConnRecords
<1> QED BY <1>1, <1>2, <1>3

LEMMA RegisteredGood ==
  ASSUME NEW m \in Nat, m <= MaxConnections, NEW w, GoodWorld(w, m), NEW i \in 1 .. m, NEW side \in Sides,
         Same(w.conn[i].dialer, Owner[w.conn[i].url]),
         side = "dialer" => w.conn[i].ends["listener"].authenticated,
         NEW n, n = NodeAt(w.conn[i], side),
         NEW url, url = Advertised[NodeAt(w.conn[i], Other(side))],
         NEW v, v = [w EXCEPT !.conn[i].ends[side] = EndAuthenticated(@, url),
                              !.registry[n][url] = i,
                              !.late = @ \/ w.conn[i].ends[side].socket = "closed"]
  PROVE  GoodWorld(v, m) /\ Follows(v, w, m) /\ v.conn[i].ends[side].authenticated
<1>1. PICK c \in ConnRecords : c = w.conn[i] /\ Sane(c)
  BY GoodConn
<1>2. PICK end : end = EndAuthenticated(c.ends[side], url)
  OBVIOUS
<1>3. n \in Hosts /\ url \in Urls
  BY <1>1, NodeFacts, SideFacts
<1>4. end \in EndRecords /\ end.authenticated /\ end.peerUrl = url /\ end.socket = c.ends[side].socket
  <2>1. c.ends[side] \in EndRecords
    BY DEF ConnRecords
  <2> QED BY <1>2, <1>3, <2>1, AuthenticatedEnd
<1>5. PICK lines \in Seq(Lines) : lines = c.wires[side]
  BY DEF ConnRecords
<1>6. PICK d : d = [c EXCEPT !.ends[side] = end]
  OBVIOUS
<1>7. d = Edited(c, side, end, lines)
  BY <1>5, <1>6, OnlyEndEdited
<1>8. d \in ConnRecords /\ Sane(d) /\ Continues(d, c)
  <2>1. AllFit(lines, c, side)
    BY <1>1, <1>5 DEF Sane
  <2>2. /\ c.ends[side].authenticated => end.authenticated
        /\ end.authenticated => end.peerUrl = Advertised[NodeAt(c, Other(side))]
        /\ side = "dialer" /\ end.ready = "resolved" => c.ends["listener"].authenticated
        /\ side = "listener" /\ end.authenticated => Same(c.dialer, Owner[c.url])
    BY <1>1, <1>4
  <2> QED BY <1>1, <1>4, <1>7, <2>1, <2>2, EditedSane
<1>9. d.ends[side] = end /\ \A s \in Sides : s # side => d.ends[s] = c.ends[s]
  BY <1>4, <1>7, EditedFields
<1>10. Stays(d, c)
  BY <1>4, <1>9 DEF Stays
<1>11. PICK u : u = [w EXCEPT !.conn[i] = d]
  OBVIOUS
<1>12. GoodWorld(u, m) /\ Follows(u, w, m)
  BY <1>1, <1>8, <1>10, <1>11, ChangedGood
<1>13. w \in Worlds(m)
  BY DEF GoodWorld
<1>14. /\ u \in Worlds(m) /\ u.conn[i] = d /\ u.registry = w.registry /\ u.late = w.late
  BY <1>8, <1>11, <1>13 DEF Worlds
<1>15. PICK b \in BOOLEAN : b = (w.late \/ c.ends[side].socket = "closed")
  OBVIOUS
<1>16. v = [u EXCEPT !.registry[n][url] = i, !.late = b]
  <2>1. v = [w EXCEPT !.conn[i].ends[side] = end, !.registry[n][url] = i, !.late = b]
    BY <1>1, <1>2, <1>15
  <2>2. v.conn = u.conn
    BY <1>1, <1>6, <1>11, <1>13, <2>1 DEF Worlds
  <2> QED BY <1>11, <1>13, <2>1, <2>2 DEF Worlds
<1>17. /\ v \in Worlds(m) /\ v.conn = u.conn /\ v.late = b
       /\ v.registry = [u.registry EXCEPT ![n][url] = i]
  <2>1. PICK r : r = [u.registry EXCEPT ![n][url] = i]
    OBVIOUS
  <2>2. u.registry \in [Hosts -> [Urls -> 0 .. MaxConnections]]
    BY <1>14 DEF Worlds
  <2>3. i \in 0 .. MaxConnections
    BY SocketAssumption
  <2>4. r \in [Hosts -> [Urls -> 0 .. MaxConnections]]
    BY <1>3, <2>1, <2>2, <2>3
  <2>5. v = [[u EXCEPT !.registry = r] EXCEPT !.late = b]
    BY <1>14, <1>16, <2>1 DEF Worlds
  <2>6. v \in Worlds(m) /\ v.conn = u.conn /\ v.late = b /\ v.registry = r
    BY <1>14, <2>4, <2>5 DEF Worlds
  <2> QED BY <2>1, <2>6
<1>18. ASSUME NEW p \in Hosts, NEW q \in Urls, v.registry[p][q] # 0
       PROVE  v.registry[p][q] \in 1 .. m /\ Serves(v.conn[v.registry[p][q]], p, q, v.late)
  <2>1. CASE p = n /\ q = url
    <3>1. v.registry[p][q] = i /\ v.conn[i] = d
      <4>1. u.registry \in [Hosts -> [Urls -> 0 .. MaxConnections]]
        BY <1>14 DEF Worlds
      <4>2. v.registry[n][url] = i
        BY <1>3, <1>17, <4>1
      <4>3. v.conn[i] = d
        BY <1>14, <1>17
      <4> QED BY <2>1, <4>2, <4>3
    <3>2. \A s \in Sides : NodeAt(d, s) = NodeAt(c, s)
      BY <1>8 DEF Continues, NodeAt
    <3>3. /\ NodeAt(d, side) = n /\ url = Advertised[NodeAt(d, Other(side))]
          /\ d.ends[side].authenticated /\ (d.ends[side].socket = "closed" => v.late)
      BY <1>1, <1>4, <1>9, <1>15, <1>17, <3>2, SideFacts
    <3> QED BY <2>1, <3>1, <3>3 DEF Serves
  <2>2. CASE ~(p = n /\ q = url)
    <3>1. PICK j : j = w.registry[p][q] /\ j = v.registry[p][q]
      BY <1>14, <1>17, <2>2 DEF Worlds
    <3>2. j \in 1 .. m /\ Serves(u.conn[j], p, q, u.late)
      BY <1>12, <1>14, <1>18, <3>1 DEF GoodWorld, AllServe
    <3>3. u.late => v.late
      BY <1>14, <1>15, <1>17
    <3>4. Serves(u.conn[j], p, q, v.late)
      BY <3>2, <3>3 DEF Serves
    <3> QED BY <1>17, <3>1, <3>2, <3>4
  <2> QED BY <2>1, <2>2
<1>19. \A j \in 1 .. m : Sane(v.conn[j])
  BY <1>12, <1>17 DEF GoodWorld
<1>20. GoodWorld(v, m)
  BY <1>17, <1>18, <1>19 DEF GoodWorld, AllServe
<1>21. Follows(v, w, m)
  BY <1>12, <1>17 DEF Follows
<1> QED BY <1>4, <1>9, <1>14, <1>17, <1>20, <1>21

LEMMA AuthenticatedGood ==
  ASSUME NEW m \in Nat, m <= MaxConnections, NEW w, GoodWorld(w, m), NEW i \in 1 .. m, NEW side \in Sides,
         Same(w.conn[i].dialer, Owner[w.conn[i].url]),
         side = "dialer" => w.conn[i].ends["listener"].authenticated,
         NEW v, v = Authenticated(w, i, side)
  PROVE  GoodWorld(v, m) /\ Follows(v, w, m)
<1>1. PICK n : n = NodeAt(w.conn[i], side)
  OBVIOUS
<1>2. PICK url : url = Advertised[NodeAt(w.conn[i], Other(side))]
  OBVIOUS
<1>3. PICK known : known = [w EXCEPT !.conn[i].ends[side] = EndAuthenticated(@, url),
                                     !.registry[n][url] = i,
                                     !.late = @ \/ w.conn[i].ends[side].socket = "closed"]
  OBVIOUS
<1>4. GoodWorld(known, m) /\ Follows(known, w, m) /\ known.conn[i].ends[side].authenticated
  BY <1>1, <1>2, <1>3, RegisteredGood
<1>5. \/ v = known
      \/ /\ side = "listener" \/ ~w.conn[i].ends[side].acknowledged
         /\ v = Write(known, i, side, Line("hello_ack"))
  BY <1>1, <1>2, <1>3 DEF Authenticated
<1>6. CASE v = known
  BY <1>4, <1>6
<1>7. CASE v = Write(known, i, side, Line("hello_ack"))
  <2>1. PICK line \in Lines : line = Line("hello_ack") /\ line.type = "hello_ack"
    BY HelloLine
  <2>2. Fits(line, known.conn[i], Other(side))
    BY <1>4, <2>1, SideFacts DEF Fits
  <2>3. GoodWorld(v, m) /\ Follows(v, known, m)
    BY <1>4, <1>7, <2>1, <2>2, WriteGood
  <2> QED BY <1>4, <2>3, FollowsOn
<1> QED BY <1>5, <1>6, <1>7

LEMMA HandleLineGood ==
  ASSUME NEW m \in Nat, m <= MaxConnections, NEW w, GoodWorld(w, m), NEW i \in 1 .. m, NEW side \in Sides,
         NEW line \in Lines, Fits(line, w.conn[i], side),
         NEW v, v = HandleLine(w, i, side, line)
  PROVE  GoodWorld(v, m) /\ Follows(v, w, m)
<1>1. CASE /\ line.type \in {"hello", "hello_ack"}
           /\ Same(w.conn[i].dialer, Owner[w.conn[i].url])
  <2>1. v = Authenticated(w, i, side)
    BY <1>1 DEF HandleLine
  <2>2. side = "dialer" => w.conn[i].ends["listener"].authenticated
    BY <1>1 DEF Fits
  <2> QED BY <1>1, <2>1, <2>2, AuthenticatedGood
<1>2. CASE ~(/\ line.type \in {"hello", "hello_ack"}
             /\ Same(w.conn[i].dialer, Owner[w.conn[i].url]))
  <2>1. PICK failed \in BOOLEAN : failed = TRUE
    OBVIOUS
  <2>2. v = Destroy(w, i, side, failed)
    BY <1>2, <2>1 DEF HandleLine
  <2> QED BY <2>2, DestroyGood
<1> QED BY <1>1, <1>2

-----------------------------------------------------------------------------
(***************************************************************************)
(* The lines that a task has kept, one after the other.                    *)
(***************************************************************************)
\* g is what Handled's recursive definition gives up to count.
HandledTable(w, task, count, g) ==
  g = [k \in 0 .. count |->
         IF k = 0 THEN w ELSE HandleLine(g[k - 1], task.from, task.side, task.rest[k])]

LEMMA HandledTableExists ==
  ASSUME NEW w, NEW task, NEW count \in Nat
  PROVE  \E g : HandledTable(w, task, count, g)
<1> DEFINE T == {m \in 0 .. count : \E g : HandledTable(w, task, m, g)}
<1>1. 0 \in T
  <2> DEFINE g == [k \in 0 .. 0 |-> w]
  <2>1. HandledTable(w, task, 0, g)
    BY DEF HandledTable
  <2> QED BY <2>1
<1>2. ASSUME NEW m \in 0 .. (count - 1), m \in T PROVE m + 1 \in T
  <2>1. PICK h : HandledTable(w, task, m, h)
    BY <1>2
  <2> DEFINE g == [k \in 0 .. (m + 1) |->
                     IF k = m + 1 THEN HandleLine(h[m], task.from, task.side, task.rest[m + 1]) ELSE h[k]]
  <2>2. \A k \in 0 .. m : h[k] = IF k = 0 THEN w ELSE HandleLine(h[k - 1], task.from, task.side, task.rest[k])
    BY <2>1 DEF HandledTable
  <2>3. \A k \in 0 .. (m + 1) :
          g[k] = IF k = 0 THEN w ELSE HandleLine(g[k - 1], task.from, task.side, task.rest[k])
    <3> TAKE k \in 0 .. (m + 1)
    <3>1. CASE k = 0
      <4>1. g[0] = h[0] /\ h[0] = w
        BY <2>2
      <4> QED BY <3>1, <4>1
    <3>2. CASE k = m + 1
      <4>1. m + 1 # 0 /\ (m + 1) - 1 = m /\ g[m] = h[m]
        OBVIOUS
      <4>2. g[m + 1] = HandleLine(h[m], task.from, task.side, task.rest[m + 1])
        OBVIOUS
      <4> HIDE DEF g
      <4> QED BY <3>2, <4>1, <4>2
    <3>3. CASE k # 0 /\ k # m + 1
      <4>1. k \in 0 .. m /\ k - 1 \in 0 .. m /\ k - 1 # m + 1
        BY <3>3
      <4>2. g[k] = h[k] /\ g[k - 1] = h[k - 1]
        BY <3>3, <4>1
      <4> HIDE DEF g
      <4> QED BY <2>2, <3>3, <4>1, <4>2
    <3> QED BY <3>1, <3>2, <3>3
  <2>4. HandledTable(w, task, m + 1, g)
    <3>1. g = [k \in 0 .. (m + 1) |-> g[k]]
      OBVIOUS
    <3> HIDE DEF g
    <3> QED BY <2>3, <3>1 DEF HandledTable
  <2> QED BY <2>4
<1> HIDE DEF T
<1>3. \A m \in 0 .. count : m \in T
  BY <1>1, <1>2, IntervalInduction
<1> QED BY <1>3 DEF T

LEMMA HandledGood ==
  ASSUME NEW m \in Nat, m <= MaxConnections, NEW w, GoodWorld(w, m), NEW task \in TaskRecords,
         NEW count \in 0 .. Len(task.rest), count # 0 => task.from \in 1 .. m,
         count # 0 => AllFit(task.rest, w.conn[task.from], task.side),
         NEW v, v = Handled(w, task, count)
  PROVE  GoodWorld(v, m) /\ Follows(v, w, m)
<1>1. task.rest \in Seq(Lines) /\ task.side \in Sides
  BY DEF TaskRecords
<1>2. count \in Nat
  BY <1>1
<1> DEFINE after == CHOOSE g : HandledTable(w, task, count, g)
<1>3. HandledTable(w, task, count, after)
  BY <1>2, HandledTableExists
<1>4. v = after[count]
  BY DEF Handled, HandledTable
<1> HIDE DEF after
<1>5. after = [k \in 0 .. count |->
                IF k = 0 THEN w ELSE HandleLine(after[k - 1], task.from, task.side, task.rest[k])]
  BY <1>3 DEF HandledTable
<1>6. after[0] = w
  BY <1>2, <1>5
<1>7. \A k \in 1 .. count : after[k] = HandleLine(after[k - 1], task.from, task.side, task.rest[k])
  BY <1>2, <1>5
<1> DEFINE T == {k \in 0 .. count : GoodWorld(after[k], m) /\ Follows(after[k], w, m)}
<1>8. 0 \in T
  BY <1>2, <1>6, FollowsSelf
<1>9. ASSUME NEW k \in 0 .. (count - 1), k \in T PROVE k + 1 \in T
  <2>1. /\ k + 1 \in 1 .. count /\ k + 1 \in 1 .. Len(task.rest) /\ (k + 1) - 1 = k
        /\ k + 1 \in 0 .. count /\ count # 0
    BY <1>1, <1>2
  <2>2. PICK i \in 1 .. m : i = task.from
    BY <2>1
  <2>3. PICK line \in Lines : line = task.rest[k + 1]
    BY <1>1, <2>1
  <2>4. PICK u : u = after[k] /\ GoodWorld(u, m) /\ Follows(u, w, m)
    BY <1>9
  <2>5. Fits(line, w.conn[i], task.side)
    BY <2>1, <2>2, <2>3 DEF AllFit
  <2>6. Fits(line, u.conn[i], task.side)
    BY <2>4, <2>5, FitsContinued DEF Follows
  <2>7. PICK x : x = after[k + 1]
    OBVIOUS
  <2>8. x = HandleLine(u, i, task.side, line)
    BY <1>7, <2>1, <2>2, <2>3, <2>4, <2>7
  <2>9. GoodWorld(x, m) /\ Follows(x, u, m)
    BY <1>1, <2>4, <2>6, <2>8, HandleLineGood
  <2>10. Follows(x, w, m)
    BY <2>4, <2>9, FollowsOn
  <2> QED BY <2>1, <2>7, <2>9, <2>10
<1> HIDE DEF T
<1>10. \A k \in 0 .. count : k \in T
  BY <1>2, <1>8, <1>9, IntervalInduction
<1>11. count \in T
  BY <1>2, <1>10
<1> QED BY <1>4, <1>11 DEF T

LEMMA SentGood ==
  ASSUME NEW m \in Nat, NEW w, GoodWorld(w, m), NEW task \in TaskRecords, NEW numbers,
         NEW v, v = Sent(w, task, numbers)
  PROVE  GoodWorld(v, m) /\ Follows(v, w, m)
<1>1. CASE task.ttl = 0
  <2>1. v = w
    BY <1>1 DEF Sent
  <2> QED BY <2>1, FollowsSelf
<1>2. CASE task.ttl # 0
  <2>1. PICK line \in Lines : line = Item(task.ttl) /\ line.type = "item" /\ line.ttl # 0
    <3>1. task.ttl \in 0 .. SocketTTL
      BY DEF TaskRecords
    <3>2. PICK ttl \in 0 .. SocketTTL : ttl = task.ttl /\ ttl # 0
      BY <1>2, <3>1
    <3>3. Item(ttl) \in Lines /\ Item(ttl).type = "item" /\ Item(ttl).ttl # 0
      BY <3>2 DEF Item, Lines
    <3> QED BY <3>2, <3>3
  <2>2. w \in Worlds(m)
    BY DEF GoodWorld
  <2>3. DOMAIN w.conn = 1 .. m
    BY <2>2 DEF Worlds
  <2>4. PICK f : f = [i \in 1 .. m |->
                       IF i \in numbers THEN Written(w.conn[i], SideOf(i, task.node), line) ELSE w.conn[i]]
    OBVIOUS
  <2>5. v = [w EXCEPT !.conn = f]
    BY <1>2, <2>1, <2>3, <2>4 DEF Sent
  <2>6. ASSUME NEW i \in 1 .. m
        PROVE  /\ f[i] \in ConnRecords /\ Sane(f[i])
               /\ Continues(f[i], w.conn[i]) /\ Stays(f[i], w.conn[i])
    <3>1. w.conn[i] \in ConnRecords /\ Sane(w.conn[i])
      BY GoodConn
    <3>2. CASE i \notin numbers
      BY <2>4, <3>1, <3>2 DEF Continues, Stays
    <3>3. CASE i \in numbers
      <4>1. PICK side \in Sides : side = SideOf(i, task.node)
        BY DEF SideOf, Sides
      <4>2. f[i] = Written(w.conn[i], side, line)
        BY <2>4, <3>3, <4>1
      <4>3. Fits(line, w.conn[i], Other(side))
        BY <2>1 DEF Fits
      <4> QED BY <3>1, <4>2, <4>3, WrittenSane
    <3> QED BY <3>2, <3>3
  <2>7. f \in [1 .. m -> ConnRecords]
    BY <2>4, <2>6
  <2>8. v \in Worlds(m) /\ v.registry = w.registry /\ v.late = w.late /\ v.conn = f
    BY <2>2, <2>5, <2>7 DEF Worlds
  <2>9. GoodWorld(v, m)
    <3>1. m <= m /\ (w.late => v.late)
      BY <2>8
    <3>2. \A i \in 1 .. m : Sane(v.conn[i])
      BY <2>6, <2>8
    <3>3. \A i \in 1 .. m : Continues(v.conn[i], w.conn[i]) /\ Stays(v.conn[i], w.conn[i])
      BY <2>6, <2>8
    <3> QED BY <2>8, <3>1, <3>2, <3>3, GoodStays
  <2> QED BY <2>6, <2>8, <2>9 DEF Follows
<1> QED BY <1>1, <1>2

-----------------------------------------------------------------------------
(***************************************************************************)
(* Tasks: none is about to dial its own node, and the lines that one keeps *)
(* fit the end they came to; one that awaits the node has hops left.       *)
(***************************************************************************)
Proper(t, w, m) ==
  /\ t \in TaskRecords
  /\ \A url \in t.left : Owner[url] # t.node
  /\ t.rest # <<>> => t.from \in 1 .. m /\ AllFit(t.rest, w.conn[t.from], t.side)

Waiting(t, m) == t.stage = "node" => t.ttl # 0 /\ t.from \in 1 .. m

AllProper(ts, w, m) == \A t \in ts : Proper(t, w, m) /\ Waiting(t, m)

Sound(w, m, ts) == m \in 0 .. MaxConnections /\ GoodWorld(w, m) /\ AllProper(ts, w, m)

\* The inductive invariant.
SocketInv == SocketTypeOK /\ Sound(World, dialled, tasks)

LEMMA ProperFollows ==
  ASSUME NEW m \in Nat, NEW k \in Nat, m <= k, NEW w, NEW v, Follows(v, w, m), NEW t, Proper(t, w, m)
  PROVE  Proper(t, v, k)
<1>1. CASE t.rest = <<>>
  BY <1>1 DEF Proper
<1>2. CASE t.rest # <<>>
  <2>1. PICK i \in 1 .. m : i = t.from
    BY <1>2 DEF Proper
  <2>2. AllFit(t.rest, w.conn[i], t.side)
    BY <1>2, <2>1 DEF Proper
  <2>3. AllFit(t.rest, v.conn[i], t.side)
    BY <2>2, AllFitContinued DEF Follows
  <2>4. i \in 1 .. k
    OBVIOUS
  <2> QED BY <2>1, <2>3, <2>4 DEF Proper
<1> QED BY <1>1, <1>2

LEMMA AllProperFollows ==
  ASSUME NEW m \in Nat, NEW k \in Nat, m <= k, NEW w, NEW v, Follows(v, w, m), NEW ts, AllProper(ts, w, m)
  PROVE  AllProper(ts, v, k)
<1> SUFFICES ASSUME NEW t \in ts PROVE Proper(t, v, k) /\ Waiting(t, k)
  BY DEF AllProper
<1>1. Proper(t, w, m) /\ Waiting(t, m)
  BY DEF AllProper
<1>2. Proper(t, v, k)
  BY <1>1, ProperFollows
<1>3. Waiting(t, k)
  BY <1>1 DEF Waiting
<1> QED BY <1>2, <1>3

\* An item in the rest of a chunk is found, and only other lines before it.
LEMMA FirstItemFound ==
  ASSUME NEW rest \in Seq(Lines), NEW k, k = FirstItem(rest)
  PROVE  k \in 1 .. Len(rest) + 1 /\ (k = Len(rest) + 1 \/ rest[k].type = "item")
<1> DEFINE T == {l \in 1 .. Len(rest) + 1 : l = Len(rest) + 1 \/ rest[l].type = "item"}
<1>1. Len(rest) \in Nat
  OBVIOUS
<1>2. T \subseteq Nat /\ Len(rest) + 1 \in T
  BY <1>1
<1>3. PICK x \in T : \A y \in T : x <= y
  BY <1>2, LeastNatural
<1>4. \A l \in 1 .. x - 1 : rest[l].type # "item"
  <2> SUFFICES ASSUME NEW l \in 1 .. x - 1, rest[l].type = "item" PROVE FALSE
    OBVIOUS
  <2>1. l \in T
    BY <1>1, <1>3
  <2> QED BY <1>3, <2>1
<1>5. \E l \in 1 .. Len(rest) + 1 :
        /\ l = Len(rest) + 1 \/ rest[l].type = "item"
        /\ \A h \in 1 .. l - 1 : rest[h].type # "item"
  BY <1>3, <1>4
<1> QED BY <1>5 DEF FirstItem

-----------------------------------------------------------------------------
LEMMA FinishSound ==
  ASSUME NEW m \in 0 .. MaxConnections, NEW w, GoodWorld(w, m), NEW task, Proper(task, w, m),
         NEW others, AllProper(others, w, m), m = dialled, Finish(w, task, others)
  PROVE  Sound(World', dialled', tasks') /\ network' = network
<1>1. /\ task \in TaskRecords /\ task.rest \in Seq(Lines) /\ Len(task.rest) \in Nat
      /\ m \in Nat /\ m <= MaxConnections
  BY SocketAssumption DEF Proper, TaskRecords
<1>2. PICK k \in 1 .. Len(task.rest) + 1 :
        /\ k = FirstItem(task.rest)
        /\ k = Len(task.rest) + 1 \/ task.rest[k].type = "item"
  BY <1>1, FirstItemFound
<1>3. PICK v : v = Handled(w, task, k - 1)
  OBVIOUS
<1>4. PICK count \in 0 .. Len(task.rest) : count = k - 1
  BY <1>1
<1>5. count # 0 => task.rest # <<>>
  BY <1>1
<1>6. GoodWorld(v, m) /\ Follows(v, w, m)
  <2>1. count # 0 => task.from \in 1 .. m
    BY <1>5 DEF Proper
  <2>2. count # 0 => AllFit(task.rest, w.conn[task.from], task.side)
    BY <1>5 DEF Proper
  <2> QED BY <1>1, <1>3, <1>4, <2>1, <2>2, HandledGood
<1>7. World' = v /\ dialled' = m /\ network' = network
  <2>1. v \in Worlds(m)
    BY <1>6 DEF GoodWorld
  <2>2. conn' = v.conn /\ registry' = v.registry /\ late' = v.late
    BY <1>2, <1>3 DEF Finish, Becomes
  <2> QED BY <2>1, <2>2 DEF Finish, World, Worlds
<1>8. AllProper(others, v, m)
  <2>1. m <= m
    BY <1>1
  <2> QED BY <1>1, <1>6, <2>1, AllProperFollows
<1>9. CASE k > Len(task.rest)
  <2>1. tasks' = others
    BY <1>2, <1>9 DEF Finish
  <2> QED BY <1>6, <1>7, <1>8, <2>1 DEF Sound
<1>10. CASE ~(k > Len(task.rest))
  <2>1. k \in 1 .. Len(task.rest) /\ task.rest[k] \in Lines /\ task.rest[k].type = "item" /\ task.rest # <<>>
    BY <1>1, <1>2, <1>10
  <2>2. PICK next : next = [task EXCEPT !.stage = "node", !.ttl = task.rest[k].ttl, !.left = {}, !.dial = 0,
                                        !.rest = SubSeq(task.rest, k + 1, Len(task.rest))]
    OBVIOUS
  <2>3. tasks' = others \cup {next}
    BY <1>2, <1>10, <2>2 DEF Finish
  <2>4. PICK i \in 1 .. m : i = task.from
    BY <2>1 DEF Proper
  <2>5. Proper(task, v, m)
    <3>1. m <= m
      BY <1>1
    <3> QED BY <1>1, <1>6, <3>1, ProperFollows
  <2>6. AllFit(task.rest, v.conn[i], task.side)
    BY <2>1, <2>4, <2>5 DEF Proper
  <2>7. PICK ttl \in 0 .. SocketTTL : ttl = task.rest[k].ttl /\ ttl # 0
    <3>1. Fits(task.rest[k], v.conn[i], task.side)
      BY <2>1, <2>6 DEF AllFit
    <3> QED BY <2>1, <3>1 DEF Fits, Lines
  <2>8. PICK rest \in Seq(Lines) :
          rest = SubSeq(task.rest, k + 1, Len(task.rest)) /\ AllFit(rest, v.conn[i], task.side)
    <3>1. k + 1 \in Nat \ {0} /\ Len(task.rest) \in 0 .. Len(task.rest)
      BY <1>1
    <3> QED BY <1>1, <2>6, <3>1, PartFits
  <2>9. /\ next \in TaskRecords /\ next.left = {} /\ next.rest = rest
        /\ next.from = i /\ next.side = task.side /\ next.ttl = ttl
    <3>1. 0 \in 0 .. MaxConnections
      BY <1>1, SocketAssumption
    <3> QED BY <1>1, <2>2, <2>4, <2>7, <2>8, <3>1 DEF TaskRecords
  <2>10. Proper(next, v, m) /\ Waiting(next, m)
    BY <2>7, <2>8, <2>9 DEF Proper, Waiting
  <2>11. AllProper(tasks', v, m)
    BY <1>8, <2>3, <2>10 DEF AllProper
  <2> QED BY <1>6, <1>7, <2>11 DEF Sound
<1> QED BY <1>9, <1>10

LEMMA DialledSane ==
  ASSUME NEW n \in Hosts, NEW url \in Urls, Owner[url] # n, NEW d, d = Dialled(n, url)
  PROVE  d \in ConnRecords /\ Sane(d)
<1>1. PICK end : end = [Absent EXCEPT !.socket = "opening", !.peerUrl = url]
  OBVIOUS
<1>2. /\ Absent \in EndRecords /\ ~Absent.authenticated /\ Absent.ready = "pending"
  BY DEF Absent, EndRecords
<1>3. /\ end \in EndRecords /\ ~end.authenticated /\ end.ready = "pending"
  BY <1>1 DEF Absent, EndRecords
<1>4. PICK none \in Seq(Lines) : none = <<>>
  BY EmptySeq
<1>5. d = [dialer |-> n, url |-> url, wires |-> [side \in Sides |-> none],
           ends |-> [side \in Sides |-> IF side = "dialer" THEN end ELSE Absent]]
  BY <1>1, <1>4 DEF Dialled
<1>6. d \in ConnRecords
  BY <1>2, <1>3, <1>5 DEF ConnRecords
<1>7. d.dialer = n /\ d.url = url
  BY <1>5
<1>8. \A side \in Sides : /\ d.wires[side] = <<>> /\ ~d.ends[side].authenticated
                          /\ d.ends[side].ready = "pending"
  BY <1>2, <1>3, <1>4, <1>5
<1>9. \A side \in Sides : AllFit(d.wires[side], d, side)
  BY <1>8, EmptyFits
<1> QED BY <1>6, <1>7, <1>8, <1>9, SideFacts DEF Sane

LEMMA RelaySound ==
  ASSUME NEW m \in 0 .. MaxConnections, NEW w, GoodWorld(w, m), NEW task, Proper(task, w, m),
         NEW others, AllProper(others, w, m), m = dialled, Relay(w, task, others)
  PROVE  Sound(World', dialled', tasks') /\ network' = network
<1> DEFINE registered == {url \in task.left : w.registry[task.node][url] # 0}
           numbers(urls) == {w.registry[task.node][url] : url \in urls}
<1>1. /\ task \in TaskRecords /\ m \in Nat /\ m + 1 \in Nat /\ m <= m + 1 /\ m <= m
      /\ m <= MaxConnections
  BY SocketAssumption DEF Proper
<1>2. CASE Finish(Sent(w, task, numbers(registered)), task, others)
  <2>1. PICK v : v = Sent(w, task, numbers(registered))
    OBVIOUS
  <2> HIDE DEF registered, numbers
  <2>2. GoodWorld(v, m) /\ Follows(v, w, m)
    BY <1>1, <2>1, SentGood
  <2>3. Proper(task, v, m) /\ AllProper(others, v, m)
    BY <1>1, <2>2, ProperFollows, AllProperFollows
  <2>4. Finish(v, task, others)
    BY <1>2, <2>1
  <2> QED BY <2>2, <2>3, <2>4, FinishSound
<1>3. ASSUME dialled < MaxConnections, NEW url \in task.left \ registered, NEW sent \in SUBSET registered,
             conn' = Append(Sent(w, task, numbers(sent)).conn, Dialled(task.node, url)),
             tasks' = others \cup
                  {[task EXCEPT !.stage = "relay", !.left = @ \ (sent \cup {url}), !.dial = dialled + 1]},
             dialled' = dialled + 1, registry' = w.registry, late' = w.late, network' = network
      PROVE  Sound(World', dialled', tasks') /\ network' = network
  <2>1. PICK v : v = Sent(w, task, numbers(sent))
    OBVIOUS
  <2>2. conn' = Append(v.conn, Dialled(task.node, url))
    BY <1>3, <2>1
  <2>3. url \in task.left
    OBVIOUS
  <2>4. v = Sent(w, task, numbers(sent))
    BY <2>1
  <2> HIDE DEF registered, numbers
  <2>5. GoodWorld(v, m) /\ Follows(v, w, m)
    BY <1>1, <2>4, SentGood
  <2>6. PICK k \in 0 .. MaxConnections : k = m + 1 /\ dialled' = k
    BY <1>1, <1>3, SocketAssumption
  <2>7. PICK d : d = Dialled(task.node, url)
    OBVIOUS
  <2>8. d \in ConnRecords /\ Sane(d)
    <3>1. task.node \in Hosts /\ url \in Urls /\ Owner[url] # task.node
      BY <1>1, <2>3 DEF Proper, TaskRecords
    <3> QED BY <2>7, <3>1, DialledSane
  <2>9. PICK u : u = World'
    OBVIOUS
  <2>10. u.conn = Append(v.conn, d) /\ u.registry = w.registry /\ u.late = w.late /\ u = World'
    BY <1>3, <2>2, <2>7, <2>9 DEF World
  <2>11. v.registry = w.registry /\ v.late = w.late /\ w \in Worlds(m) /\ v \in Worlds(m)
    <3>1. w \in Worlds(m)
      BY DEF GoodWorld
    <3> QED BY <2>4, <2>5, <3>1 DEF Sent, GoodWorld, Worlds
  <2>12. /\ u.conn \in [1 .. k -> ConnRecords]
         /\ \A i \in 1 .. k : u.conn[i] = IF i = k THEN d ELSE v.conn[i]
    <3>1. v.conn \in [1 .. m -> ConnRecords]
      BY <2>11 DEF Worlds
    <3>2. v.conn \in Seq(ConnRecords) /\ Len(v.conn) = m
      BY <1>1, <3>1
    <3>3. Append(v.conn, d) \in Seq(ConnRecords) /\ Len(Append(v.conn, d)) = k
      BY <2>6, <2>8, <3>2
    <3>4. \A i \in 1 .. k : Append(v.conn, d)[i] = IF i = k THEN d ELSE v.conn[i]
      BY <1>1, <2>6, <2>8, <3>2
    <3>5. PICK f \in Seq(ConnRecords) : f = Append(v.conn, d) /\ Len(f) = k
      BY <3>3
    <3>6. f \in [1 .. Len(f) -> ConnRecords]
      OBVIOUS
    <3> QED BY <2>10, <3>4, <3>5, <3>6
  <2>13. u \in Worlds(k)
    <3>1. w.registry \in [Hosts -> [Urls -> 0 .. MaxConnections]] /\ w.late \in BOOLEAN
      BY <2>11 DEF Worlds
    <3> QED BY <2>10, <2>12, <3>1 DEF World, Worlds
  <2>14. \A i \in 1 .. k : Sane(u.conn[i])
    BY <1>1, <2>5, <2>6, <2>8, <2>12 DEF GoodWorld
  <2>15. \A i \in 1 .. m : u.conn[i] = v.conn[i]
    BY <1>1, <2>6, <2>12
  <2>16. \A i \in 1 .. m : Continues(u.conn[i], v.conn[i]) /\ Stays(u.conn[i], v.conn[i])
    BY <2>15 DEF Continues, Stays
  <2>17. GoodWorld(u, k)
    <3>1. k \in Nat /\ m <= k /\ u.registry = v.registry /\ (v.late => u.late)
      BY <1>1, <2>6, <2>10, <2>11
    <3> QED BY <1>1, <2>5, <2>13, <2>14, <2>16, <3>1, GoodStays
  <2>18. Follows(u, w, m)
    <3>1. Follows(u, v, m)
      BY <2>16 DEF Follows
    <3> QED BY <2>5, <3>1, FollowsOn
  <2>19. k \in Nat /\ m <= k
    BY <1>1, <2>6
  <2>20. AllProper(others, u, k) /\ Proper(task, u, k)
    BY <1>1, <2>18, <2>19, ProperFollows, AllProperFollows
  <2>21. PICK next : next = [task EXCEPT !.stage = "relay", !.left = @ \ (sent \cup {url}), !.dial = k]
    OBVIOUS
  <2>22. /\ next \in TaskRecords /\ next.left \subseteq task.left /\ next.node = task.node
         /\ next.rest = task.rest /\ next.from = task.from /\ next.side = task.side /\ next.stage = "relay"
    BY <1>1, <2>21 DEF TaskRecords
  <2>23. Proper(next, u, k) /\ Waiting(next, k)
    BY <2>20, <2>22 DEF Proper, Waiting
  <2>24. tasks' = others \cup {next}
    BY <1>3, <2>6, <2>21
  <2>25. AllProper(tasks', u, k)
    BY <2>20, <2>23, <2>24 DEF AllProper
  <2> QED BY <1>3, <2>6, <2>10, <2>17, <2>25 DEF Sound
<1> QED BY <1>2, <1>3 DEF Relay

-----------------------------------------------------------------------------
(***************************************************************************)
(* One lemma per action: what it makes of a sound state is sound.          *)
(***************************************************************************)
LEMMA SoundNow ==
  ASSUME SocketInv
  PROVE  /\ dialled \in Nat /\ dialled <= MaxConnections /\ dialled \in 0 .. MaxConnections
         /\ GoodWorld(World, dialled) /\ AllProper(tasks, World, dialled)
         /\ World.conn = conn /\ World.registry = registry /\ World.late = late
BY SocketAssumption DEF SocketInv, Sound, World

\* An action that changes the connections and drops tasks, at most.
LEMMA WorldSound ==
  ASSUME SocketInv, NEW v, GoodWorld(v, dialled), Follows(v, World, dialled),
         conn' = v.conn, registry' = v.registry, late' = v.late, tasks' \subseteq tasks,
         dialled' = dialled
  PROVE  Sound(World', dialled', tasks')
<1>1. World' = v
  BY DEF GoodWorld, Worlds, World
<1>2. dialled <= dialled
  BY SoundNow
<1>3. AllProper(tasks, v, dialled)
  BY <1>2, SoundNow, AllProperFollows
<1>4. AllProper(tasks', v, dialled)
  BY <1>3 DEF AllProper
<1> QED BY <1>1, <1>4, SoundNow DEF Sound

LEMMA ConnectSound ==
  ASSUME SocketInv, NEW i \in 1 .. dialled, Connect(i)
  PROVE  Sound(World', dialled', tasks')
<1>1. PICK c \in ConnRecords : c = conn[i] /\ Sane(c)
  BY SoundNow, GoodConn
<1>2. PICK d : d = [c EXCEPT !.ends["dialer"].socket = "open", !.ends["listener"].socket = "open",
                            !.wires["listener"] = <<Line("hello")>>]
  OBVIOUS
<1>3. PICK dEnd : dEnd = [c.ends["dialer"] EXCEPT !.socket = "open"]
  OBVIOUS
<1>4. PICK lEnd : lEnd = [c.ends["listener"] EXCEPT !.socket = "open"]
  OBVIOUS
<1>5. /\ c.ends["dialer"] \in EndRecords /\ c.ends["listener"] \in EndRecords
      /\ c.wires["dialer"] \in Seq(Lines) /\ {"dialer", "listener"} \subseteq Sides
  BY SideFacts DEF ConnRecords
<1>6. /\ dEnd \in EndRecords /\ dEnd.socket = "open" /\ dEnd.authenticated = c.ends["dialer"].authenticated
      /\ dEnd.peerUrl = c.ends["dialer"].peerUrl /\ dEnd.ready = c.ends["dialer"].ready
  BY <1>3, <1>5 DEF EndRecords
<1>7. /\ lEnd \in EndRecords /\ lEnd.socket = "open" /\ lEnd.authenticated = c.ends["listener"].authenticated
      /\ lEnd.peerUrl = c.ends["listener"].peerUrl /\ lEnd.ready = c.ends["listener"].ready
  BY <1>4, <1>5 DEF EndRecords
<1>8. PICK line \in Lines : line = Line("hello") /\ line.type = "hello"
  BY HelloLine
<1>9. PICK lines \in Seq(Lines) : lines = <<line>> /\ Len(lines) = 1 /\ lines[1] = line
  <2>1. <<line>> \in Seq(Lines)
    OBVIOUS
  <2>2. Len(<<line>>) = 1 /\ <<line>>[1] = line
    OBVIOUS
  <2> QED BY <2>1, <2>2
<1>10. PICK e : e = Edited(c, "dialer", dEnd, c.wires["dialer"])
  OBVIOUS
<1>11. e \in ConnRecords /\ Sane(e) /\ Continues(e, c)
  <2>1. /\ c.ends["dialer"].authenticated => dEnd.authenticated
        /\ dEnd.authenticated => dEnd.peerUrl = Advertised[NodeAt(c, Other("dialer"))]
        /\ "dialer" = "dialer" /\ dEnd.ready = "resolved" => c.ends["listener"].authenticated
        /\ AllFit(c.wires["dialer"], c, "dialer")
    BY <1>1, <1>5, <1>6 DEF Sane
  <2> QED BY <1>1, <1>5, <1>6, <1>10, <2>1, EditedSane
<1>12. /\ e.ends["listener"] = c.ends["listener"] /\ e.ends["dialer"] = dEnd
       /\ e.dialer = c.dialer /\ e.url = c.url
  <2>1. /\ e.dialer = c.dialer /\ e.url = c.url /\ e.ends["dialer"] = dEnd
        /\ \A s \in Sides : s # "dialer" => e.ends[s] = c.ends[s]
    BY <1>5, <1>6, <1>10, EditedFields
  <2> QED BY <2>1, SideFacts
<1>13. PICK f : f = Edited(e, "listener", lEnd, lines)
  OBVIOUS
<1>14. f \in ConnRecords /\ Sane(f) /\ Continues(f, e)
  <2>1. AllFit(lines, e, "listener")
    <3>1. \A k \in 1 .. Len(lines) : lines[k] = line
      BY <1>9
    <3> QED BY <1>8, <3>1 DEF AllFit, Fits
  <2>2. /\ e.ends["listener"].authenticated => lEnd.authenticated
        /\ lEnd.authenticated => lEnd.peerUrl = Advertised[NodeAt(e, Other("listener"))]
        /\ lEnd.authenticated => Same(e.dialer, Owner[e.url])
    BY <1>5, <1>7, <1>11, <1>12 DEF Sane
  <2> QED BY <1>5, <1>7, <1>9, <1>11, <1>13, <2>1, <2>2, EditedSane
<1>15. d = f
  <2>1. d = [[[c EXCEPT !.ends["dialer"] = dEnd] EXCEPT !.ends["listener"] = lEnd] EXCEPT !.wires["listener"] = lines]
    BY <1>2, <1>3, <1>4, <1>8, <1>9 DEF ConnRecords
  <2>2. e = [c EXCEPT !.ends["dialer"] = dEnd]
    BY <1>5, <1>10, OnlyEndEdited
  <2>3. f = [[e EXCEPT !.ends["listener"] = lEnd] EXCEPT !.wires["listener"] = lines]
    BY <1>13 DEF Edited
  <2> QED BY <2>1, <2>2, <2>3
<1>16. f.ends["listener"] = lEnd /\ f.ends["dialer"] = dEnd
  <2>1. /\ f.ends["listener"] = lEnd
        /\ \A s \in Sides : s # "listener" => f.ends[s] = e.ends[s]
    <3>1. e \in ConnRecords
      BY <1>11
    <3>2. lEnd \in EndRecords
      BY <1>7
    <3>3. "listener" \in Sides
      BY <1>5
    <3> QED BY <3>1, <3>2, <3>3, <1>13, EditedFields
  <2> QED BY <1>12, <2>1, SideFacts
<1>17. Continues(d, c) /\ Stays(d, c)
  <2>1. Continues(d, c)
    BY <1>11, <1>14, <1>15 DEF Continues
  <2>2. Stays(d, c)
    BY <1>6, <1>7, <1>15, <1>16, SideFacts DEF Stays
  <2> QED BY <2>1, <2>2
<1>18. PICK v : v = [World EXCEPT !.conn[i] = d]
  OBVIOUS
<1>19. GoodWorld(v, dialled) /\ Follows(v, World, dialled)
  BY <1>1, <1>14, <1>15, <1>17, <1>18, SoundNow, ChangedGood
<1>20. conn' = [conn EXCEPT ![i] = d]
  BY <1>1, <1>2 DEF Connect
<1>21. v.conn = conn' /\ v.registry = registry /\ v.late = late
  BY <1>18, <1>20 DEF World
<1> QED BY <1>19, <1>21, WorldSound DEF Connect

\* The lines on their way to an end become fewer.
LEMMA LinesTaken ==
  ASSUME SocketInv, NEW i \in 1 .. dialled, NEW side \in Sides,
         NEW lines \in Seq(Lines), AllFit(lines, conn[i], side),
         NEW v, v = [World EXCEPT !.conn[i].wires[side] = lines]
  PROVE  GoodWorld(v, dialled) /\ Follows(v, World, dialled)
<1>1. PICK c \in ConnRecords : c = conn[i] /\ Sane(c)
  BY SoundNow, GoodConn
<1>2. PICK end \in EndRecords : end = c.ends[side]
  BY DEF ConnRecords
<1>3. PICK d : d = [c EXCEPT !.wires[side] = lines]
  OBVIOUS
<1>4. d = Edited(c, side, end, lines)
  BY <1>2, <1>3, OnlyLinesEdited
<1>5. d \in ConnRecords /\ Sane(d) /\ Continues(d, c)
  <2>1. /\ c.ends[side].authenticated => end.authenticated
        /\ end.authenticated => end.peerUrl = Advertised[NodeAt(c, Other(side))]
        /\ side = "dialer" /\ end.ready = "resolved" => c.ends["listener"].authenticated
        /\ side = "listener" /\ end.authenticated => Same(c.dialer, Owner[c.url])
    BY <1>1, <1>2 DEF Sane
  <2> QED BY <1>1, <1>4, <2>1, EditedSane
<1>6. Stays(d, c)
  BY <1>3 DEF Stays, ConnRecords
<1>7. v = [World EXCEPT !.conn[i] = d]
  BY <1>1, <1>3 DEF World
<1> QED BY <1>1, <1>5, <1>6, <1>7, SoundNow, ChangedGood

LEMMA ReceiveSound ==
  ASSUME SocketInv, NEW i \in 1 .. dialled, NEW side \in Sides, Receive(i, side)
  PROVE  Sound(World', dialled', tasks')
<1>1. PICK c \in ConnRecords : c = conn[i] /\ Sane(c)
  BY SoundNow, GoodConn
<1>2. c.wires[side] \in Seq(Lines) /\ c.wires[side] # <<>> /\ AllFit(c.wires[side], c, side)
  BY <1>1 DEF ConnRecords, Sane, Receive
<1>3. PICK lines \in Seq(Lines) : lines = Tail(c.wires[side]) /\ AllFit(lines, c, side)
  BY <1>2, TailFits
<1>4. PICK line \in Lines : line = Head(c.wires[side]) /\ Fits(line, c, side)
  BY <1>2, TailFits
<1>5. PICK w : w = [World EXCEPT !.conn[i].wires[side] = lines]
  OBVIOUS
<1>6. GoodWorld(w, dialled) /\ Follows(w, World, dialled)
  BY <1>1, <1>3, <1>5, LinesTaken
<1>7. Fits(line, w.conn[i], side)
  BY <1>1, <1>4, <1>6, SoundNow, FitsContinued DEF Follows
<1>8. PICK v : v = HandleLine(w, i, side, line)
  OBVIOUS
<1>9. GoodWorld(v, dialled) /\ Follows(v, w, dialled)
  BY <1>6, <1>7, <1>8, SoundNow, HandleLineGood
<1>10. [World EXCEPT !.conn[i].wires[side] = Tail(@)] = w
  BY <1>1, <1>3, <1>5 DEF World
<1>11. Becomes(v)
  BY <1>1, <1>4, <1>8, <1>10 DEF Receive
<1>12. Follows(v, World, dialled)
  BY <1>6, <1>9, FollowsOn
<1> QED BY <1>9, <1>11, <1>12, WorldSound DEF Receive, Becomes

LEMMA ReceiveItemSound ==
  ASSUME SocketInv, NEW i \in 1 .. dialled, NEW side \in Sides, ReceiveItem(i, side)
  PROVE  Sound(World', dialled', tasks')
<1>1. PICK c \in ConnRecords : c = conn[i] /\ Sane(c)
  BY SoundNow, GoodConn
<1>2. PICK wire \in Seq(Lines) : wire = c.wires[side]
  BY DEF ConnRecords
<1>3. wire # <<>> /\ AllFit(wire, c, side) /\ Head(wire).type = "item"
  BY <1>1, <1>2 DEF Sane, ReceiveItem
<1>4. PICK k \in 1 .. Len(wire) :
        /\ conn' = [conn EXCEPT ![i].wires[side] = SubSeq(wire, k + 1, Len(wire))]
        /\ tasks' = tasks \cup
               {[node |-> NodeAt(c, side), stage |-> "node", ttl |-> Head(wire).ttl, left |-> {},
                 dial |-> 0, from |-> i, side |-> side, rest |-> SubSeq(wire, 2, k)]}
  BY <1>1, <1>2 DEF ReceiveItem
<1>5. Len(wire) \in Nat /\ k + 1 \in Nat \ {0} /\ k \in 0 .. Len(wire) /\ Len(wire) \in 0 .. Len(wire)
  OBVIOUS
<1>6. PICK lines \in Seq(Lines) : lines = SubSeq(wire, k + 1, Len(wire)) /\ AllFit(lines, c, side)
  BY <1>3, <1>5, PartFits
<1>7. PICK rest \in Seq(Lines) : rest = SubSeq(wire, 2, k) /\ AllFit(rest, c, side)
  <2>1. 2 \in Nat \ {0}
    OBVIOUS
  <2> QED BY <1>3, <1>5, <2>1, PartFits
<1>8. PICK ttl \in 0 .. SocketTTL : ttl = Head(wire).ttl /\ ttl # 0
  <2>1. Head(wire) \in Lines /\ Fits(Head(wire), c, side)
    BY <1>3, TailFits
  <2> QED BY <1>3, <2>1 DEF Fits, Lines
<1>9. PICK v : v = [World EXCEPT !.conn[i].wires[side] = lines]
  OBVIOUS
<1>10. GoodWorld(v, dialled) /\ Follows(v, World, dialled)
  BY <1>1, <1>6, <1>9, LinesTaken
<1>11. World' = v
  BY <1>4, <1>6, <1>9 DEF World, ReceiveItem
<1>12. PICK n \in Hosts : n = NodeAt(c, side)
  BY NodeFacts
<1>13. PICK new : new = [node |-> n, stage |-> "node", ttl |-> ttl, left |-> {},
                         dial |-> 0, from |-> i, side |-> side, rest |-> rest]
  OBVIOUS
<1>14. tasks' = tasks \cup {new}
  BY <1>4, <1>7, <1>8, <1>12, <1>13
<1>15. new \in TaskRecords
  <2>1. i \in 0 .. MaxConnections /\ 0 \in 0 .. MaxConnections
    BY SoundNow, SocketAssumption
  <2> QED BY <1>13, <2>1 DEF TaskRecords
<1>16. AllFit(rest, v.conn[i], side)
  <2>1. Continues(v.conn[i], c)
    BY <1>1, <1>10, SoundNow DEF Follows
  <2> QED BY <1>7, <2>1, AllFitContinued
<1>17. Proper(new, v, dialled) /\ Waiting(new, dialled)
  BY <1>8, <1>13, <1>15, <1>16 DEF Proper, Waiting
<1>18. AllProper(tasks, v, dialled)
  <2>1. dialled <= dialled
    BY SoundNow
  <2> QED BY <1>10, <2>1, SoundNow, AllProperFollows
<1>19. AllProper(tasks', v, dialled)
  BY <1>14, <1>17, <1>18 DEF AllProper
<1> QED BY <1>10, <1>11, <1>19, SoundNow DEF Sound, ReceiveItem

LEMMA DestroySound ==
  ASSUME SocketInv, NEW i \in 1 .. dialled, NEW side \in Sides, NEW failed \in BOOLEAN,
         Becomes(Destroy(World, i, side, failed)), tasks' \subseteq tasks, dialled' = dialled
  PROVE  Sound(World', dialled', tasks')
<1>1. PICK v : v = Destroy(World, i, side, failed)
  OBVIOUS
<1>2. GoodWorld(v, dialled) /\ Follows(v, World, dialled)
  BY <1>1, SoundNow, DestroyGood
<1> QED BY <1>1, <1>2, WorldSound DEF Becomes

LEMMA HandshakeTimeoutSound ==
  ASSUME SocketInv, NEW i \in 1 .. dialled, NEW side \in Sides, HandshakeTimeout(i, side)
  PROVE  Sound(World', dialled', tasks')
BY DestroySound DEF HandshakeTimeout

LEMMA HangupSound ==
  ASSUME SocketInv, NEW i \in 1 .. dialled, NEW side \in Sides, Hangup(i, side)
  PROVE  Sound(World', dialled', tasks')
<1>1. PICK failed \in BOOLEAN : Becomes(Destroy(World, i, side, failed))
  BY DEF Hangup
<1> QED BY <1>1, DestroySound DEF Hangup

LEMMA RefusedSound ==
  ASSUME SocketInv, NEW task \in tasks, Refused(task)
  PROVE  Sound(World', dialled', tasks')
<1>1. task.from \in 1 .. dialled /\ task.side \in Sides
  BY SoundNow DEF AllProper, Proper, Waiting, TaskRecords, Refused
<1>2. Becomes(Destroy(World, task.from, task.side, TRUE))
  BY DEF Refused
<1> QED BY <1>1, <1>2, DestroySound DEF Refused

\* A close event drops a registration: of this connection, for one.
LEMMA CloseSound ==
  ASSUME SocketInv, NEW i \in 1 .. dialled, NEW side \in Sides, Close(i, side)
  PROVE  Sound(World', dialled', tasks')
<1>1. PICK c \in ConnRecords : c = conn[i] /\ Sane(c)
  BY SoundNow, GoodConn
<1>2. PICK was \in EndRecords : was = c.ends[side]
  BY DEF ConnRecords
<1>3. PICK end : end = EndClosed(was)
  OBVIOUS
<1>4. /\ end \in EndRecords /\ end.authenticated = was.authenticated /\ end.peerUrl = was.peerUrl
      /\ end.ready = "resolved" => was.ready = "resolved"
  BY <1>3 DEF EndClosed, Rejected, EndRecords
<1>5. PICK d : d = [c EXCEPT !.ends[side] = end]
  OBVIOUS
<1>6. PICK lines \in Seq(Lines) : lines = c.wires[side]
  BY DEF ConnRecords
<1>7. d = Edited(c, side, end, lines)
  BY <1>5, <1>6, OnlyEndEdited
<1>8. d \in ConnRecords /\ Sane(d) /\ Continues(d, c)
  <2>1. /\ c.ends[side].authenticated => end.authenticated
        /\ end.authenticated => end.peerUrl = Advertised[NodeAt(c, Other(side))]
        /\ side = "dialer" /\ end.ready = "resolved" => c.ends["listener"].authenticated
        /\ side = "listener" /\ end.authenticated => Same(c.dialer, Owner[c.url])
        /\ AllFit(lines, c, side)
    BY <1>1, <1>2, <1>4, <1>6 DEF Sane
  <2> QED BY <1>1, <1>4, <1>7, <2>1, EditedSane
<1>9. d.ends[side] = end /\ \A s \in Sides : s # side => d.ends[s] = c.ends[s]
  BY <1>4, <1>7, EditedFields
<1>10. World \in Worlds(dialled) /\ AllServe(World, dialled)
  BY SoundNow DEF GoodWorld
<1>11. PICK v : v = World'
  OBVIOUS
<1>12. PICK n \in Hosts : n = NodeAt(c, side)
  BY NodeFacts
<1>13. v.conn = [conn EXCEPT ![i] = d] /\ v.late = late /\ v.registry = registry'
  BY <1>1, <1>2, <1>3, <1>5, <1>11 DEF World, Close
<1>14. registry' = IF was.peerUrl = NoUrl THEN registry ELSE [registry EXCEPT ![n][was.peerUrl] = 0]
  BY <1>1, <1>2, <1>12 DEF Close
<1>15. /\ conn \in [1 .. dialled -> ConnRecords] /\ late \in BOOLEAN
       /\ registry \in [Hosts -> [Urls -> 0 .. MaxConnections]]
  BY <1>10, SoundNow DEF Worlds
<1>16. was.peerUrl = NoUrl \/ was.peerUrl \in Urls
  BY DEF EndRecords
<1>17. /\ registry' \in [Hosts -> [Urls -> 0 .. MaxConnections]]
       /\ \A p \in Hosts, q \in Urls :
            /\ registry'[p][q] \in {0, registry[p][q]}
            /\ p = n /\ q = was.peerUrl /\ was.peerUrl # NoUrl => registry'[p][q] = 0
  <2>1. CASE was.peerUrl = NoUrl
    BY <1>14, <1>15, <2>1
  <2>2. CASE was.peerUrl \in Urls
    <3>1. 0 \in 0 .. MaxConnections
      BY SocketAssumption
    <3>2. PICK url \in Urls : url = was.peerUrl
      BY <2>2
    <3>3. registry' = [registry EXCEPT ![n][url] = 0]
      BY <1>14, <3>2, SocketAssumption
    <3>4. registry' \in [Hosts -> [Urls -> 0 .. MaxConnections]]
      BY <1>15, <3>1, <3>3
    <3>5. \A p \in Hosts, q \in Urls : registry'[p][q] = IF p = n /\ q = url THEN 0 ELSE registry[p][q]
      BY <1>15, <3>3
    <3> QED BY <3>2, <3>4, <3>5
  <2> QED BY <1>16, <2>1, <2>2
<1>18. v \in Worlds(dialled) /\ v = [conn |-> v.conn, registry |-> v.registry, late |-> v.late]
  BY <1>8, <1>11, <1>13, <1>15, <1>17 DEF Worlds, World
<1>19. \A j \in 1 .. dialled : v.conn[j] = IF j = i THEN d ELSE conn[j]
  BY <1>13, <1>15
<1>20. ASSUME NEW p \in Hosts, NEW q \in Urls, v.registry[p][q] # 0
       PROVE  v.registry[p][q] \in 1 .. dialled /\ Serves(v.conn[v.registry[p][q]], p, q, v.late)
  <2>1. PICK j : j = v.registry[p][q]
    OBVIOUS
  <2>2. j = registry[p][q] /\ j # 0
    BY <1>13, <1>17, <1>20, <2>1
  <2>3. j \in 1 .. dialled /\ Serves(conn[j], p, q, late)
    BY <1>10, <2>2, SoundNow DEF AllServe
  <2>4. CASE j # i
    BY <1>13, <1>19, <2>1, <2>3, <2>4
  <2>5. CASE j = i
    <3>1. Serves(c, p, q, late)
      BY <1>1, <2>3, <2>5
    <3>2. PICK s \in Sides :
            /\ NodeAt(c, s) = p /\ q = Advertised[NodeAt(c, Other(s))]
            /\ c.ends[s].authenticated
            /\ c.ends[s].socket = "closed" => late
      BY <3>1 DEF Serves
    <3>3. s # side
      <4> SUFFICES ASSUME s = side PROVE FALSE
        OBVIOUS
      <4>1. was.peerUrl = q
        BY <1>1, <1>2, <3>2 DEF Sane
      <4>2. p = n /\ q # NoUrl
        BY <1>12, <3>2, SocketAssumption
      <4>3. registry'[p][q] = 0
        BY <1>17, <4>1, <4>2
      <4> QED BY <1>13, <1>20, <4>3
    <3>4. \A x \in Sides : NodeAt(d, x) = NodeAt(c, x)
      BY <1>8 DEF Continues, NodeAt
    <3>5. d.ends[s] = c.ends[s]
      BY <1>9, <3>3
    <3>6. Serves(d, p, q, late)
      BY <3>2, <3>4, <3>5, SideFacts DEF Serves
    <3> QED BY <1>13, <1>19, <2>1, <2>3, <2>5, <3>6
  <2> QED BY <2>4, <2>5
<1>21. GoodWorld(v, dialled)
  <2>1. \A j \in 1 .. dialled : Sane(v.conn[j])
    <3>1. \A j \in 1 .. dialled : Sane(conn[j])
      BY SoundNow, GoodConn
    <3> QED BY <1>8, <1>19, <3>1
  <2> QED BY <1>18, <1>20, <2>1 DEF GoodWorld, AllServe
<1>22. Follows(v, World, dialled)
  <2>1. \A x : Continues(x, x)
    BY DEF Continues
  <2> QED BY <1>1, <1>8, <1>19, <2>1, SoundNow DEF Follows
<1>23. tasks' \subseteq tasks /\ dialled' = dialled
  BY DEF Close
<1>24. conn' = v.conn /\ registry' = v.registry /\ late' = v.late
  BY <1>11 DEF World
<1> QED BY <1>21, <1>22, <1>23, <1>24, WorldSound

LEMMA SocketBroadcastSound ==
  ASSUME SocketInv, NEW n \in Hosts, NEW ttl \in {0, SocketTTL}, SocketBroadcast(n, ttl)
  PROVE  Sound(World', dialled', tasks')
<1>1. PICK targets \in Targets(n, {}) :
        Relay(World, [node |-> n, stage |-> "relay", ttl |-> ttl, left |-> targets, dial |-> 0,
                      from |-> 0, side |-> "dialer", rest |-> <<>>], tasks)
  BY DEF SocketBroadcast
<1>2. PICK none \in Seq(Lines) : none = <<>>
  BY EmptySeq
<1>3. PICK task : task = [node |-> n, stage |-> "relay", ttl |-> ttl, left |-> targets, dial |-> 0,
                          from |-> 0, side |-> "dialer", rest |-> none]
  OBVIOUS
<1>4. targets \subseteq Urls /\ \A url \in targets : Owner[url] # n
  BY DEF Targets
<1>5. task \in TaskRecords
  <2>1. 0 \in 0 .. MaxConnections /\ ttl \in 0 .. SocketTTL
    BY SocketAssumption
  <2> QED BY <1>3, <1>4, <2>1, SideFacts DEF TaskRecords
<1>6. Proper(task, World, dialled)
  BY <1>2, <1>3, <1>4, <1>5 DEF Proper
<1>7. Relay(World, task, tasks)
  BY <1>1, <1>2, <1>3
<1> QED BY <1>6, <1>7, SoundNow, RelaySound

LEMMA AcceptedSound ==
  ASSUME SocketInv, NEW task \in tasks, Accepted(task)
  PROVE  Sound(World', dialled', tasks')
<1>1. PICK targets \in Targets(task.node, {conn[task.from].ends[task.side].peerUrl}) :
        Relay(World, [task EXCEPT !.ttl = @ - 1, !.left = IF task.ttl = 1 THEN {} ELSE targets], tasks \ {task})
  BY DEF Accepted
<1>2. Proper(task, World, dialled) /\ Waiting(task, dialled) /\ task.stage = "node"
  BY SoundNow DEF AllProper, Accepted
<1>3. PICK left \in SUBSET targets : left = IF task.ttl = 1 THEN {} ELSE targets
  OBVIOUS
<1>4. PICK ttl \in 0 .. SocketTTL : ttl = task.ttl - 1
  BY <1>2, SocketAssumption DEF Proper, Waiting, TaskRecords
<1>5. PICK t : t = [task EXCEPT !.ttl = ttl, !.left = left]
  OBVIOUS
<1>6. left \subseteq Urls /\ \A url \in left : Owner[url] # task.node
  BY DEF Targets
<1>7. task \in TaskRecords
  BY <1>2 DEF Proper
<1>8. /\ t \in TaskRecords /\ t.left = left /\ t.node = task.node /\ t.rest = task.rest
      /\ t.from = task.from /\ t.side = task.side
  BY <1>5, <1>6, <1>7 DEF TaskRecords
<1>9. Proper(t, World, dialled)
  BY <1>2, <1>6, <1>8 DEF Proper
<1>10. Relay(World, t, tasks \ {task})
  BY <1>1, <1>3, <1>4, <1>5, <1>7 DEF TaskRecords
<1>11. AllProper(tasks \ {task}, World, dialled)
  BY SoundNow DEF AllProper
<1> QED BY <1>9, <1>10, <1>11, SoundNow, RelaySound

LEMMA DialSettledSound ==
  ASSUME SocketInv, NEW task \in tasks, DialSettled(task)
  PROVE  Sound(World', dialled', tasks')
<1>1. PICK numbers :
        Relay(Sent(World, task, numbers), [task EXCEPT !.dial = 0], tasks \ {task})
  BY DEF DialSettled
<1>2. Proper(task, World, dialled)
  BY SoundNow DEF AllProper
<1>3. task \in TaskRecords
  BY <1>2 DEF Proper
<1>4. PICK w : w = Sent(World, task, numbers)
  OBVIOUS
<1>5. GoodWorld(w, dialled) /\ Follows(w, World, dialled)
  BY <1>3, <1>4, SoundNow, SentGood
<1>6. PICK t : t = [task EXCEPT !.dial = 0]
  OBVIOUS
<1>7. /\ t \in TaskRecords /\ t.left = task.left /\ t.node = task.node /\ t.rest = task.rest
      /\ t.from = task.from /\ t.side = task.side
  <2>1. 0 \in 0 .. MaxConnections
    BY SocketAssumption
  <2> QED BY <1>3, <1>6, <2>1 DEF TaskRecords
<1>8. dialled <= dialled
  BY SoundNow
<1>9. Proper(task, w, dialled)
  BY <1>2, <1>5, <1>8, SoundNow, ProperFollows
<1>10. Proper(t, w, dialled)
  BY <1>7, <1>9 DEF Proper
<1>11. AllProper(tasks, w, dialled)
  BY <1>5, <1>8, SoundNow, AllProperFollows
<1>12. AllProper(tasks \ {task}, w, dialled)
  BY <1>11 DEF AllProper
<1>13. Relay(w, t, tasks \ {task})
  BY <1>1, <1>4, <1>6
<1> QED BY <1>5, <1>10, <1>12, <1>13, SoundNow, RelaySound

-----------------------------------------------------------------------------
(***************************************************************************)
(* Stop and SocketRestart: sockets of one node get another state, and none *)
(* of its registrations is left.                                           *)
(***************************************************************************)
GoneEnds(c, mine, socket) ==
  [side \in Sides |-> IF side \in mine THEN [c.ends[side] EXCEPT !.socket = socket] ELSE c.ends[side]]
GoneWires(c, mine) == [side \in Sides |-> IF side \in mine THEN <<>> ELSE c.wires[side]]
Parted(c, mine, socket) == [c EXCEPT !.ends = GoneEnds(c, mine, socket), !.wires = GoneWires(c, mine)]

LEMMA GoneConnection ==
  ASSUME NEW c \in ConnRecords, Sane(c), NEW mine, NEW socket \in {"destroyed", "closed"},
         NEW d, d = Parted(c, mine, socket)
  PROVE  /\ d \in ConnRecords /\ Sane(d) /\ Continues(d, c)
         /\ \A side \in Sides : side \notin mine => d.ends[side] = c.ends[side]
<1>1. PICK ends : ends = GoneEnds(c, mine, socket)
  OBVIOUS
<1>2. PICK wires : wires = GoneWires(c, mine)
  OBVIOUS
<1>3. PICK none \in Seq(Lines) : none = <<>>
  BY EmptySeq
<1>4. ASSUME NEW side \in Sides
      PROVE  /\ ends[side] \in EndRecords
             /\ ends[side].authenticated = c.ends[side].authenticated
             /\ ends[side].peerUrl = c.ends[side].peerUrl
             /\ ends[side].ready = c.ends[side].ready
             /\ side \notin mine => ends[side] = c.ends[side]
  <2>1. c.ends[side] \in EndRecords
    BY DEF ConnRecords
  <2>2. ends[side] = IF side \in mine THEN [c.ends[side] EXCEPT !.socket = socket] ELSE c.ends[side]
    BY <1>1 DEF GoneEnds
  <2>3. CASE side \in mine
    BY <2>1, <2>2, <2>3 DEF EndRecords
  <2>4. CASE side \notin mine
    BY <2>1, <2>2, <2>4
  <2> QED BY <2>3, <2>4
<1>5. \A side \in Sides : wires[side] = IF side \in mine THEN none ELSE c.wires[side]
  BY <1>2, <1>3 DEF GoneWires
<1>6. ends \in [Sides -> EndRecords] /\ wires \in [Sides -> Seq(Lines)]
  <2>1. ends \in [Sides -> EndRecords]
    BY <1>1, <1>4 DEF GoneEnds
  <2>2. \A side \in Sides : c.wires[side] \in Seq(Lines)
    BY DEF ConnRecords
  <2>3. wires = [side \in Sides |-> wires[side]]
    BY <1>2 DEF GoneWires
  <2> QED BY <1>5, <2>1, <2>2, <2>3
<1>7. /\ d \in ConnRecords /\ d.ends = ends /\ d.wires = wires
      /\ d.dialer = c.dialer /\ d.url = c.url
  BY <1>1, <1>2, <1>6 DEF ConnRecords, Parted
<1>8. Continues(d, c)
  BY <1>4, <1>7 DEF Continues
<1>9. \A side \in Sides : NodeAt(d, side) = NodeAt(c, side)
  BY <1>7 DEF NodeAt
<1>10. ASSUME NEW side \in Sides
       PROVE  /\ AllFit(d.wires[side], d, side)
              /\ d.ends[side].authenticated => d.ends[side].peerUrl = Advertised[NodeAt(d, Other(side))]
  <2>1. AllFit(d.wires[side], d, side)
    <3>1. CASE side \in mine
      BY <1>3, <1>5, <1>7, <3>1, EmptyFits
    <3>2. CASE side \notin mine
      <4>1. AllFit(c.wires[side], c, side)
        BY DEF Sane
      <4> QED BY <1>5, <1>7, <1>8, <3>2, <4>1, AllFitContinued
    <3> QED BY <3>1, <3>2
  <2>2. d.ends[side].authenticated => d.ends[side].peerUrl = Advertised[NodeAt(c, Other(side))]
    BY <1>4, <1>7 DEF Sane
  <2> QED BY <1>9, <2>1, <2>2, SideFacts
<1>11. /\ d.dialer # Owner[d.url]
       /\ d.ends["dialer"].ready = "resolved" => d.ends["listener"].authenticated
       /\ d.ends["listener"].authenticated => Same(d.dialer, Owner[d.url])
  BY <1>4, <1>7, SideFacts DEF Sane
<1>12. Sane(d)
  BY <1>10, <1>11 DEF Sane
<1> QED BY <1>4, <1>7, <1>8, <1>12

LEMMA GoneSound ==
  ASSUME SocketInv, NEW n \in Hosts, NEW socket \in {"destroyed", "closed"},
         conn' = Gone(n, socket), registry' = [registry EXCEPT ![n] = [url \in Urls |-> 0]],
         late' = late, tasks' \subseteq tasks, dialled' = dialled
  PROVE  Sound(World', dialled', tasks')
<1> DEFINE mine(i) == {side \in Sides : /\ NodeAt(conn[i], side) = n
                                        /\ conn[i].ends[side].socket \in {"opening", "open", "destroyed"}}
<1>1. World \in Worlds(dialled) /\ AllServe(World, dialled)
  BY SoundNow DEF GoodWorld
<1>2. /\ conn \in [1 .. dialled -> ConnRecords] /\ late \in BOOLEAN
      /\ registry \in [Hosts -> [Urls -> 0 .. MaxConnections]]
  BY <1>1, SoundNow DEF Worlds
<1>3. ASSUME NEW i \in 1 .. dialled
      PROVE  conn'[i] = [conn[i] EXCEPT !.ends = GoneEnds(conn[i], mine(i), socket),
                                        !.wires = GoneWires(conn[i], mine(i))]
  BY <1>2 DEF Gone, GoneEnds, GoneWires, ConnRecords
<1>4. ASSUME NEW i \in 1 .. dialled
      PROVE  /\ conn'[i] \in ConnRecords /\ Sane(conn'[i]) /\ Continues(conn'[i], conn[i])
             /\ \A side \in Sides : side \notin mine(i) => conn'[i].ends[side] = conn[i].ends[side]
  <2>1. PICK c \in ConnRecords : c = conn[i] /\ Sane(c)
    BY SoundNow, GoodConn
  <2>2. PICK d : d = conn'[i]
    OBVIOUS
  <2>3. PICK own : own = mine(i)
    OBVIOUS
  <2>4. d = Parted(c, own, socket)
    BY <1>3, <2>1, <2>2, <2>3 DEF Parted
  <2> HIDE DEF mine
  <2>5. /\ d \in ConnRecords /\ Sane(d) /\ Continues(d, c)
        /\ \A s \in Sides : s \notin own => d.ends[s] = c.ends[s]
    BY <2>1, <2>4, GoneConnection
  <2>6. conn'[i] \in ConnRecords /\ Sane(conn'[i]) /\ Continues(conn'[i], conn[i])
    BY <2>1, <2>2, <2>5
  <2>7. \A s \in Sides : s \notin mine(i) => conn'[i].ends[s] = conn[i].ends[s]
    BY <2>1, <2>2, <2>3, <2>5
  <2> QED BY <2>6, <2>7
<1>5. PICK v : v = World'
  OBVIOUS
<1>6. PICK fresh : fresh = [url \in Urls |-> 0]
  OBVIOUS
<1>7. fresh \in [Urls -> 0 .. MaxConnections] /\ \A url \in Urls : fresh[url] = 0
  <2>1. 0 \in 0 .. MaxConnections
    BY SocketAssumption
  <2> QED BY <1>6, <2>1
<1>8. /\ v.conn = conn' /\ v.late = late /\ v.registry = [registry EXCEPT ![n] = fresh]
      /\ v = [conn |-> v.conn, registry |-> v.registry, late |-> v.late]
  BY <1>5, <1>6 DEF World
<1>9. v.conn \in [1 .. dialled -> ConnRecords]
  <2>1. conn' = [i \in 1 .. dialled |-> conn'[i]]
    BY DEF Gone
  <2> HIDE DEF mine
  <2> QED BY <1>4, <1>8, <2>1
<1>10. v.registry \in [Hosts -> [Urls -> 0 .. MaxConnections]]
  BY <1>2, <1>7, <1>8
<1>11. v \in Worlds(dialled)
  BY <1>2, <1>8, <1>9, <1>10 DEF Worlds
<1>12. ASSUME NEW p \in Hosts, NEW q \in Urls, v.registry[p][q] # 0
       PROVE  v.registry[p][q] \in 1 .. dialled /\ Serves(v.conn[v.registry[p][q]], p, q, v.late)
  <2>1. PICK j : j = v.registry[p][q]
    OBVIOUS
  <2>2. p # n
    BY <1>2, <1>7, <1>8, <1>12
  <2>3. j = registry[p][q] /\ j # 0
    BY <1>2, <1>8, <1>12, <2>1, <2>2
  <2>4. j \in 1 .. dialled /\ Serves(conn[j], p, q, late)
    BY <1>1, <2>3, SoundNow DEF AllServe
  <2>5. PICK c \in ConnRecords : c = conn[j]
    BY <1>2, <2>4
  <2>6. PICK s \in Sides :
          /\ NodeAt(c, s) = p /\ q = Advertised[NodeAt(c, Other(s))]
          /\ c.ends[s].authenticated
          /\ c.ends[s].socket = "closed" => late
    BY <2>4, <2>5 DEF Serves
  <2>7. PICK d : d = conn'[j]
    OBVIOUS
  <2>8. s \notin mine(j)
    BY <2>2, <2>5, <2>6
  <2>9. d.ends[s] = c.ends[s] /\ Continues(d, c)
    BY <1>4, <2>4, <2>5, <2>7, <2>8
  <2>10. \A x \in Sides : NodeAt(d, x) = NodeAt(c, x)
    BY <2>9 DEF Continues, NodeAt
  <2>11. Serves(d, p, q, late)
    BY <2>6, <2>9, <2>10, SideFacts DEF Serves
  <2> QED BY <1>8, <2>1, <2>4, <2>7, <2>11
<1>13. GoodWorld(v, dialled)
  <2>1. \A j \in 1 .. dialled : Sane(v.conn[j])
    BY <1>4, <1>8
  <2> QED BY <1>11, <1>12, <2>1 DEF GoodWorld, AllServe
<1>14. Follows(v, World, dialled)
  BY <1>4, <1>8, SoundNow DEF Follows
<1>15. conn' = v.conn /\ registry' = v.registry /\ late' = v.late
  BY <1>5 DEF World
<1> QED BY <1>13, <1>14, <1>15, WorldSound

LEMMA StopSound ==
  ASSUME SocketInv, NEW n \in Hosts, Stop(n)
  PROVE  Sound(World', dialled', tasks')
BY GoneSound DEF Stop

LEMMA SocketRestartSound ==
  ASSUME SocketInv, NEW n \in Hosts, SocketRestart(n)
  PROVE  Sound(World', dialled', tasks')
BY GoneSound DEF SocketRestart

-----------------------------------------------------------------------------
LEMMA SocketInitial ==
  ASSUME SocketInit
  PROVE  SocketInv
<1>1. /\ conn = <<>> /\ dialled = 0 /\ tasks = {} /\ late = FALSE
      /\ registry = [n \in Hosts |-> [url \in Urls |-> 0]]
  BY DEF SocketInit
<1>2. 0 \in 0 .. MaxConnections /\ 1 .. 0 = {}
  BY SocketAssumption
<1>3. registry \in [Hosts -> [Urls -> 0 .. MaxConnections]]
  BY <1>1, <1>2
<1>4. conn \in [1 .. dialled -> ConnRecords]
  BY <1>1, <1>2
<1>5. SocketTypeOK
  <2>1. network \in Networks /\ listening = Hosts /\ begun = 0 /\ stops = 0
    BY DEF SocketInit
  <2>2. {begun, stops} \subseteq Nat /\ listening \subseteq Hosts /\ late \in BOOLEAN /\ tasks \subseteq TaskRecords
    <3>1. {begun, stops} \subseteq Nat
      BY <2>1
    <3>2. listening \subseteq Hosts /\ tasks \subseteq TaskRecords
      BY <1>1, <2>1
    <3>3. late \in BOOLEAN
      BY <1>1
    <3> QED BY <3>1, <3>2, <3>3
  <2>3. dialled \in 0 .. MaxConnections
    BY <1>1, <1>2
  <2> QED BY <1>3, <1>4, <2>1, <2>2, <2>3 DEF SocketTypeOK
<1>6. World \in Worlds(dialled)
  BY <1>1, <1>3, <1>4 DEF World, Worlds
<1>7. \A n \in Hosts, url \in Urls : World.registry[n][url] = 0
  BY <1>1 DEF World
<1>8. GoodWorld(World, dialled)
  BY <1>1, <1>2, <1>6, <1>7 DEF GoodWorld, AllServe
<1> QED BY <1>1, <1>2, <1>5, <1>8 DEF SocketInv, Sound, AllProper

\* What a step makes of the rest of the state.
LEMMA SocketStepOutside ==
  ASSUME SocketTypeOK, SocketNext
  PROVE  network' = network /\ listening' \subseteq Hosts /\ {begun', stops'} \subseteq Nat
<1> USE DEF SocketTypeOK
<1>1. CASE \E i \in 1 .. dialled :
             \/ Connect(i)
             \/ \E side \in Sides : \/ Receive(i, side) \/ ReceiveItem(i, side) \/ HandshakeTimeout(i, side)
                                    \/ Hangup(i, side) \/ Close(i, side)
  BY <1>1 DEF Connect, Receive, ReceiveItem, HandshakeTimeout, Hangup, Close
<1>2. \A w, task, others : Relay(w, task, others) => network' = network
  BY DEF Relay, Finish
<1>3. CASE \E n \in Hosts, ttl \in {0, SocketTTL} : SocketBroadcast(n, ttl)
  BY <1>2, <1>3 DEF SocketBroadcast
<1>4. CASE \E n \in Hosts : Stop(n) \/ SocketRestart(n)
  BY <1>4 DEF Stop, SocketRestart
<1>5. CASE \E task \in tasks : Accepted(task) \/ Refused(task) \/ DialSettled(task)
  BY <1>2, <1>5 DEF Accepted, Refused, DialSettled
<1> QED BY <1>1, <1>3, <1>4, <1>5 DEF SocketNext

LEMMA SocketStepSound ==
  ASSUME SocketInv, SocketNext
  PROVE  Sound(World', dialled', tasks')
<1>1. CASE \E i \in 1 .. dialled :
             \/ Connect(i)
             \/ \E side \in Sides : \/ Receive(i, side) \/ ReceiveItem(i, side) \/ HandshakeTimeout(i, side)
                                    \/ Hangup(i, side) \/ Close(i, side)
  BY <1>1, ConnectSound, ReceiveSound, ReceiveItemSound, HandshakeTimeoutSound, HangupSound, CloseSound
<1>2. CASE \E n \in Hosts : (\E ttl \in {0, SocketTTL} : SocketBroadcast(n, ttl)) \/ Stop(n) \/ SocketRestart(n)
  BY <1>2, SocketBroadcastSound, StopSound, SocketRestartSound
<1>3. CASE \E task \in tasks : Accepted(task) \/ Refused(task) \/ DialSettled(task)
  BY <1>3, AcceptedSound, RefusedSound, DialSettledSound
<1> QED BY <1>1, <1>2, <1>3 DEF SocketNext

\* Soundness speaks of the network, which no step changes.
LEMMA SoundNext ==
  ASSUME network' = network, Sound(World', dialled', tasks')
  PROVE  Sound(World, dialled, tasks)'
<1>1. \A n, m : Same(n, m) <=> Same(n, m)'
  BY DEF Same
<1>2. \A c : Sane(c) <=> Sane(c)'
  BY <1>1 DEF Sane, AllFit, Fits, NodeAt
<1>3. \A w, m : AllServe(w, m) <=> AllServe(w, m)'
  BY DEF AllServe, Serves, NodeAt
<1>4. \A w, m : GoodWorld(w, m) <=> GoodWorld(w, m)'
  BY <1>2, <1>3 DEF GoodWorld, Worlds
<1>5. \A ts, w, m : AllProper(ts, w, m) <=> AllProper(ts, w, m)'
  BY DEF AllProper, Proper, Waiting, AllFit, Fits
<1> QED BY <1>4, <1>5 DEF Sound

LEMMA SocketStep ==
  ASSUME SocketInv, [SocketNext]_socketVars
  PROVE  SocketInv'
<1>1. CASE SocketNext
  <2>1. SocketTypeOK
    BY DEF SocketInv
  <2>2. network' = network /\ listening' \subseteq Hosts /\ {begun', stops'} \subseteq Nat
    BY <1>1, <2>1, SocketStepOutside
  <2>3. Sound(World', dialled', tasks')
    BY <1>1, SocketStepSound
  <2>4. Sound(World, dialled, tasks)'
    BY <2>2, <2>3, SoundNext
  <2>5. dialled' \in 0 .. MaxConnections /\ World' \in Worlds(dialled') /\ tasks' \subseteq TaskRecords
    BY <2>3 DEF Sound, GoodWorld, AllProper, Proper
  <2>6. SocketTypeOK'
    BY <2>1, <2>2, <2>5 DEF SocketTypeOK, Worlds, World
  <2> QED BY <2>4, <2>6 DEF SocketInv
<1>2. CASE UNCHANGED socketVars
  BY <1>2 DEF SocketInv, SocketTypeOK, socketVars, Sound, GoodWorld, Worlds, World, AllServe, Serves, NodeAt,
     Sane, Same, AllFit, Fits, AllProper, Proper, Waiting
<1> QED BY <1>1, <1>2

\* In every reachable state of the transport, connections, registrations
\* and the tasks that wait are well-formed.
THEOREM SocketTypeCorrect == SocketSpec => []SocketTypeOK
<1>1. SocketInv => SocketTypeOK
  BY DEF SocketInv
<1> QED BY <1>1, SocketInitial, SocketStep, PTL DEF SocketSpec

\* For any nodes, URLs and networks, and however their handshakes, failed
\* dials, close events, stops and restarts overlap: a registered connection
\* leads to the node of its URL, was authenticated, and its close event is
\* yet to come, unless a hello_ack was handled after one.
THEOREM RegisteredStaysAlive == SocketSpec => []RegisteredIsAlive
<1>1. SocketInv => RegisteredIsAlive
  <2> SUFFICES ASSUME SocketInv, NEW n \in Hosts, NEW url \in Urls, registry[n][url] # 0
               PROVE  LET c == conn[registry[n][url]]
                          side == SideOf(registry[n][url], n)
                      IN /\ c.ends[side].authenticated
                         /\ NodeAt(c, Other(side)) = Owner[url]
                         /\ c.ends[side].socket # "closed" \/ late
    BY DEF RegisteredIsAlive
  <2>1. PICK i : i = registry[n][url]
    OBVIOUS
  <2>2. i \in 1 .. dialled /\ Serves(conn[i], n, url, late)
    BY <2>1, SoundNow DEF GoodWorld, AllServe
  <2>3. PICK c \in ConnRecords : c = conn[i] /\ Sane(c)
    BY <2>2, SoundNow, GoodConn
  <2>4. PICK side \in Sides :
          /\ NodeAt(c, side) = n /\ url = Advertised[NodeAt(c, Other(side))]
          /\ c.ends[side].authenticated
          /\ c.ends[side].socket = "closed" => late
    BY <2>2, <2>3 DEF Serves
  <2>5. side = SideOf(i, n)
    BY <2>3, <2>4, SideFacts DEF Sane, NodeAt, SideOf
  <2>6. Owner[url] = NodeAt(c, Other(side))
    BY <2>4, NodeFacts, SideFacts
  <2> QED BY <2>1, <2>3, <2>4, <2>5, <2>6
<1> QED BY <1>1, SocketInitial, SocketStep, PTL DEF SocketSpec

\* For any nodes and networks: a dial that is answered (connection.ready, not
\* the early return of a connection registered before) was authenticated by the
\* other node too, and only with the same chain and secret.
THEOREM ReadyStaysMutual == SocketSpec => []ReadyIsMutual
<1>1. SocketInv => ReadyIsMutual
  <2>1. SocketInv => \A i \in 1 .. dialled : Sane(conn[i])
    BY SoundNow, GoodConn
  <2> QED BY <2>1 DEF ReadyIsMutual, Sane
<1> QED BY <1>1, SocketInitial, SocketStep, PTL DEF SocketSpec
=============================================================================
