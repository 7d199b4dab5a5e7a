----------------------------- MODULE PeerHealth -----------------------------
(***************************************************************************)
(* A node's directory of peers and what it makes of their answers: scores, *)
(* failure streaks and quarantine, the probes, syncs and relays under way  *)
(* and the peers that relays choose.                                       *)
(*                                                                         *)
(* A request is answered, refused or timed out some time after it was      *)
(* sent, and the directory may have changed in between.  A call under way  *)
(* is a probe round or a sync, which take one peer after the other, or a   *)
(* relay, which waits for all its peers at once.                           *)
(***************************************************************************)
EXTENDS Integers, FiniteSets

CONSTANTS
  HttpPeers,     \* URLs of peers reached over HTTP
  SocketPeers,   \* URLs of peers reached over the socket transport
  Strangers,     \* "socket:<id>" of sockets that never named their peer
  Configured,    \* options.peers
  Fanout,        \* DEFAULT_BLOCK_GOSSIP_FANOUT and its like
  LowestScore,   \* bounds of clampPeerScore, -100 and 100 in the code
  HighestScore,
  Timer,         \* the call of the sync timer
  Others,        \* bound: the calls of operators and relays
  Imports,       \* what the imports of a sync may add to a score
  MaxFailures,   \* bound: requests that fail
  NoPeer

Peers == HttpPeers \cup SocketPeers
Entries == Peers \cup Strangers
Calls == Others \cup {Timer}

PEER_QUARANTINE_FAILURE_STREAK == 3
PEER_QUARANTINE_SCORE == -20

ASSUME PeerHealthAssumption ==
  /\ IsFiniteSet(HttpPeers) /\ IsFiniteSet(SocketPeers)
  /\ HttpPeers \cap SocketPeers = {}
  /\ Strangers \cap Peers = {}
  /\ NoPeer \notin Entries
  /\ Configured \subseteq Peers
  /\ Fanout \in Nat \ {0}
  /\ LowestScore \in Int /\ LowestScore <= -20
  /\ HighestScore \in Nat
  /\ Imports \subseteq 0 .. 7
  /\ MaxFailures \in Nat

VARIABLES
  peerDirectory,   \* entry -> its record
  calls,           \* call -> the request under way
  strikes,         \* entry -> failures the node still holds against it: those since its
                   \*   last good answer, or since an operator's restore, an import or a
                   \*   restart forgot them; at most 3, where an answer from another
                   \*   chain counts for three
  failures         \* requests that failed so far

peerVars == <<peerDirectory, calls, strikes, failures>>

Statuses == {"unlisted", "registered", "reachable", "failed", "quarantined", "incompatible"}

\* An entry of peerDirectory, or none.
Records == [score : LowestScore .. HighestScore, streak : Nat, status : Statuses, quarantined : BOOLEAN]
Unlisted == [score |-> 0, streak |-> 0, status |-> "unlisted", quarantined |-> FALSE]
Registered == [Unlisted EXCEPT !.status = "registered"]

\* What is under way: the peers to come (all at once for a relay), and the
\* peer that a sync is busy with after its /health answered.
Requests == [kind : {"none", "probe", "sync", "relay"}, left : SUBSET Entries,
             at : HttpPeers \cup {NoPeer}, stage : {"peers", "blocks"}, found : 0 .. 2]
NoRequest == [kind |-> "none", left |-> {}, at |-> NoPeer, stage |-> "peers", found |-> 0]

PeerTypeOK ==
  /\ peerDirectory \in [Entries -> Records]
  /\ calls \in [Calls -> Requests]
  /\ strikes \in [Entries -> 0 .. 3]
  /\ failures \in Nat

clampPeerScore(score) ==
  IF score > HighestScore THEN HighestScore ELSE IF score < LowestScore THEN LowestScore ELSE score

Listed(directory, entry) == directory[entry].status # "unlisted"

\* buildPeerView.
Quarantined(record) ==
  \/ record.status = "incompatible"
  \/ record.quarantined
  \/ record.streak >= PEER_QUARANTINE_FAILURE_STREAK
  \/ record.score <= PEER_QUARANTINE_SCORE

BroadcastEligible(directory, entry) == Listed(directory, entry) /\ ~Quarantined(directory[entry])

-----------------------------------------------------------------------------
(* The operations on the directory. *)

\* Mutants of AddPeers: a listed peer that is announced starts afresh.
AddPeersAfresh(directory, entries) ==
  [entry \in Entries |-> IF entry \in entries THEN Registered ELSE directory[entry]]

\* addPeer keeps what is known of a listed peer.
AddPeers(directory, entries) ==
  [entry \in Entries |->
     IF entry \in entries /\ ~Listed(directory, entry) THEN Registered ELSE directory[entry]]

NotePeerSeen(directory, peer) ==
  [AddPeers(directory, {peer}) EXCEPT ![peer].status = "reachable"]

RecordPeerSuccess(directory, peer, found, imported) ==
  [directory EXCEPT ![peer] =
     [score |-> clampPeerScore(@.score + 2 + imported + found),
      streak |-> 0, status |-> "reachable", quarantined |-> FALSE]]

\* Four points and two for each failure in a row, up to four of them.
Penalty(streak) == 4 + 2 * (IF streak < 4 THEN streak ELSE 4)

RecordPeerFailure(directory, peer, status) ==
  LET streak == directory[peer].streak + 1
      score == clampPeerScore(directory[peer].score - Penalty(streak))
      quarantine == \/ status = "incompatible"
                    \/ streak >= PEER_QUARANTINE_FAILURE_STREAK
                    \/ score <= PEER_QUARANTINE_SCORE
  IN [directory EXCEPT ![peer] =
        [score |-> score, streak |-> streak,
         status |-> IF quarantine /\ status = "failed" THEN "quarantined" ELSE status,
         quarantined |-> @.quarantined \/ quarantine]]

RestoredPeer(directory, peer) ==
  [directory EXCEPT ![peer] =
     [score |-> IF @.score > 0 THEN @.score ELSE 0,
      streak |-> 0, status |-> "registered", quarantined |-> FALSE]]

\* A directory filled from a list of URLs; nothing else of a snapshot's
\* peers is read, and a stranger's is no URL that addPeer accepts.
Refilled(entries) ==
  [entry \in Entries |-> IF entry \in entries \ Strangers THEN Registered ELSE Unlisted]

\* The eligible HTTP peers of the highest scores, peers of equal score in
\* the order of when they were last seen.
BroadcastPeers(directory, excluded) ==
  LET candidates == {peer \in HttpPeers \ excluded : BroadcastEligible(directory, peer)}
      size == IF Fanout < Cardinality(candidates) THEN Fanout ELSE Cardinality(candidates)
  IN {chosen \in SUBSET candidates :
        /\ Cardinality(chosen) = size
        /\ \A peer \in chosen, other \in candidates \ chosen :
             directory[peer].score >= directory[other].score}

-----------------------------------------------------------------------------
(* Calls. *)

Idle(call) == calls[call] = NoRequest

Begin(call, kind, targets) ==
  calls' = [calls EXCEPT ![call] =
              IF targets = {} THEN NoRequest ELSE [NoRequest EXCEPT !.kind = kind, !.left = targets]]

\* One target is done with, and the call with the last of them.
Done(call, target) ==
  LET rest == calls[call].left \ {target}
  IN calls' = [calls EXCEPT ![call] =
                 IF rest = {} THEN NoRequest
                 ELSE [NoRequest EXCEPT !.kind = calls[call].kind, !.left = rest]]

Good(peer, found, imported) ==
  /\ peerDirectory' = RecordPeerSuccess(peerDirectory, peer, found, imported)
  /\ strikes' = [strikes EXCEPT ![peer] = 0]
  /\ UNCHANGED failures

Bad(peer, status) ==
  /\ failures < MaxFailures
  /\ peerDirectory' = RecordPeerFailure(peerDirectory, peer, status)
  /\ strikes' = [strikes EXCEPT ![peer] = IF status = "incompatible" \/ @ = 3 THEN 3 ELSE @ + 1]
  /\ failures' = failures + 1

\* New peers are announced to others, a relayed one only while hops are left;
\* a relay that waits for a save first is a BroadcastJson of its own.
Announced(call, entries, excluded, relayed) ==
  /\ Idle(call)
  /\ peerDirectory' = AddPeers(peerDirectory, entries)
  /\ IF ~relayed \/ \A entry \in entries : Listed(peerDirectory, entry)
     THEN UNCHANGED calls
     ELSE \E targets \in BroadcastPeers(peerDirectory', excluded) : Begin(call, "relay", targets)
  /\ UNCHANGED <<strikes, failures>>

AnnouncePeer(call, peer) == Announced(call, {peer}, {}, TRUE)

ReceivePeerAnnouncements(call, source, peers) ==
  \E relayed \in BOOLEAN : Announced(call, peers \ {source}, {source}, relayed)

\* A block, a transaction or the list of peers goes to some peers.
BroadcastJson(call, excluded) ==
  /\ Idle(call)
  /\ \E targets \in BroadcastPeers(peerDirectory, excluded) :
       /\ targets # {}
       /\ Begin(call, "relay", targets)
  /\ UNCHANGED <<peerDirectory, strikes, failures>>

RelayAnswered(call, peer) ==
  /\ calls[call].kind = "relay"
  /\ peer \in calls[call].left
  /\ \/ Good(peer, 0, 0)
     \/ Bad(peer, "failed")
  /\ Done(call, peer)

\* The eligible entries, all of them, or those that the operator named.
ProbeTargets ==
  LET listed == {entry \in Entries : Listed(peerDirectory, entry)}
  IN {{entry \in listed : BroadcastEligible(peerDirectory, entry)}, listed} \cup SUBSET Peers

ProbePeers(call) ==
  /\ Idle(call)
  /\ \E targets \in ProbeTargets \ {{}} : Begin(call, "probe", targets)
  /\ UNCHANGED <<peerDirectory, strikes, failures>>

\* A URL that is not an HTTP one ends the round with an error; a body that
\* is no JSON reads "Unexpected token", which matches /expected/ too.
ProbePeer(call, target) ==
  /\ calls[call].kind = "probe"
  /\ target \in calls[call].left
  /\ \/ /\ target \in HttpPeers
        /\ \/ Good(target, 0, 0)
           \/ \E status \in {"failed", "incompatible"} : Bad(target, status)
        /\ Done(call, target)
     \/ /\ target \notin HttpPeers
        /\ calls' = [calls EXCEPT ![call] = NoRequest]
        /\ UNCHANGED <<peerDirectory, strikes, failures>>

\* Mutants of SyncTargets: quarantined peers are left out.
SyncTargetsEligible == {peer \in HttpPeers : BroadcastEligible(peerDirectory, peer)}

\* syncNodeWithPeers takes every HTTP peer, quarantined or not.
SyncTargets == {peer \in HttpPeers : Listed(peerDirectory, peer)}

StartPeerSync(call) ==
  /\ Idle(call)
  /\ SyncTargets # {}
  /\ Begin(call, "sync", SyncTargets)
  /\ UNCHANGED <<peerDirectory, strikes, failures>>

\* /health of the next peer answered, and it is on our chain.
PeerSyncHealth(call, peer) ==
  /\ calls[call].kind = "sync"
  /\ calls[call].at = NoPeer
  /\ peer \in calls[call].left
  /\ peerDirectory' = NotePeerSeen(peerDirectory, peer)
  /\ calls' = [calls EXCEPT ![call].at = peer]
  /\ UNCHANGED <<strikes, failures>>

\* /peers answered; the peer itself is skipped.
SyncDiscovers(call, peers) ==
  LET discovered == {peer \in peers \ {calls[call].at} : ~Listed(peerDirectory, peer)}
      count == Cardinality(discovered)
  IN /\ calls[call].at # NoPeer
     /\ calls[call].stage = "peers"
     /\ peerDirectory' = AddPeers(peerDirectory, discovered)
     /\ calls' = [calls EXCEPT ![call].stage = "blocks", ![call].found = IF count < 2 THEN count ELSE 2]
     /\ UNCHANGED <<strikes, failures>>

\* The blocks and the mempool of the peer are in.
SyncSucceeds(call) ==
  /\ calls[call].at # NoPeer
  /\ calls[call].stage = "blocks"
  /\ \E imported \in Imports : Good(calls[call].at, calls[call].found, imported)
  /\ Done(call, calls[call].at)

\* A request of the sync fails, or a block of the peer is refused.
PeerSyncFails(call, peer) ==
  /\ calls[call].kind = "sync"
  /\ IF calls[call].at = NoPeer THEN peer \in calls[call].left ELSE peer = calls[call].at
  /\ \E status \in {"failed", "incompatible"} : Bad(peer, status)
  /\ Done(call, peer)

\* authenticatePeer: the hello of a socket peer names an HTTP URL too.
Handshake(peer, url) ==
  /\ peerDirectory' = RecordPeerSuccess(AddPeers(peerDirectory, {peer, url}), peer, 0, 0)
  /\ strikes' = [strikes EXCEPT ![peer] = 0]
  /\ UNCHANGED <<calls, failures>>

\* A pong or an error of a socket.
SocketSays(peer) ==
  /\ \/ Good(peer, 0, 0)
     \/ Bad(peer, "failed")
  /\ UNCHANGED calls

\* A socket that fails before it named its peer leaves an entry of its own.
StrangerFails(stranger) ==
  /\ ~Listed(peerDirectory, stranger)
  /\ Bad(stranger, "failed")
  /\ UNCHANGED calls

RestorePeer(entry) ==
  /\ peerDirectory' = RestoredPeer(peerDirectory, entry)
  /\ strikes' = [strikes EXCEPT ![entry] = 0]
  /\ UNCHANGED <<calls, failures>>

\* importSnapshot drops the directory under the calls that are under way.
ImportSnapshot(entries) ==
  /\ peerDirectory' = Refilled(entries)
  /\ strikes' = [entry \in Entries |-> 0]
  /\ UNCHANGED <<calls, failures>>

\* The process starts again, from a snapshot of some earlier directory.
Restart(entries) ==
  /\ peerDirectory' = Refilled(entries \cup Configured)
  /\ strikes' = [entry \in Entries |-> 0]
  /\ calls' = [call \in Calls |-> NoRequest]
  /\ UNCHANGED failures

-----------------------------------------------------------------------------
PeerInit ==
  /\ peerDirectory = Refilled(Configured)
  /\ calls = [call \in Calls |-> NoRequest]
  /\ strikes = [entry \in Entries |-> 0]
  /\ failures = 0

Respond(call) ==
  \/ \E peer \in HttpPeers :
       RelayAnswered(call, peer) \/ PeerSyncHealth(call, peer) \/ PeerSyncFails(call, peer)
  \/ \E target \in Entries : ProbePeer(call, target)
  \/ \E peers \in SUBSET Peers : SyncDiscovers(call, peers)
  \/ SyncSucceeds(call)

PeerNext ==
  \/ \E call \in Calls : Respond(call)
  \/ \E call \in Others :
       \/ \E peer \in Peers : AnnouncePeer(call, peer)
       \/ \E source \in Peers, peers \in SUBSET Peers : ReceivePeerAnnouncements(call, source, peers)
       \/ \E excluded \in {{}} \cup {{peer} : peer \in HttpPeers} : BroadcastJson(call, excluded)
       \/ ProbePeers(call)
       \/ StartPeerSync(call)
  \/ StartPeerSync(Timer)
  \/ \E peer \in SocketPeers : SocketSays(peer) \/ \E url \in HttpPeers : Handshake(peer, url)
  \/ \E entry \in Entries : RestorePeer(entry)
  \/ \E stranger \in Strangers : StrangerFails(stranger)
  \/ \E entries \in SUBSET Entries : ImportSnapshot(entries) \/ Restart(entries)

\* The sync timer fires for ever, and each of its requests is answered or
\* runs into its timeout.
PeerFairness == WF_peerVars(StartPeerSync(Timer)) /\ WF_peerVars(Respond(Timer))

PeerSpec == PeerInit /\ [][PeerNext]_peerVars /\ PeerFairness
-----------------------------------------------------------------------------
(* Properties. *)

\* Whatever the order in which probes, syncs, relays and sockets report, and
\* whatever is announced or seen meanwhile, a listed peer is relayed to again
\* exactly when its record since it was last forgiven earned it: neither three
\* failures in a row nor an answer from another chain, and a score above the
\* threshold (recordPeerSuccess, recordPeerFailure, addPeer, notePeerSeen and
\* buildPeerView together).  A peer is forgiven by a good answer, and also
\* without one: by the operator's restorePeer, and by importSnapshot and a
\* restart, which fill the directory afresh and forget every quarantine.
EligibleWhenEarned ==
  \A entry \in Entries :
    BroadcastEligible(peerDirectory, entry) <=>
      /\ Listed(peerDirectory, entry)
      /\ strikes[entry] < 3
      /\ peerDirectory[entry].score > PEER_QUARANTINE_SCORE

\* Once requests stop failing, every listed HTTP peer is relayed to again and
\* stays so: the sync timer also asks the quarantined ones, and its good
\* answers lift the score above the threshold.
PeersRecover ==
  \A peer \in HttpPeers :
    <>[](Listed(peerDirectory, peer) => BroadcastEligible(peerDirectory, peer))
=============================================================================
