------------------------------- MODULE XRaft -------------------------------
(***************************************************************************)
(* The consensus core: the RaftNode engine (xraft-core/src/node.rs), the   *)
(* driver that executes the actions it returns (xraft-server/src/driver.rs) *)
(* and the RPCs between nodes.                                             *)
(*                                                                         *)
(* One TLA+ step is one event of a node's single-threaded driver loop: the *)
(* engine's handler runs to its end and the driver executes every action   *)
(* it returned before it takes the next event.  A node is a record, like   *)
(* the struct, and an engine method is an operator from record to record,  *)
(* so that handlers which call other methods compose.                      *)
(*                                                                         *)
(* A log entry is represented by its term: the payload never steers the    *)
(* protocol, and two entries that share index and term were written by the *)
(* same leader (ElectionSafety).                                           *)
(***************************************************************************)
EXTENDS Integers, FiniteSets, Sequences, SequencesExt

CONSTANTS
    Voters,       \* the static voter set
    Observers,    \* non-voting replicas
    None,         \* Option::None for a node id
    MaxBatch,     \* DriverConfig::max_fetch_batch
    Pipelined,    \* TRUE: a fetch tick may fire while earlier fetches are in flight
    MaxTerm,      \* bound: no election timeout at this term
    VoteLinks,    \* bound: <<c, v>> \in VoteLinks[t] if the vote RPCs c sends to v in
                  \* term t may arrive; <<c, c>>: c's election timer may expire
    FetchLinks,   \* bound: <<r, l>> if the fetches of r may reach l
    MaxLog,       \* bound: no client proposal beyond this log length
    MaxRestarts   \* bound on crashes, over all nodes

Nodes == Voters \cup Observers

ASSUME ConstantsAssumption ==
    /\ IsFiniteSet(Voters)
    /\ Voters # {}
    /\ Voters \cap Observers = {}
    /\ None \notin Nodes
    /\ MaxBatch \in Nat \ {0}
    /\ Pipelined \in BOOLEAN
    /\ MaxTerm \in Nat
    /\ VoteLinks \in [0..MaxTerm -> SUBSET (Voters \X Voters)]
    /\ FetchLinks \subseteq Nodes \X Voters
    /\ MaxLog \in Nat
    /\ MaxRestarts \in Nat

VARIABLES
    node,      \* node[n]: the engine's memory, and the log store behind it
    disk,      \* disk[n]: the last hard state written by PersistHardState
    net,       \* RPC requests and replies in flight
    restarts,  \* crashes so far
    elected,   \* history: the pairs <<term, node>> of every leadership so far
    committed, \* history: the longest sequence of entries any node has applied
    unknownEpochAnswered \* history: some divergence answer named an epoch the
                         \* leader had no checkpoint for

vars == <<node, disk, net, restarts, elected, committed, unknownEpochAnswered>>

----------------------------------------------------------------------------
(* State *)

Roles == {"Follower", "PreCandidate", "Candidate", "Leader", "Observer"}

NodeState ==
    [role             : Roles,
     currentTerm      : Nat,
     votedFor         : Nodes \cup {None},
     leaderId         : Nodes \cup {None},
     votesReceived    : SUBSET Nodes,
     preVotesReceived : SUBSET Nodes,
     log              : Seq(Nat),
     commitIndex      : Nat,
     applied          : Seq(Nat),       \* what the state machine was fed
     leaderNoOpIndex  : Nat,            \* 0 stands for None
     lastFetchOffset  : [Nodes -> Nat]] \* PeerState::last_fetch_offset

HardState ==
    [currentTerm : Nat, votedFor : Nodes \cup {None}, commitIndex : Nat]

VoteRequest ==
    [type : {"PreVoteRequest", "VoteRequest"}, from : Nodes, to : Nodes,
     term : Nat, lastLogIndex : Nat, lastLogTerm : Nat]
VoteResponse ==
    [type : {"PreVoteResponse", "VoteResponse"}, from : Nodes, to : Nodes,
     term : Nat, granted : BOOLEAN]
FetchRequest ==
    [type : {"FetchRequest"}, from : Nodes, to : Nodes, leaderEpoch : Nat,
     fetchOffset : Nat \ {0}, lastFetchedEpoch : Nat]
EntriesResponse ==
    [type : {"Entries"}, from : Nodes, to : Nodes, leaderEpoch : Nat,
     highWatermark : Nat, first : Nat \ {0}, entries : Seq(Nat)]
DivergingResponse ==
    [type : {"DivergingEpoch"}, from : Nodes, to : Nodes, leaderEpoch : Nat,
     epoch : Nat, endOffset : Nat]

Message == VoteRequest \cup VoteResponse \cup FetchRequest
               \cup EntriesResponse \cup DivergingResponse

ReplyTypes == {"PreVoteResponse", "VoteResponse", "Entries", "DivergingEpoch"}

----------------------------------------------------------------------------
(* Logs and quorums *)

Smaller(a, b) == IF a <= b THEN a ELSE b

LastTerm(l) == IF l = <<>> THEN 0 ELSE l[Len(l)]

HasQuorum(S) == 2 * Cardinality(S \cap Voters) > Cardinality(Voters)

\* Mutant: compares the last terms and not the lengths.
LastTermIsUpToDate(s, m) == m.lastLogTerm >= LastTerm(s.log)

CandidateLogIsUpToDate(s, m) ==
    \/ m.lastLogTerm > LastTerm(s.log)
    \/ m.lastLogTerm = LastTerm(s.log) /\ m.lastLogIndex >= Len(s.log)

\* The leader-epoch checkpoint: where epoch e ends in the log.  Empty when the
\* log holds no entry of e, and otherwise one index, as terms never decrease.
EndOffsetForEpoch(l, e) ==
    {i \in 1..Len(l) : l[i] = e /\ (i < Len(l) => l[i + 1] # e)}

----------------------------------------------------------------------------
(* Commit and apply *)

\* maybe_apply, and the driver's apply_committed that executes its action.
DrainApplyPipeline(s) ==
    [s EXCEPT !.applied = @ \o SubSeq(s.log, Len(@) + 1, s.commitIndex)]

\* The voters known to hold the leader's log through index k.
Replicated(s, n, k) ==
    {v \in Voters : IF v = n THEN Len(s.log) >= k ELSE s.lastFetchOffset[v] >= k}

\* Mutant: observers count towards the quorum.
CommitCandidateWithObservers(s, n) ==
    LET held(k) == {r \in Nodes : IF r = n THEN Len(s.log) >= k
                                           ELSE s.lastFetchOffset[r] >= k}
    IN  {k \in 0..Len(s.log) :
            /\ 2 * Cardinality(held(k)) > Cardinality(Voters)
            /\ 2 * Cardinality(held(k + 1)) <= Cardinality(Voters)
            /\ k > s.commitIndex
            /\ k >= s.leaderNoOpIndex}

\* The highest index held by a quorum, if it is news and reaches the no-op.
CommitCandidate(s, n) ==
    {k \in 0..Len(s.log) :
        /\ HasQuorum(Replicated(s, n, k))
        /\ ~HasQuorum(Replicated(s, n, k + 1))
        /\ k > s.commitIndex
        /\ k >= s.leaderNoOpIndex}

TryAdvanceCommitIndex(s, n) ==
    IF CommitCandidate(s, n) = {}
    THEN s
    ELSE DrainApplyPipeline([s EXCEPT !.commitIndex = CHOOSE k \in CommitCandidate(s, n) : TRUE])

----------------------------------------------------------------------------
(* Role transitions *)

BecomeFollower(s, t, leader) ==
    [s EXCEPT !.role = IF @ = "Observer" THEN @ ELSE "Follower",
              !.currentTerm = t,
              !.votedFor = IF t > s.currentTerm THEN None ELSE @,
              !.leaderId = leader,
              !.votesReceived = {},
              !.preVotesReceived = {},
              !.leaderNoOpIndex = 0]

BecomeLeader(s, n) ==
    TryAdvanceCommitIndex(
        [s EXCEPT !.role = "Leader",
                  !.leaderId = n,
                  !.votesReceived = {},
                  !.preVotesReceived = {},
                  !.lastFetchOffset = [p \in Nodes |-> 0],
                  !.log = Append(@, s.currentTerm),
                  !.leaderNoOpIndex = Len(s.log) + 1], n)

\* Mutant: carries the pre-votes over into the tally of real votes.
BecomeCandidateKeepTally(s, n) ==
    LET c == [s EXCEPT !.role = "Candidate",
                       !.currentTerm = @ + 1,
                       !.votedFor = n,
                       !.leaderId = None,
                       !.votesReceived = s.preVotesReceived,
                       !.preVotesReceived = {},
                       !.leaderNoOpIndex = 0]
    IN  IF HasQuorum(c.votesReceived) THEN BecomeLeader(c, n) ELSE c

BecomeCandidate(s, n) ==
    LET c == [s EXCEPT !.role = "Candidate",
                       !.currentTerm = @ + 1,
                       !.votedFor = n,
                       !.leaderId = None,
                       !.votesReceived = {n},
                       !.preVotesReceived = {},
                       !.leaderNoOpIndex = 0]
    IN  IF HasQuorum(c.votesReceived) THEN BecomeLeader(c, n) ELSE c

BecomePreCandidate(s, n) ==
    LET p == [s EXCEPT !.role = "PreCandidate",
                       !.leaderId = None,
                       !.votesReceived = {},
                       !.preVotesReceived = {n},
                       !.leaderNoOpIndex = 0]
    IN  IF HasQuorum(p.preVotesReceived) THEN BecomeCandidate(p, n) ELSE p

----------------------------------------------------------------------------
(* What one event does: the node's next record, the messages it consumes   *)
(* and sends, and whether its actions include PersistHardState.  The       *)
(* persisted commit index is clamped to the log as it was before this      *)
(* event's AppendEntries, which the driver executes afterwards.            *)

PersistHardState(n, s) ==
    [currentTerm |-> s.currentTerm,
     votedFor    |-> s.votedFor,
     commitIndex |-> Smaller(s.commitIndex, Len(node[n].log))]

Execute(n, s, persist, consumed, sent) ==
    /\ node' = [node EXCEPT ![n] = s]
    /\ disk' = IF persist THEN [disk EXCEPT ![n] = PersistHardState(n, s)] ELSE disk
    /\ net' = (net \ consumed) \cup sent
    /\ elected' = IF s.role = "Leader"
                  THEN elected \cup {<<s.currentTerm, n>>}
                  ELSE elected
    /\ committed' = IF Len(s.applied) > Len(committed) THEN s.applied ELSE committed
    /\ UNCHANGED restarts

\* A pipelined follower sends the same fetch again at every interval until it
\* is answered, so one record in net stands for any number of equal RPCs.
Consumed(m) == IF Pipelined THEN {} ELSE {m}

----------------------------------------------------------------------------
(* Elections *)

RequestVotes(type, n, s, t) ==
    {[type |-> type, from |-> n, to |-> v, term |-> t,
      lastLogIndex |-> Len(s.log), lastLogTerm |-> LastTerm(s.log)] :
        v \in {v \in Voters \ {n} : <<n, v>> \in VoteLinks[s.currentTerm]}}

\* handle_tick once the election timer has expired.
ElectionTimeout(n) ==
    LET s == node[n]
        p == BecomePreCandidate(s, n)
    IN  /\ s.role \in {"Follower", "PreCandidate", "Candidate"}
        /\ s.currentTerm < MaxTerm
        /\ <<n, n>> \in VoteLinks[s.currentTerm]
        /\ Execute(n, p, p.currentTerm > s.currentTerm, {},
                   RequestVotes("PreVoteRequest", n, s, s.currentTerm + 1))
        /\ UNCHANGED unknownEpochAnswered

\* handle_tick when the Check-Quorum interval ends without a quorum of fetches.
CheckQuorumFails(n) ==
    LET s == node[n]
    IN  /\ s.role = "Leader"
        /\ Execute(n, BecomeFollower(s, s.currentTerm, None), FALSE, {}, {})
        /\ UNCHANGED unknownEpochAnswered

\* leader_recently_active compares ticks; any outcome is possible on a node
\* that is not itself the leader.
LeaderRecentlyActive(s) == IF s.role = "Leader" THEN {TRUE} ELSE BOOLEAN

\* A denial that brings no higher term is dropped by its receiver, now or
\* later: terms never go back.  Such a reply is not put on the network.
Reply(r) == IF r.granted \/ r.term > node[r.to].currentTerm THEN {r} ELSE {}

HandlePreVoteRequest(m) ==
    LET n == m.to
        s == node[n]
    IN  /\ m.type = "PreVoteRequest"
        /\ s.role # "Observer"
        /\ \E active \in LeaderRecentlyActive(s) :
              Execute(n, s, FALSE, {},
                Reply([type |-> "PreVoteResponse", from |-> n, to |-> m.from,
                       term |-> s.currentTerm,
                       granted |-> /\ m.term > s.currentTerm
                                   /\ CandidateLogIsUpToDate(s, m)
                                   /\ ~active]))
        /\ UNCHANGED unknownEpochAnswered

HandlePreVoteResponse(m) ==
    LET n == m.to
        s == node[n]
        p == [s EXCEPT !.preVotesReceived = @ \cup {m.from}]
    IN  /\ m.type = "PreVoteResponse"
        /\ \/ /\ m.term > s.currentTerm
              /\ Execute(n, BecomeFollower(s, m.term, None), TRUE, {}, {})
           \/ /\ m.term <= s.currentTerm
              /\ s.role = "PreCandidate"
              /\ m.granted
              /\ IF HasQuorum(p.preVotesReceived)
                 THEN Execute(n, BecomeCandidate(p, n), TRUE, {},
                              RequestVotes("VoteRequest", n, s, s.currentTerm + 1))
                 ELSE Execute(n, p, FALSE, {}, {})
        /\ UNCHANGED unknownEpochAnswered

\* Mutant: keeps leader_id across the term change.
AdoptTermKeepLeader(s, t) ==
    IF t > s.currentTerm
    THEN [s EXCEPT !.role = "Follower",
                   !.currentTerm = t,
                   !.votedFor = None,
                   !.votesReceived = {},
                   !.preVotesReceived = {}]
    ELSE s

\* The inline step-down of handle_vote_request: it keeps leader_no_op_index.
AdoptTerm(s, t) ==
    IF t > s.currentTerm
    THEN [s EXCEPT !.role = "Follower",
                   !.currentTerm = t,
                   !.votedFor = None,
                   !.leaderId = None,
                   !.votesReceived = {},
                   !.preVotesReceived = {}]
    ELSE s

\* Mutant: does not look at the vote already cast in this term.
VoteGrantedAgain(s, m) ==
    /\ m.term >= s.currentTerm
    /\ CandidateLogIsUpToDate(s, m)

VoteGranted(s, m) ==
    /\ m.term >= s.currentTerm
    /\ CandidateLogIsUpToDate(s, m)
    /\ AdoptTerm(s, m.term).votedFor \in {None, m.from}

HandleVoteRequest(m) ==
    LET n == m.to
        s == node[n]
        a == AdoptTerm(s, m.term)
        g == IF VoteGranted(s, m) THEN [a EXCEPT !.votedFor = m.from] ELSE a
    IN  /\ m.type = "VoteRequest"
        /\ s.role # "Observer"
        /\ Execute(n, g, <<g.currentTerm, g.votedFor>> # <<s.currentTerm, s.votedFor>>, {},
             Reply([type |-> "VoteResponse", from |-> n, to |-> m.from,
                    term |-> g.currentTerm, granted |-> VoteGranted(s, m)]))
        /\ UNCHANGED unknownEpochAnswered

HandleVoteResponse(m) ==
    LET n == m.to
        s == node[n]
        c == [s EXCEPT !.votesReceived = @ \cup {m.from}]
    IN  /\ m.type = "VoteResponse"
        /\ \/ /\ m.term > s.currentTerm
              /\ Execute(n, BecomeFollower(s, m.term, None), TRUE, {}, {})
           \/ /\ m.term = s.currentTerm
              /\ s.role = "Candidate"
              /\ m.granted
              /\ Execute(n, IF HasQuorum(c.votesReceived) THEN BecomeLeader(c, n) ELSE c,
                         FALSE, {}, {})
        /\ UNCHANGED unknownEpochAnswered

----------------------------------------------------------------------------
(* Replication *)

\* Mutant: asks for the last entry held instead of the one after it.
FetchFromLast(n, s, target, offset, epoch) ==
    [type |-> "FetchRequest", from |-> n, to |-> target,
     leaderEpoch |-> s.currentTerm, fetchOffset |-> offset - 1, lastFetchedEpoch |-> epoch]

FetchFrom(n, s, target, offset, epoch) ==
    [type |-> "FetchRequest", from |-> n, to |-> target,
     leaderEpoch |-> s.currentTerm, fetchOffset |-> offset, lastFetchedEpoch |-> epoch]

\* Unless fetches are pipelined, the one before has failed when the next is sent.
Abandoned(m, n, target) ==
    /\ ~Pipelined
    /\ \/ m.type = "FetchRequest" /\ m.from = n /\ m.to = target
       \/ m.type \in {"Entries", "DivergingEpoch"} /\ m.from = target /\ m.to = n

\* Mutant: no discovery broadcast while the leader is unknown.
FetchTickNoDiscovery(n) ==
    LET s == node[n]
        targets == {t \in {s.leaderId} : <<n, t>> \in FetchLinks}
    IN  /\ s.role \in {"Follower", "Observer"}
        /\ targets # {}
        /\ Execute(n, s, FALSE, {m \in net : \E t \in targets : Abandoned(m, n, t)},
             {FetchFrom(n, s, t, Len(s.log) + 1, LastTerm(s.log)) : t \in targets})
        /\ UNCHANGED unknownEpochAnswered

\* handle_tick: fetch from the leader, or from every voter while it is unknown.
FetchTick(n) ==
    LET s == node[n]
        targets == {t \in IF s.leaderId = None THEN Voters \ {n} ELSE {s.leaderId} :
                       <<n, t>> \in FetchLinks}
    IN  /\ s.role \in {"Follower", "Observer"}
        /\ targets # {}
        /\ Execute(n, s, FALSE, {m \in net : \E t \in targets : Abandoned(m, n, t)},
             {FetchFrom(n, s, t, Len(s.log) + 1, LastTerm(s.log)) : t \in targets})
        /\ UNCHANGED unknownEpochAnswered

\* Mutant: only a follower that is ahead of the leader diverges.
DivergesIfAhead(s, m) ==
    /\ m.fetchOffset > 1
    /\ m.fetchOffset - 1 > Len(s.log)

\* materialize_fetch_response.  Divergence is judged at the entry before the
\* requested one; a divergent follower is pointed at the end of its own last
\* epoch when the checkpoint has it, and at the leader's log tip otherwise.
Diverges(s, m) ==
    /\ m.fetchOffset > 1
    /\ \/ m.fetchOffset - 1 > Len(s.log)
       \/ s.log[m.fetchOffset - 1] # m.lastFetchedEpoch

MaterializeFetchResponse(s, m) ==
    IF Diverges(s, m)
    THEN LET end == EndOffsetForEpoch(s.log, m.lastFetchedEpoch)
         IN  [type |-> "DivergingEpoch", from |-> m.to, to |-> m.from,
              leaderEpoch |-> s.currentTerm,
              epoch     |-> IF end = {} THEN LastTerm(s.log) ELSE m.lastFetchedEpoch,
              endOffset |-> IF end = {} THEN Len(s.log) ELSE CHOOSE i \in end : TRUE]
    ELSE [type |-> "Entries", from |-> m.to, to |-> m.from,
          leaderEpoch |-> s.currentTerm, highWatermark |-> s.commitIndex,
          first |-> m.fetchOffset,
          entries |-> SubSeq(s.log, m.fetchOffset,
                             Smaller(Len(s.log), m.fetchOffset + MaxBatch - 1))]


\* Mutant: records the progress without trying to commit.
HandleFetchRequestAckedOnly(s, n, replica, offset) ==
    LET clamped == Smaller(offset, Len(s.log))
    IN  [s EXCEPT !.lastFetchOffset[replica] = IF clamped > @ THEN clamped ELSE @]

HandleFetchRequestAcked(s, n, replica, offset) ==
    LET clamped == Smaller(offset, Len(s.log))
    IN  TryAdvanceCommitIndex(
            [s EXCEPT !.lastFetchOffset[replica] = IF clamped > @ THEN clamped ELSE @], n)

HandleFetchRequest(m) ==
    LET n == m.to
        s == node[n]
    IN  /\ m.type = "FetchRequest"
        /\ \/ /\ m.leaderEpoch > s.currentTerm
              /\ Execute(n, BecomeFollower(s, m.leaderEpoch, None), TRUE, Consumed(m), {})
              /\ UNCHANGED unknownEpochAnswered
           \/ /\ m.leaderEpoch <= s.currentTerm
              /\ s.role = "Leader"
              /\ Execute(n, IF Diverges(s, m) THEN s
                            ELSE HandleFetchRequestAcked(s, n, m.from, m.fetchOffset - 1),
                         FALSE, Consumed(m), {MaterializeFetchResponse(s, m)})
              /\ unknownEpochAnswered' =
                    \/ unknownEpochAnswered
                    \/ Diverges(s, m) /\ EndOffsetForEpoch(s.log, m.lastFetchedEpoch) = {}

\* The fences of handle_fetch_response, and the role change it starts with.
AcceptsLeader(s, m) ==
    \/ m.leaderEpoch > s.currentTerm
    \/ /\ m.leaderEpoch = s.currentTerm
       /\ s.role # "Leader"
       /\ s.leaderId \in {None, m.from}

\* Mutant: a follower takes the leader of a later term without taking the term.
FollowLeaderKeepTerm(s, m) ==
    IF s.role \in {"Leader", "Candidate", "PreCandidate"}
    THEN BecomeFollower(s, m.leaderEpoch, m.from)
    ELSE [s EXCEPT !.leaderId = m.from]

FollowLeader(s, m) ==
    IF m.leaderEpoch > s.currentTerm \/ s.role \in {"Candidate", "PreCandidate"}
    THEN BecomeFollower(s, m.leaderEpoch, m.from)
    ELSE [s EXCEPT !.leaderId = m.from]

\* Mutant: cuts from endOffset on, not from the entry after it.
KeptPrefixShort(l, endOffset) == SubSeq(l, 1, Smaller(endOffset - 1, Len(l)))

\* TruncateLog(SuffixFromInclusive): what is left of the log.
KeptPrefix(l, endOffset) == SubSeq(l, 1, Smaller(endOffset, Len(l)))

TruncateLog(s, m) == [FollowLeader(s, m) EXCEPT !.log = KeptPrefix(@, m.endOffset)]

\* A DivergingEpoch reply: cut the log after endOffset and fetch again at once.
HandleDivergingEpoch(m) ==
    LET n == m.to
        s == node[n]
    IN  /\ m.type = "DivergingEpoch"
        /\ AcceptsLeader(s, m)
        /\ Execute(n, TruncateLog(s, m), m.leaderEpoch > s.currentTerm, Consumed(m),
                   {FetchFrom(n, FollowLeader(s, m), m.from, m.endOffset + 1, m.epoch)})
        /\ UNCHANGED unknownEpochAnswered

\* A reply with entries: append them if they continue the log and their terms do
\* not regress, then raise the commit index.  A batch that does not fit is
\* dropped, but it still counts as leader contact.
BatchFits(s, m) ==
    \/ m.entries = <<>>
    \/ /\ m.first = Len(s.log) + 1
       /\ \A i \in 1..Len(m.entries) - 1 : m.entries[i] <= m.entries[i + 1]

TakeEntries(s, m) ==
    LET f == FollowLeader(s, m)
        a == [f EXCEPT !.log = @ \o m.entries]
        commit == Smaller(m.highWatermark, Len(a.log))
    IN  IF BatchFits(s, m) /\ commit > s.commitIndex
        THEN DrainApplyPipeline([a EXCEPT !.commitIndex = commit])
        ELSE IF BatchFits(s, m) THEN a ELSE f

HandleEntries(m) ==
    LET n == m.to
        s == node[n]
    IN  /\ m.type = "Entries"
        /\ AcceptsLeader(s, m)
        /\ Execute(n, TakeEntries(s, m), m.leaderEpoch > s.currentTerm, Consumed(m), {})
        /\ UNCHANGED unknownEpochAnswered

ClientPropose(n) ==
    LET s == node[n]
    IN  /\ s.role = "Leader"
        /\ Len(s.log) < MaxLog
        /\ Execute(n, TryAdvanceCommitIndex([s EXCEPT !.log = Append(@, s.currentTerm)], n),
                   FALSE, {}, {})
        /\ UNCHANGED unknownEpochAnswered

----------------------------------------------------------------------------
(* The environment *)

\* RaftNode::new.
NewNode(n) ==
    [role             |-> IF n \in Observers THEN "Observer" ELSE "Follower",
     currentTerm      |-> 0,
     votedFor         |-> None,
     leaderId         |-> None,
     votesReceived    |-> {},
     preVotesReceived |-> {},
     log              |-> <<>>,
     commitIndex      |-> 0,
     applied          |-> <<>>,
     leaderNoOpIndex  |-> 0,
     lastFetchOffset  |-> [p \in Nodes |-> 0]]

\* Mutant: takes the whole recovered log as committed.
RecoveredAsCommitted(n, h) ==
    DrainApplyPipeline(
        [NewNode(n) EXCEPT !.currentTerm = h.currentTerm,
                           !.votedFor = h.votedFor,
                           !.log = node[n].log,
                           !.commitIndex = Len(node[n].log)])

\* Recovery in start_with_state_machine from the hard state h, and the apply
\* drain run() starts with.
Recovered(n, h) ==
    DrainApplyPipeline(
        [NewNode(n) EXCEPT !.currentTerm = h.currentTerm,
                           !.votedFor = h.votedFor,
                           !.log = node[n].log,
                           !.commitIndex = Smaller(h.commitIndex, Len(node[n].log))])

\* A crash that leaves h on disk, then a start: replies to the old process are lost.
Crash(n, h) ==
    /\ restarts < MaxRestarts
    /\ restarts' = restarts + 1
    /\ disk' = [disk EXCEPT ![n] = h]
    /\ node' = [node EXCEPT ![n] = Recovered(n, h)]
    /\ net' = {m \in net : m.type \in ReplyTypes => m.to # n}
    /\ UNCHANGED <<elected, committed, unknownEpochAnswered>>

\* A crash between two events.
Restart(n) == Crash(n, disk[n])

\* A crash inside an action list: handle_fetch_response has taken up a later term
\* and moved the commit index, the hard state is on disk, and AppendEntries or
\* TruncateLog never ran.  Any other list has only messages, or entries of a lone
\* voter, after PersistHardState.
CrashAfterPersist(m) ==
    LET n == m.to
        s == node[n]
    IN  /\ m.type \in {"Entries", "DivergingEpoch"}
        /\ m.leaderEpoch > s.currentTerm
        /\ Crash(n, PersistHardState(n, IF m.type = "Entries" THEN TakeEntries(s, m)
                                                              ELSE TruncateLog(s, m)))

----------------------------------------------------------------------------
Init ==
    /\ node = [n \in Nodes |-> NewNode(n)]
    /\ disk = [n \in Nodes |-> [currentTerm |-> 0, votedFor |-> None, commitIndex |-> 0]]
    /\ net = {}
    /\ restarts = 0
    /\ elected = {}
    /\ committed = <<>>
    /\ unknownEpochAnswered = FALSE

Next ==
    \/ \E n \in Nodes : ElectionTimeout(n)
    \/ \E n \in Nodes : CheckQuorumFails(n)
    \/ \E n \in Nodes : FetchTick(n)
    \/ \E n \in Nodes : ClientPropose(n)
    \/ \E n \in Nodes : Restart(n)
    \/ \E m \in net : CrashAfterPersist(m)
    \/ \E m \in net : HandlePreVoteRequest(m)
    \/ \E m \in net : HandlePreVoteResponse(m)
    \/ \E m \in net : HandleVoteRequest(m)
    \/ \E m \in net : HandleVoteResponse(m)
    \/ \E m \in net : HandleFetchRequest(m)
    \/ \E m \in net : HandleDivergingEpoch(m)
    \/ \E m \in net : HandleEntries(m)

Spec == Init /\ [][Next]_vars

(* Fairness: ticks keep coming, and on a link that is up an RPC sent again   *)
(* and again gets through.  Nothing is assumed of when timers expire, of     *)
(* whether a pre-vote finds the leader active, or of clients.  A pre-vote    *)
(* request is promised delivery only when its reply brings a higher term.    *)
Deliver(p, n) ==
    \E m \in net :
        /\ m.from = p
        /\ m.to = n
        /\ \/ HandleFetchRequest(m)
           \/ HandleDivergingEpoch(m)
           \/ HandleEntries(m)
           \/ node[n].currentTerm > node[p].currentTerm /\ HandlePreVoteRequest(m)
           \/ HandlePreVoteResponse(m)
           \/ HandleVoteRequest(m)
           \/ HandleVoteResponse(m)

Fairness ==
    /\ \A n \in Nodes : WF_vars(FetchTick(n))
    /\ \A p, n \in Nodes : p # n => SF_vars(Deliver(p, n))

FairSpec == Spec /\ Fairness

----------------------------------------------------------------------------
(* Properties *)

\* Every variable keeps its type: what RaftNode, HardState and the RPC
\* structs can hold.
TypeOK ==
    /\ node \in [Nodes -> NodeState]
    /\ disk \in [Nodes -> HardState]
    /\ net \subseteq Message
    /\ restarts \in Nat
    /\ elected \subseteq Nat \X Voters
    /\ committed \in Seq(Nat)
    /\ unknownEpochAnswered \in BOOLEAN

\* Whatever votes are delayed, repeated or lost, and whichever voters crash
\* between granting a vote and the next request, become_leader runs on at most
\* one node per term, ever (architecture.md S1).
ElectionSafety ==
    \A x, y \in elected : x[1] = y[1] => x[2] = y[2]

\* What v has written keeps it from voting in term t for anyone but c.
BoundTo(v, t, c) ==
    \/ disk[v].currentTerm > t
    \/ disk[v].currentTerm = t /\ disk[v].votedFor = c

\* The votes that are counted or on their way to be: <<voter, term, candidate>>.
Ballots ==
    {<<m.from, m.term, m.to>> : m \in {m \in net : m.type = "VoteResponse" /\ m.granted}}
        \cup UNION {{<<v, node[c].currentTerm, c>> : v \in node[c].votesReceived} :
                       c \in {c \in Nodes : node[c].role = "Candidate"}}

\* Every vote a candidate counts, or may still receive, binds its voter's disk:
\* process_actions executes PersistHardState before the reply leaves.  No voter
\* is counted by two candidates of a term.  And every leader there has ever been
\* has a quorum of voters bound to it, whom no other candidate of its term
\* counts.  It takes handle_vote_request, become_candidate, the tally of
\* handle_vote_response and recovery together to keep this true.
BallotsAreBinding ==
    /\ \A b \in Ballots : BoundTo(b[1], b[2], b[3])
    /\ \A b, d \in Ballots : b[1] = d[1] /\ b[2] = d[2] => b[3] = d[3]
    /\ \A e \in elected : \E Q \in SUBSET Voters :
          /\ HasQuorum(Q)
          /\ \A v \in Q :
                /\ BoundTo(v, e[1], e[2])
                /\ \A b \in Ballots : b[1] = v /\ b[2] = e[1] => b[3] = e[2]

\* leader_id never names a node that did not win the current term: the two
\* same-term leaders that handle_fetch_response fences off cannot arise.
FollowsElectedLeader ==
    \A n \in Nodes :
        node[n].leaderId # None => <<node[n].currentTerm, node[n].leaderId>> \in elected

\* Terms never decrease along a log, which end_offset_for_epoch relies on, and
\* never exceed the durable term: process_actions writes the hard state of a new
\* term before the first entry of that term, so no crash can lose the term and
\* keep the entry.
LogTermsOrdered ==
    \A n \in Nodes : \A j \in 1..Len(node[n].log) :
        /\ node[n].log[j] <= disk[n].currentTerm
        /\ \A i \in 1..j : node[n].log[i] <= node[n].log[j]

(* The guarantees of log replication.  Each is stated for histories in which *)
(* every divergence answer was found in the leader's epoch checkpoint.       *)

\* If two logs hold the same term at the same index, they are equal up to it
\* (architecture.md S3).
SameUpTo(k, n, m) == SubSeq(node[n].log, 1, k) = SubSeq(node[m].log, 1, k)

LogMatching ==
    ~unknownEpochAnswered =>
        \A n, m \in Nodes :
            \A k \in 1..Smaller(Len(node[n].log), Len(node[m].log)) :
                node[n].log[k] = node[m].log[k] => SameUpTo(k, n, m)


\* The newest leader's log holds every entry ever committed (architecture.md S4).
LeaderCompleteness ==
    ~unknownEpochAnswered =>
        \A l \in Nodes :
            /\ node[l].role = "Leader"
            /\ \A x \in elected : x[1] <= node[l].currentTerm
            => IsPrefix(committed, node[l].log)

\* No two nodes ever apply different entries at the same index, before or after
\* a restart (architecture.md S5).
StateMachineSafety ==
    \A n \in Nodes : IsPrefix(node[n].applied, committed)

\* Entries below the high watermark are immutable (architecture.md S5): no
\* TruncateLog reaches an entry its node has applied.
CommittedIsImmutable ==
    ~unknownEpochAnswered => \A n \in Nodes : IsPrefix(node[n].applied, node[n].log)

\* What was ever committed is, and stays, in the logs of a quorum of voters;
\* observers do not count.
CommittedOnQuorum ==
    ~unknownEpochAnswered =>
        HasQuorum({v \in Voters : IsPrefix(committed, node[v].log)})

\* Seen through what the state machines are fed, the cluster is one replicated
\* log: commits extend it, replicas apply it in order, restarts replay it.
Promise == INSTANCE ReplicatedLog WITH
    Replicas <- Nodes,
    log      <- committed,
    applied  <- [n \in Nodes |-> node[n].applied],
    sound    <- ~unknownEpochAnswered
ImplementsReplicatedLog == Promise!LogSpec

(* Liveness *)

Leads(l) == node[l].role = "Leader"
Follows(f) == node[f].role \in {"Follower", "Observer"}

FetchesFrom(f, l) == Follows(f) /\ <<f, l>> \in FetchLinks
QuorumFetchesFrom(l) ==
    \E Q \in SUBSET Voters : HasQuorum(Q) /\ \A v \in Q \ {l} : FetchesFrom(v, l)

\* While one node keeps leading, every replica that keeps fetching from it ends
\* up with its whole log.
FollowersCatchUp ==
    \A l \in Voters, f \in Nodes :
        <>[](Leads(l) /\ FetchesFrom(f, l) /\ ~unknownEpochAnswered)
            => <>[](node[f].log = node[l].log)

\* A leader that a quorum keeps fetching from commits its whole log, the no-op
\* of its term included.
LeaderCommitsItsLog ==
    \A l \in Voters :
        <>[](Leads(l) /\ QuorumFetchesFrom(l) /\ ~unknownEpochAnswered)
            => <>[](node[l].commitIndex = Len(node[l].log))

\* A follower that a partition drove into a pre-vote rejoins the leader that was
\* there all along (e2e-scenarios.md, Feature 9).
RejoinsAfterPartition ==
    \A l, n \in Voters :
        <>[]Leads(l) => []<>(node[n].role # "PreCandidate")

=============================================================================
