---------------------------- MODULE XRaftProofs ----------------------------
(***************************************************************************)
(* Proofs about the consensus core for any set of voters and observers and *)
(* any bounds: type correctness and election safety.                       *)
(***************************************************************************)
EXTENDS XRaft, SequenceTheorems, FiniteSetTheorems, TLAPS

----------------------------------------------------------------------------
(* Sequences and quorums *)

\* A slice that does not reach past the end of a sequence is a sequence.
LEMMA SubSeqType ==
    ASSUME NEW S, NEW s \in Seq(S), NEW a \in Nat \ {0}, NEW b \in Int, b <= Len(s)
    PROVE  SubSeq(s, a, b) \in Seq(S)
<1>1. CASE a <= b
  <2>1. a \in 1..Len(s) + 1 /\ b \in a - 1..Len(s)
    BY <1>1
  <2> QED BY <2>1, SubSeqProperties
<1>2. CASE b < a
  BY <1>2
<1> QED BY <1>1, <1>2

\* Two quorums of voters share a voter.
LEMMA QuorumsIntersect ==
    ASSUME NEW P \in SUBSET Voters, NEW Q \in SUBSET Voters, HasQuorum(P), HasQuorum(Q)
    PROVE  P \cap Q # {}
<1>1. IsFiniteSet(Voters)
  BY ConstantsAssumption
<1>2. P \cap Voters = P /\ Q \cap Voters = Q
  OBVIOUS
<1>3. 2 * Cardinality(P) > Cardinality(Voters) /\ 2 * Cardinality(Q) > Cardinality(Voters)
  BY <1>2 DEF HasQuorum
<1>4. Cardinality(P) \in Nat /\ Cardinality(Q) \in Nat /\ Cardinality(Voters) \in Nat
  BY <1>1, FS_Subset, FS_CardinalityType
<1>5. Cardinality(P) + Cardinality(Q) > Cardinality(Voters)
  BY <1>3, <1>4
<1> QED BY <1>1, <1>5, FS_MajoritiesIntersect

----------------------------------------------------------------------------
(* The engine's methods: what each does to the fields that elections depend  *)
(* on, and that it yields a well-formed node.                                *)

\* r is a node that differs from s in no field an election looks at.
SameVote(s, r) ==
    /\ r \in NodeState
    /\ r.role = s.role
    /\ r.currentTerm = s.currentTerm
    /\ r.votedFor = s.votedFor
    /\ r.votesReceived = s.votesReceived

\* Smaller is the minimum of its arguments.
LEMMA SmallerType ==
    ASSUME NEW a \in Int, NEW b \in Int
    PROVE  Smaller(a, b) \in {a, b} /\ Smaller(a, b) <= a /\ Smaller(a, b) <= b
BY DEF Smaller

\* The last term of a log, 0 for an empty one, is a term.
LEMMA LastTermType ==
    ASSUME NEW l \in Seq(Nat)
    PROVE  LastTerm(l) \in Nat
BY DEF LastTerm

\* Applying committed entries (drain_apply_pipeline) touches no vote.
LEMMA DrainApplyPipelineVote ==
    ASSUME NEW s \in NodeState, s.commitIndex <= Len(s.log)
    PROVE  SameVote(s, DrainApplyPipeline(s))
<1> DEFINE new == SubSeq(s.log, Len(s.applied) + 1, s.commitIndex)
<1>1. s.log \in Seq(Nat) /\ s.applied \in Seq(Nat) /\ s.commitIndex \in Nat
  BY DEF NodeState
<1>2. new \in Seq(Nat)
  BY <1>1, SubSeqType
<1>3. s.applied \o new \in Seq(Nat)
  BY <1>1, <1>2, ConcatProperties
<1>4. DrainApplyPipeline(s) = [s EXCEPT !.applied = s.applied \o new]
  BY DEF DrainApplyPipeline
<1> HIDE DEF new
<1> QED BY <1>3, <1>4 DEF SameVote, NodeState

\* Neither does committing (try_advance_commit_index).
LEMMA TryAdvanceCommitIndexVote ==
    ASSUME NEW s \in NodeState, NEW n \in Nodes
    PROVE  SameVote(s, TryAdvanceCommitIndex(s, n))
<1> DEFINE k == CHOOSE k \in CommitCandidate(s, n) : TRUE
           r == [s EXCEPT !.commitIndex = k]
<1>1. CASE CommitCandidate(s, n) = {}
  BY <1>1 DEF TryAdvanceCommitIndex, SameVote
<1>2. CASE CommitCandidate(s, n) # {}
  <2>1. k \in CommitCandidate(s, n)
    BY <1>2
  <2> HIDE DEF k
  <2>2. k \in 0..Len(s.log) /\ s.log \in Seq(Nat) /\ k \in Nat
    BY <2>1 DEF CommitCandidate, NodeState
  <2>3. r \in NodeState /\ r.log = s.log /\ r.commitIndex = k
    BY <2>2 DEF NodeState
  <2>4. TryAdvanceCommitIndex(s, n) = DrainApplyPipeline(r)
    BY <1>2 DEF TryAdvanceCommitIndex, k
  <2>5. SameVote(s, r)
    BY <2>3 DEF SameVote, NodeState
  <2> HIDE DEF r
  <2>6. r.commitIndex <= Len(r.log)
    BY <2>2, <2>3
  <2>7. SameVote(r, DrainApplyPipeline(r))
    BY <2>3, <2>6, DrainApplyPipelineVote
  <2> QED BY <2>4, <2>5, <2>7 DEF SameVote
<1> QED BY <1>1, <1>2

\* become_follower: a vote is kept in its term and cleared in a later one.
LEMMA BecomeFollowerVote ==
    ASSUME NEW s \in NodeState, NEW t \in Nat, NEW leader \in Nodes \cup {None}
    PROVE  LET r == BecomeFollower(s, t, leader)
           IN  /\ r \in NodeState
               /\ r.role = IF s.role = "Observer" THEN "Observer" ELSE "Follower"
               /\ r.currentTerm = t
               /\ r.votedFor = IF t > s.currentTerm THEN None ELSE s.votedFor
BY DEF BecomeFollower, NodeState, Roles

\* become_leader changes neither the term nor the vote.
LEMMA BecomeLeaderVote ==
    ASSUME NEW s \in NodeState, NEW n \in Nodes
    PROVE  LET r == BecomeLeader(s, n)
           IN  /\ r \in NodeState
               /\ r.role = "Leader"
               /\ r.currentTerm = s.currentTerm
               /\ r.votedFor = s.votedFor
<1> DEFINE l == Append(s.log, s.currentTerm)
           z == [p \in Nodes |-> 0]
           r == [s EXCEPT !.role = "Leader",
                          !.leaderId = n,
                          !.votesReceived = {},
                          !.preVotesReceived = {},
                          !.lastFetchOffset = z,
                          !.log = l,
                          !.leaderNoOpIndex = Len(s.log) + 1]
<1>1. l \in Seq(Nat) /\ z \in [Nodes -> Nat] /\ Len(s.log) + 1 \in Nat
  BY AppendProperties DEF NodeState
<1>2. BecomeLeader(s, n) = TryAdvanceCommitIndex(r, n)
  BY DEF BecomeLeader
<1> HIDE DEF l, z
<1>3. /\ r \in NodeState
      /\ r.role = "Leader"
      /\ r.currentTerm = s.currentTerm
      /\ r.votedFor = s.votedFor
  BY <1>1 DEF NodeState, Roles
<1> HIDE DEF r
<1> QED BY <1>2, <1>3, TryAdvanceCommitIndexVote DEF SameVote

\* become_candidate starts a term with a vote for itself, counted once.
LEMMA BecomeCandidateVote ==
    ASSUME NEW s \in NodeState, NEW n \in Nodes
    PROVE  LET r == BecomeCandidate(s, n)
           IN  /\ r \in NodeState
               /\ r.currentTerm = s.currentTerm + 1
               /\ r.votedFor = n
               /\ \/ r.role = "Candidate" /\ r.votesReceived = {n}
                  \/ r.role = "Leader" /\ HasQuorum({n})
<1> DEFINE t == s.currentTerm + 1
           c == [s EXCEPT !.role = "Candidate",
                          !.currentTerm = t,
                          !.votedFor = n,
                          !.leaderId = None,
                          !.votesReceived = {n},
                          !.preVotesReceived = {},
                          !.leaderNoOpIndex = 0]
<1>1. t \in Nat
  BY DEF NodeState
<1>2. BecomeCandidate(s, n) = IF HasQuorum(c.votesReceived) THEN BecomeLeader(c, n) ELSE c
  BY DEF BecomeCandidate
<1> HIDE DEF t
<1>3. /\ c \in NodeState
      /\ c.role = "Candidate"
      /\ c.currentTerm = t
      /\ c.votedFor = n
      /\ c.votesReceived = {n}
  BY <1>1 DEF NodeState, Roles
<1> HIDE DEF c
<1>4. t = s.currentTerm + 1
  BY DEF t
<1> QED BY <1>2, <1>3, <1>4, BecomeLeaderVote

\* become_pre_candidate starts no term unless a lone voter goes on to lead it.
LEMMA BecomePreCandidateVote ==
    ASSUME NEW s \in NodeState, NEW n \in Nodes
    PROVE  LET r == BecomePreCandidate(s, n)
           IN  /\ r \in NodeState
               /\ \/ /\ r.role = "PreCandidate"
                     /\ r.currentTerm = s.currentTerm
                     /\ r.votedFor = s.votedFor
                  \/ /\ r.currentTerm = s.currentTerm + 1
                     /\ r.votedFor = n
                     /\ \/ r.role = "Candidate" /\ r.votesReceived = {n}
                        \/ r.role = "Leader" /\ HasQuorum({n})
<1> DEFINE p == [s EXCEPT !.role = "PreCandidate",
                          !.leaderId = None,
                          !.votesReceived = {},
                          !.preVotesReceived = {n},
                          !.leaderNoOpIndex = 0]
<1>1. /\ p \in NodeState
      /\ p.role = "PreCandidate"
      /\ p.currentTerm = s.currentTerm
      /\ p.votedFor = s.votedFor
  BY DEF NodeState, Roles
<1>2. BecomePreCandidate(s, n) =
        IF HasQuorum(p.preVotesReceived) THEN BecomeCandidate(p, n) ELSE p
  BY DEF BecomePreCandidate
<1> HIDE DEF p
<1> QED BY <1>1, <1>2, BecomeCandidateVote

\* handle_vote_request's inline step-down: a later term starts with no vote.
LEMMA AdoptTermVote ==
    ASSUME NEW s \in NodeState, s.role # "Observer", NEW t \in Nat
    PROVE  LET r == AdoptTerm(s, t)
           IN  /\ r \in NodeState
               /\ \/ t <= s.currentTerm /\ r = s
                  \/ /\ t > s.currentTerm
                     /\ r.role = "Follower"
                     /\ r.currentTerm = t
                     /\ r.votedFor = None
<1>1. CASE t > s.currentTerm
  <2> DEFINE r == [s EXCEPT !.role = "Follower",
                            !.currentTerm = t,
                            !.votedFor = None,
                            !.leaderId = None,
                            !.votesReceived = {},
                            !.preVotesReceived = {}]
  <2>1. r \in NodeState /\ r.role = "Follower" /\ r.currentTerm = t /\ r.votedFor = None
    BY DEF NodeState, Roles
  <2> QED BY <1>1, <2>1 DEF AdoptTerm
<1>2. CASE ~(t > s.currentTerm)
  BY <1>2 DEF AdoptTerm, NodeState
<1> QED BY <1>1, <1>2

\* handle_fetch_request_acked touches no vote.
LEMMA HandleFetchRequestAckedVote ==
    ASSUME NEW s \in NodeState, NEW n \in Nodes, NEW replica \in Nodes, NEW offset \in Nat
    PROVE  SameVote(s, HandleFetchRequestAcked(s, n, replica, offset))
<1> DEFINE clamped == Smaller(offset, Len(s.log))
           k == IF clamped > s.lastFetchOffset[replica]
                THEN clamped ELSE s.lastFetchOffset[replica]
           f == [s.lastFetchOffset EXCEPT ![replica] = k]
           r == [s EXCEPT !.lastFetchOffset = f]
<1>1. s.log \in Seq(Nat) /\ s.lastFetchOffset \in [Nodes -> Nat]
  BY DEF NodeState
<1>2. clamped \in Nat
  BY <1>1, SmallerType
<1>3. HandleFetchRequestAcked(s, n, replica, offset) = TryAdvanceCommitIndex(r, n)
  BY DEF HandleFetchRequestAcked
<1> HIDE DEF clamped
<1>4. f \in [Nodes -> Nat]
  BY <1>1, <1>2
<1> HIDE DEF f
<1>5. SameVote(s, r)
  BY <1>4 DEF SameVote, NodeState
<1> HIDE DEF r
<1> QED BY <1>3, <1>5, TryAdvanceCommitIndexVote DEF SameVote

\* The role change of handle_fetch_response keeps the vote of its term.
LEMMA FollowLeaderVote ==
    ASSUME NEW s \in NodeState, NEW m, m.leaderEpoch \in Nat, m.from \in Nodes,
           AcceptsLeader(s, m)
    PROVE  LET r == FollowLeader(s, m)
           IN  /\ r \in NodeState
               /\ r.role \in {"Observer", "Follower"}
               /\ r.role = "Observer" <=> s.role = "Observer"
               /\ r.currentTerm = m.leaderEpoch
               /\ r.currentTerm >= s.currentTerm
               /\ r.currentTerm = s.currentTerm => r.votedFor = s.votedFor
               /\ r.log = s.log
<1> DEFINE b == BecomeFollower(s, m.leaderEpoch, m.from)
           k == [s EXCEPT !.leaderId = m.from]
<1>1. /\ b \in NodeState
      /\ b.role = IF s.role = "Observer" THEN "Observer" ELSE "Follower"
      /\ b.currentTerm = m.leaderEpoch
      /\ b.votedFor = IF m.leaderEpoch > s.currentTerm THEN None ELSE s.votedFor
  BY BecomeFollowerVote
<1>2. b.log = s.log
  BY DEF BecomeFollower, NodeState
<1>3. /\ k \in NodeState
      /\ k.role = s.role /\ k.currentTerm = s.currentTerm
      /\ k.votedFor = s.votedFor /\ k.log = s.log
  BY DEF NodeState
<1>4. FollowLeader(s, m) =
        IF m.leaderEpoch > s.currentTerm \/ s.role \in {"Candidate", "PreCandidate"}
        THEN b ELSE k
  BY DEF FollowLeader
<1>5. s.currentTerm \in Nat /\ s.role \in Roles
  BY DEF NodeState
<1> HIDE DEF b, k
<1>6. CASE m.leaderEpoch > s.currentTerm \/ s.role \in {"Candidate", "PreCandidate"}
  BY <1>1, <1>2, <1>4, <1>5, <1>6 DEF AcceptsLeader
<1>7. CASE ~(m.leaderEpoch > s.currentTerm \/ s.role \in {"Candidate", "PreCandidate"})
  BY <1>3, <1>4, <1>5, <1>7 DEF AcceptsLeader, Roles
<1> QED BY <1>6, <1>7

----------------------------------------------------------------------------
(* Messages *)

\* A message's type determines its fields.
LEMMA MessageKinds ==
    ASSUME NEW m \in Message
    PROVE  /\ m.from \in Nodes /\ m.to \in Nodes
           /\ m.type \in {"PreVoteRequest", "VoteRequest"} => m \in VoteRequest
           /\ m.type \in {"PreVoteResponse", "VoteResponse"} => m \in VoteResponse
           /\ m.type = "FetchRequest" => m \in FetchRequest
           /\ m.type = "Entries" => m \in EntriesResponse
           /\ m.type = "DivergingEpoch" => m \in DivergingResponse
BY DEF Message, VoteRequest, VoteResponse, FetchRequest, EntriesResponse, DivergingResponse

\* The requests of become_pre_candidate and become_candidate are messages.
LEMMA RequestVotesType ==
    ASSUME NEW type \in {"PreVoteRequest", "VoteRequest"}, NEW n \in Nodes,
           NEW s \in NodeState, NEW t \in Nat
    PROVE  \A m \in RequestVotes(type, n, s, t) : m \in Message /\ m.type # "VoteResponse"
<1> SUFFICES ASSUME NEW m \in RequestVotes(type, n, s, t)
             PROVE  m \in Message /\ m.type # "VoteResponse"
  OBVIOUS
<1>1. Len(s.log) \in Nat /\ LastTerm(s.log) \in Nat
  BY LastTermType DEF NodeState
<1>2. PICK v \in Voters :
        m = [type |-> type, from |-> n, to |-> v, term |-> t,
             lastLogIndex |-> Len(s.log), lastLogTerm |-> LastTerm(s.log)]
  BY DEF RequestVotes
<1>3. v \in Nodes
  BY DEF Nodes
<1>4. m \in VoteRequest /\ m.type = type
  BY <1>1, <1>2, <1>3 DEF VoteRequest
<1> QED BY <1>4 DEF Message

\* The request of maybe_build_fetch_request is a message.
LEMMA FetchFromType ==
    ASSUME NEW n \in Nodes, NEW s \in NodeState, NEW target \in Nodes,
           NEW offset \in Nat \ {0}, NEW epoch \in Nat
    PROVE  /\ FetchFrom(n, s, target, offset, epoch) \in Message
           /\ FetchFrom(n, s, target, offset, epoch).type # "VoteResponse"
BY DEF FetchFrom, Message, FetchRequest, NodeState

\* Either answer of materialize_fetch_response is a message.
LEMMA MaterializeFetchResponseType ==
    ASSUME NEW s \in NodeState, NEW m \in FetchRequest
    PROVE  /\ MaterializeFetchResponse(s, m) \in Message
           /\ MaterializeFetchResponse(s, m).type # "VoteResponse"
<1> DEFINE end == EndOffsetForEpoch(s.log, m.lastFetchedEpoch)
           epoch == IF end = {} THEN LastTerm(s.log) ELSE m.lastFetchedEpoch
           offset == IF end = {} THEN Len(s.log) ELSE CHOOSE i \in end : TRUE
           last == Smaller(Len(s.log), m.fetchOffset + MaxBatch - 1)
           entries == SubSeq(s.log, m.fetchOffset, last)
<1>1. /\ s.log \in Seq(Nat) /\ Len(s.log) \in Nat /\ s.currentTerm \in Nat
      /\ s.commitIndex \in Nat /\ LastTerm(s.log) \in Nat
  BY LastTermType DEF NodeState
<1>2. /\ m.lastFetchedEpoch \in Nat /\ m.fetchOffset \in Nat \ {0}
      /\ m.from \in Nodes /\ m.to \in Nodes
  BY DEF FetchRequest
<1>3. end \subseteq Nat
  BY <1>1 DEF EndOffsetForEpoch
<1> HIDE DEF end
<1>4. epoch \in Nat /\ offset \in Nat
  BY <1>1, <1>2, <1>3
<1>5. last \in Int /\ last <= Len(s.log)
  BY <1>1, <1>2, ConstantsAssumption, SmallerType
<1> HIDE DEF last
<1>6. entries \in Seq(Nat)
  BY <1>1, <1>2, <1>5, SubSeqType
<1> HIDE DEF epoch, offset, entries
<1>7. CASE Diverges(s, m)
  <2>1. MaterializeFetchResponse(s, m) =
          [type |-> "DivergingEpoch", from |-> m.to, to |-> m.from,
           leaderEpoch |-> s.currentTerm, epoch |-> epoch, endOffset |-> offset]
    BY <1>7 DEF MaterializeFetchResponse, epoch, offset, end
  <2> QED BY <2>1, <1>1, <1>2, <1>4 DEF Message, DivergingResponse
<1>8. CASE ~Diverges(s, m)
  <2>1. MaterializeFetchResponse(s, m) =
          [type |-> "Entries", from |-> m.to, to |-> m.from,
           leaderEpoch |-> s.currentTerm, highWatermark |-> s.commitIndex,
           first |-> m.fetchOffset, entries |-> entries]
    BY <1>8 DEF MaterializeFetchResponse, entries, last
  <2> QED BY <2>1, <1>1, <1>2, <1>6 DEF Message, EntriesResponse
<1> QED BY <1>7, <1>8

----------------------------------------------------------------------------
(* The inductive invariant.  Election safety alone is not inductive: it says *)
(* nothing of the votes a second candidate might yet collect.                *)

RolesAreFixed == \A n \in Nodes : node[n].role = "Observer" <=> n \in Observers

DiskIsCurrent ==
    \A n \in Nodes : /\ disk[n].currentTerm = node[n].currentTerm
                     /\ disk[n].votedFor = node[n].votedFor

LeadersAreRecorded ==
    \A n \in Nodes : node[n].role = "Leader" => <<node[n].currentTerm, n>> \in elected

ElectionInv ==
    /\ TypeOK
    /\ RolesAreFixed
    /\ DiskIsCurrent
    /\ LeadersAreRecorded
    /\ BallotsAreBinding
    /\ ElectionSafety

\* v supports n, whose next record is r: by a ballot cast, or by the vote for
\* itself with which n enters the term.
Supports(v, n, r) ==
    \/ <<v, r.currentTerm, n>> \in Ballots
    \/ v = n /\ r.currentTerm > node[n].currentTerm /\ r.votedFor = n

\* What every event of node n does, as far as elections are concerned.
VoteStep(n, r, persist, sent) ==
    LET s == node[n]
    IN  /\ r.role = "Observer" <=> s.role = "Observer"
        /\ r.currentTerm >= s.currentTerm
        /\ r.currentTerm = s.currentTerm => s.votedFor \in {None, r.votedFor}
        /\ persist \/ (r.currentTerm = s.currentTerm /\ r.votedFor = s.votedFor)
        /\ \A m \in sent :
              m.type = "VoteResponse" /\ m.granted =>
                  m.from = n /\ m.term = r.currentTerm /\ m.to = r.votedFor
        /\ r.role = "Candidate" => \A v \in r.votesReceived : Supports(v, n, r)
        /\ r.role = "Leader" =>
              \/ s.role = "Leader" /\ r.currentTerm = s.currentTerm
              \/ \E Q \in SUBSET Voters : HasQuorum(Q) /\ \A v \in Q : Supports(v, n, r)

\* A ballot is a voter, a term and a candidate.
LEMMA BallotType ==
    ASSUME TypeOK, NEW b \in Ballots
    PROVE  b \in Nodes \X Nat \X Nodes
<1>1. CASE \E m \in net : m.type = "VoteResponse" /\ m.granted /\ b = <<m.from, m.term, m.to>>
  <2>1. PICK m \in net : m.type = "VoteResponse" /\ b = <<m.from, m.term, m.to>>
    BY <1>1
  <2>2. m \in VoteResponse
    BY <2>1, MessageKinds DEF TypeOK
  <2> QED BY <2>1, <2>2 DEF VoteResponse
<1>2. CASE \E c \in Nodes : \E v \in node[c].votesReceived : b = <<v, node[c].currentTerm, c>>
  BY <1>2 DEF TypeOK, NodeState
<1> QED BY <1>1, <1>2 DEF Ballots

\* What a candidate counts is a ballot.
LEMMA CountedBallot ==
    ASSUME NEW c \in Nodes, node[c].role = "Candidate", NEW v \in node[c].votesReceived
    PROVE  <<v, node[c].currentTerm, c>> \in Ballots
<1> DEFINE counted(d) == {<<w, node[d].currentTerm, d>> : w \in node[d].votesReceived}
           candidates == {d \in Nodes : node[d].role = "Candidate"}
<1>1. <<v, node[c].currentTerm, c>> \in counted(c)
  OBVIOUS
<1>2. c \in candidates
  OBVIOUS
<1> HIDE DEF counted, candidates
<1>3. <<v, node[c].currentTerm, c>> \in UNION {counted(d) : d \in candidates}
  BY <1>1, <1>2
<1> QED BY <1>3 DEF Ballots, counted, candidates

\* One event adds at most one ballot: the one its node's record stands for.
LEMMA BallotsStep ==
    ASSUME TypeOK, NEW n \in Nodes, NEW r \in NodeState, NEW persist, NEW consumed, NEW sent,
           Execute(n, r, persist, consumed, sent), VoteStep(n, r, persist, sent),
           NEW b \in Ballots'
    PROVE  b \in Ballots \/ b = <<n, r.currentTerm, r.votedFor>>
<1>1. node' = [node EXCEPT ![n] = r] /\ net' \subseteq net \cup sent
  BY DEF Execute
<1>2. CASE \E m \in net' : m.type = "VoteResponse" /\ m.granted /\ b = <<m.from, m.term, m.to>>
  <2>1. PICK m \in net' : m.type = "VoteResponse" /\ m.granted /\ b = <<m.from, m.term, m.to>>
    BY <1>2
  <2>2. CASE m \in net
    BY <2>1, <2>2 DEF Ballots
  <2>3. CASE m \in sent
    BY <2>1, <2>3 DEF VoteStep
  <2> QED BY <1>1, <2>2, <2>3
<1>3. CASE \E c \in Nodes : /\ node'[c].role = "Candidate"
                            /\ \E v \in node'[c].votesReceived : b = <<v, node'[c].currentTerm, c>>
  <2>1. PICK c \in Nodes : /\ node'[c].role = "Candidate"
                           /\ \E v \in node'[c].votesReceived : b = <<v, node'[c].currentTerm, c>>
    BY <1>3
  <2>2. PICK v \in node'[c].votesReceived : b = <<v, node'[c].currentTerm, c>>
    BY <2>1
  <2>3. CASE c = n
    <3>1. node'[c] = r
      BY <1>1, <2>3 DEF TypeOK
    <3> QED BY <2>1, <2>2, <2>3, <3>1 DEF VoteStep, Supports
  <2>4. CASE c # n
    <3>1. node'[c] = node[c]
      BY <1>1, <2>4 DEF TypeOK
    <3> QED BY <2>1, <2>2, <3>1 DEF Ballots
  <2> QED BY <2>3, <2>4
<1> QED BY <1>2, <1>3 DEF Ballots

\* No event releases a voter from a vote.
LEMMA BoundToStep ==
    ASSUME TypeOK, DiskIsCurrent, NEW n \in Nodes, NEW r \in NodeState,
           NEW persist \in BOOLEAN, NEW consumed, NEW sent,
           Execute(n, r, persist, consumed, sent), VoteStep(n, r, persist, sent)
    PROVE  /\ disk' \in [Nodes -> HardState]
           /\ DiskIsCurrent'
           /\ BoundTo(n, r.currentTerm, r.votedFor)'
           /\ \A v \in Nodes, t \in Nat, c \in Nodes : BoundTo(v, t, c) => BoundTo(v, t, c)'
<1> DEFINE h == [currentTerm |-> r.currentTerm, votedFor |-> r.votedFor,
                 commitIndex |-> Smaller(r.commitIndex, Len(node[n].log))]
<1>1. node' = [node EXCEPT ![n] = r] /\ disk' = IF persist THEN [disk EXCEPT ![n] = h] ELSE disk
  BY DEF Execute, PersistHardState
<1>2. Len(node[n].log) \in Nat /\ r.commitIndex \in Nat
  BY DEF TypeOK, NodeState
<1>3. h \in HardState /\ h.currentTerm = r.currentTerm /\ h.votedFor = r.votedFor
  BY <1>2, SmallerType DEF HardState, NodeState
<1> HIDE DEF h
<1>4. disk' \in [Nodes -> HardState]
  BY <1>1, <1>3 DEF TypeOK
<1>5. /\ disk'[n].currentTerm = r.currentTerm /\ disk'[n].votedFor = r.votedFor
      /\ node'[n] = r
      /\ \A v \in Nodes \ {n} : disk'[v] = disk[v] /\ node'[v] = node[v]
  <2>1. CASE persist
    BY <1>1, <1>3, <2>1 DEF TypeOK
  <2>2. CASE ~persist
    BY <1>1, <2>2 DEF TypeOK, VoteStep, DiskIsCurrent
  <2> QED BY <2>1, <2>2
<1>6. DiskIsCurrent'
  BY <1>5 DEF DiskIsCurrent
<1>7. BoundTo(n, r.currentTerm, r.votedFor)'
  BY <1>5 DEF BoundTo
<1>8. ASSUME NEW v \in Nodes, NEW t \in Nat, NEW c \in Nodes, BoundTo(v, t, c)
      PROVE  BoundTo(v, t, c)'
  <2>1. CASE v = n
    <3>1. /\ disk[n].currentTerm = node[n].currentTerm /\ disk[n].votedFor = node[n].votedFor
          /\ disk[n].currentTerm \in Nat /\ r.currentTerm \in Nat
      BY DEF DiskIsCurrent, TypeOK, HardState, NodeState
    <3>2. c # None
      BY ConstantsAssumption
    <3> QED BY <1>5, <1>8, <2>1, <3>1, <3>2 DEF BoundTo, VoteStep
  <2>2. CASE v # n
    BY <1>5, <1>8, <2>2 DEF BoundTo
  <2> QED BY <2>1, <2>2
<1> QED BY <1>4, <1>6, <1>7, <1>8

\* Every event of a node preserves the invariant.
LEMMA VoteStepInv ==
    ASSUME ElectionInv, NEW n \in Nodes, NEW r \in NodeState,
           NEW persist \in BOOLEAN, NEW consumed, NEW sent \in SUBSET Message,
           Execute(n, r, persist, consumed, sent), VoteStep(n, r, persist, sent),
           unknownEpochAnswered' \in BOOLEAN
    PROVE  ElectionInv'
<1> DEFINE own == <<n, r.currentTerm, r.votedFor>>
           e0 == <<r.currentTerm, n>>
<1>1. /\ node' = [node EXCEPT ![n] = r]
      /\ elected' = IF r.role = "Leader" THEN elected \cup {e0} ELSE elected
      /\ net' \subseteq net \cup sent
      /\ restarts' = restarts
      /\ committed' \in {committed, r.applied}
  BY DEF Execute
<1>2. TypeOK
  BY DEF ElectionInv
<1>3. /\ r.currentTerm \in Nat /\ node[n].currentTerm \in Nat
      /\ r.currentTerm >= node[n].currentTerm
      /\ disk[n].currentTerm = node[n].currentTerm /\ disk[n].votedFor = node[n].votedFor
  BY <1>2 DEF TypeOK, NodeState, VoteStep, ElectionInv, DiskIsCurrent
<1>4. \A b \in Ballots' : b \in Ballots \/ b = own
  BY <1>2, BallotsStep
<1>5. /\ disk' \in [Nodes -> HardState]
      /\ DiskIsCurrent'
      /\ BoundTo(n, r.currentTerm, r.votedFor)'
      /\ \A v \in Nodes, t \in Nat, c \in Nodes : BoundTo(v, t, c) => BoundTo(v, t, c)'
  BY <1>2, BoundToStep DEF ElectionInv
<1>6. \A b \in Ballots : b \in Nodes \X Nat \X Nodes
  BY <1>2, BallotType
<1>7. RolesAreFixed'
  BY <1>1, <1>2 DEF RolesAreFixed, ElectionInv, TypeOK, VoteStep
<1>8. r.role = "Leader" => n \in Voters
  <2>1. r.role = "Leader" => node[n].role # "Observer"
    BY DEF VoteStep
  <2> QED BY <2>1 DEF ElectionInv, RolesAreFixed, Nodes
<1>9. TypeOK'
  <2>1. node' \in [Nodes -> NodeState]
    BY <1>1, <1>2 DEF TypeOK
  <2>2. net' \subseteq Message
    BY <1>1, <1>2 DEF TypeOK
  <2>3. elected' \subseteq Nat \X Voters
    BY <1>1, <1>2, <1>3, <1>8 DEF TypeOK
  <2>4. committed' \in Seq(Nat)
    BY <1>1, <1>2 DEF TypeOK, NodeState
  <2> QED BY <1>1, <1>2, <1>5, <2>1, <2>2, <2>3, <2>4 DEF TypeOK
<1>10. LeadersAreRecorded'
  BY <1>1, <1>2 DEF LeadersAreRecorded, ElectionInv, TypeOK
\* The vote in n's record agrees with whatever n was bound to in that term.
<1>11. ASSUME NEW c \in Nodes, BoundTo(n, r.currentTerm, c)
       PROVE  r.votedFor = c /\ node[n].currentTerm = r.currentTerm
  <2>1. c # None
    BY ConstantsAssumption
  <2> QED BY <1>3, <1>11, <2>1 DEF BoundTo, VoteStep
<1>12. \A b \in Ballots' : BoundTo(b[1], b[2], b[3])'
  <2> SUFFICES ASSUME NEW b \in Ballots' PROVE BoundTo(b[1], b[2], b[3])'
    OBVIOUS
  <2>1. CASE b \in Ballots
    BY <1>5, <1>6, <2>1 DEF ElectionInv, BallotsAreBinding
  <2>2. CASE b = own
    BY <1>5, <2>2
  <2> QED BY <1>4, <2>1, <2>2
\* A ballot of n in the term of its next record is for the candidate there.
<1>13. \A b \in Ballots' : b[1] = n /\ b[2] = r.currentTerm => b[3] = r.votedFor
  <2> SUFFICES ASSUME NEW b \in Ballots', b[1] = n, b[2] = r.currentTerm
               PROVE  b[3] = r.votedFor
    OBVIOUS
  <2>1. CASE b \in Ballots
    BY <1>6, <1>11, <2>1 DEF ElectionInv, BallotsAreBinding
  <2> QED BY <1>4, <2>1
<1>14. \A b, d \in Ballots' : b[1] = d[1] /\ b[2] = d[2] => b[3] = d[3]
  <2> SUFFICES ASSUME NEW b \in Ballots', NEW d \in Ballots', b[1] = d[1], b[2] = d[2]
               PROVE  b[3] = d[3]
    OBVIOUS
  <2>1. CASE b \in Ballots /\ d \in Ballots
    BY <2>1 DEF ElectionInv, BallotsAreBinding
  <2>2. CASE b = own \/ d = own
    BY <1>13, <2>2
  <2> QED BY <1>4, <2>1, <2>2
\* The quorum of a leader elected earlier stays bound to it.
<1>15. ASSUME NEW e \in elected
       PROVE  \E Q \in SUBSET Voters :
                 /\ HasQuorum(Q)
                 /\ \A v \in Q :
                       /\ BoundTo(v, e[1], e[2])'
                       /\ \A b \in Ballots' : b[1] = v /\ b[2] = e[1] => b[3] = e[2]
  <2>1. PICK Q \in SUBSET Voters :
          /\ HasQuorum(Q)
          /\ \A v \in Q :
                /\ BoundTo(v, e[1], e[2])
                /\ \A b \in Ballots : b[1] = v /\ b[2] = e[1] => b[3] = e[2]
    BY DEF ElectionInv, BallotsAreBinding
  <2>2. e[1] \in Nat /\ e[2] \in Nodes /\ Q \subseteq Nodes
    BY <1>2 DEF TypeOK, Nodes
  <2>3. ASSUME NEW v \in Q, NEW b \in Ballots', b[1] = v, b[2] = e[1]
        PROVE  b[3] = e[2]
    <3>1. CASE b \in Ballots
      BY <2>1, <2>3, <3>1
    <3>2. CASE b = own
      <4>1. v = n /\ e[1] = r.currentTerm /\ b[3] = r.votedFor
        BY <2>3, <3>2
      <4>2. BoundTo(n, r.currentTerm, e[2])
        BY <2>1, <4>1
      <4> QED BY <1>11, <2>2, <4>1, <4>2
    <3> QED BY <1>4, <3>1, <3>2
  <2>4. \A v \in Q : BoundTo(v, e[1], e[2])'
    BY <1>5, <2>1, <2>2
  <2> QED BY <2>1, <2>3, <2>4
<1>16. CASE r.role = "Leader" /\ e0 \notin elected
  <2>1. PICK Q \in SUBSET Voters : HasQuorum(Q) /\ \A v \in Q : Supports(v, n, r)
    BY <1>16 DEF VoteStep, ElectionInv, LeadersAreRecorded
  <2>2. Q \subseteq Nodes
    BY DEF Nodes
  <2>3. ASSUME NEW v \in Q
        PROVE  /\ BoundTo(v, r.currentTerm, n)'
               /\ \A b \in Ballots' : b[1] = v /\ b[2] = r.currentTerm => b[3] = n
    <3>1. CASE <<v, r.currentTerm, n>> \in Ballots
      <4>1. BoundTo(v, r.currentTerm, n)
        BY <3>1 DEF ElectionInv, BallotsAreBinding
      <4>2. BoundTo(v, r.currentTerm, n)'
        BY <1>3, <1>5, <2>2, <4>1
      <4>3. ASSUME NEW b \in Ballots', b[1] = v, b[2] = r.currentTerm
            PROVE  b[3] = n
        <5>1. CASE b \in Ballots
          BY <3>1, <4>3, <5>1 DEF ElectionInv, BallotsAreBinding
        <5>2. CASE b = own
          BY <1>11, <4>1, <4>3, <5>2
        <5> QED BY <1>4, <5>1, <5>2
      <4> QED BY <4>2, <4>3
    <3>2. CASE v = n /\ r.currentTerm > node[n].currentTerm /\ r.votedFor = n
      BY <1>5, <1>13, <3>2
    <3> QED BY <2>1, <3>1, <3>2 DEF Supports
  \* A leader elected earlier in the same term shares a supporter with n.
  <2>4. ASSUME NEW e \in elected, e[1] = r.currentTerm
        PROVE  e[2] = n
    <3>1. PICK P \in SUBSET Voters :
            /\ HasQuorum(P)
            /\ \A v \in P :
                  /\ BoundTo(v, e[1], e[2])
                  /\ \A b \in Ballots : b[1] = v /\ b[2] = e[1] => b[3] = e[2]
      BY DEF ElectionInv, BallotsAreBinding
    <3>2. PICK v \in P \cap Q : TRUE
      BY <2>1, <3>1, QuorumsIntersect
    <3>3. CASE <<v, r.currentTerm, n>> \in Ballots
      BY <2>4, <3>1, <3>2, <3>3
    <3>4. CASE v = n /\ r.currentTerm > node[n].currentTerm
      <4>1. e[2] \in Nodes /\ BoundTo(n, r.currentTerm, e[2])
        BY <1>2, <2>4, <3>1, <3>2, <3>4 DEF TypeOK, Nodes
      <4> QED BY <1>3, <1>11, <3>4, <4>1
    <3> QED BY <2>1, <3>2, <3>3, <3>4 DEF Supports
  <2>5. elected' = elected \cup {e0}
    BY <1>1, <1>16
  <2>6. ElectionSafety'
    BY <2>4, <2>5 DEF ElectionSafety, ElectionInv
  <2>7. BallotsAreBinding'
    <3>1. ASSUME NEW e \in elected'
          PROVE  \E P \in SUBSET Voters :
                    /\ HasQuorum(P)
                    /\ \A v \in P :
                          /\ BoundTo(v, e[1], e[2])'
                          /\ \A b \in Ballots' : b[1] = v /\ b[2] = e[1] => b[3] = e[2]
      <4>1. CASE e \in elected
        BY <1>15, <4>1
      <4>2. CASE e = e0
        BY <2>1, <2>3, <4>2
      <4> QED BY <2>5, <4>1, <4>2
    <3> QED BY <1>12, <1>14, <3>1 DEF BallotsAreBinding
  <2> QED BY <1>5, <1>7, <1>9, <1>10, <2>6, <2>7 DEF ElectionInv
<1>17. CASE ~(r.role = "Leader" /\ e0 \notin elected)
  <2>1. elected' = elected
    BY <1>1, <1>17
  <2>2. ElectionSafety'
    BY <2>1 DEF ElectionSafety, ElectionInv
  <2>3. BallotsAreBinding'
    BY <1>12, <1>14, <1>15, <2>1 DEF BallotsAreBinding
  <2> QED BY <1>5, <1>7, <1>9, <1>10, <2>2, <2>3 DEF ElectionInv
<1> QED BY <1>16, <1>17

----------------------------------------------------------------------------
(* Each action is a vote step. *)

\* handle_tick, on an expired election timer, preserves the invariant.
LEMMA ElectionTimeoutInv ==
    ASSUME ElectionInv, NEW n \in Nodes, ElectionTimeout(n)
    PROVE  ElectionInv'
<1> DEFINE s == node[n]
           r == BecomePreCandidate(s, n)
           persist == r.currentTerm > s.currentTerm
           sent == RequestVotes("PreVoteRequest", n, s, s.currentTerm + 1)
<1>1. s \in NodeState /\ s.currentTerm \in Nat /\ unknownEpochAnswered \in BOOLEAN
  BY DEF ElectionInv, TypeOK, NodeState
<1>2. /\ s.role \in {"Follower", "PreCandidate", "Candidate"}
      /\ Execute(n, r, persist, {}, sent)
      /\ unknownEpochAnswered' = unknownEpochAnswered
  BY DEF ElectionTimeout
<1>3. n \in Voters
  BY <1>2 DEF ElectionInv, RolesAreFixed, Nodes
<1> HIDE DEF s
<1>4. /\ r \in NodeState
      /\ \/ /\ r.role = "PreCandidate"
            /\ r.currentTerm = s.currentTerm
            /\ r.votedFor = s.votedFor
         \/ /\ r.currentTerm = s.currentTerm + 1
            /\ r.votedFor = n
            /\ \/ r.role = "Candidate" /\ r.votesReceived = {n}
               \/ r.role = "Leader" /\ HasQuorum({n})
  BY <1>1, BecomePreCandidateVote
<1>5. sent \subseteq Message /\ \A m \in sent : m.type # "VoteResponse"
  BY <1>1, RequestVotesType
<1> HIDE DEF r, sent
<1>6. VoteStep(n, r, persist, sent)
  BY <1>1, <1>2, <1>3, <1>4, <1>5 DEF VoteStep, Supports, s
<1>7. persist \in BOOLEAN
  OBVIOUS
<1> HIDE DEF persist
<1> QED BY <1>1, <1>2, <1>4, <1>5, <1>6, <1>7, VoteStepInv

\* An event that leaves the node's vote alone and grants none.
LEMMA SameVoteInv ==
    ASSUME ElectionInv, NEW n \in Nodes, NEW r, SameVote(node[n], r),
           NEW persist \in BOOLEAN, NEW consumed, NEW sent \in SUBSET Message,
           \A m \in sent : m.type # "VoteResponse",
           Execute(n, r, persist, consumed, sent),
           unknownEpochAnswered' \in BOOLEAN
    PROVE  ElectionInv'
<1>1. r \in NodeState /\ r.currentTerm \in Nat
  BY DEF SameVote, NodeState
<1>2. r.role = "Candidate" => \A v \in r.votesReceived : <<v, r.currentTerm, n>> \in Ballots
  BY CountedBallot DEF SameVote
<1>3. VoteStep(n, r, persist, sent)
  BY <1>1, <1>2 DEF VoteStep, Supports, SameVote
<1> QED BY <1>1, <1>3, VoteStepInv

\* An event that makes the node a follower, or keeps it an observer, in the same
\* term with the same vote or in a later term.
LEMMA StepDownInv ==
    ASSUME ElectionInv, NEW n \in Nodes, NEW r \in NodeState,
           NEW persist \in BOOLEAN, NEW consumed, NEW sent \in SUBSET Message,
           r.role \in {"Follower", "Observer"},
           r.role = "Observer" <=> node[n].role = "Observer",
           \/ r.currentTerm > node[n].currentTerm /\ persist
           \/ r.currentTerm = node[n].currentTerm /\ r.votedFor = node[n].votedFor,
           \A m \in sent : m.type # "VoteResponse",
           Execute(n, r, persist, consumed, sent),
           unknownEpochAnswered' \in BOOLEAN
    PROVE  ElectionInv'
<1>1. r.currentTerm \in Nat /\ node[n].currentTerm \in Nat
  BY DEF ElectionInv, TypeOK, NodeState
<1>2. VoteStep(n, r, persist, sent)
  BY <1>1 DEF VoteStep
<1> QED BY <1>2, VoteStepInv

\* handle_tick, on a failed Check-Quorum, preserves the invariant.
LEMMA CheckQuorumFailsInv ==
    ASSUME ElectionInv, NEW n \in Nodes, CheckQuorumFails(n)
    PROVE  ElectionInv'
<1> DEFINE s == node[n]
           r == BecomeFollower(s, s.currentTerm, None)
           persist == FALSE
           none == {}
<1>1. s \in NodeState /\ s.currentTerm \in Nat /\ unknownEpochAnswered \in BOOLEAN
  BY DEF ElectionInv, TypeOK, NodeState
<1>2. /\ s.role = "Leader"
      /\ Execute(n, r, persist, none, none)
      /\ unknownEpochAnswered' = unknownEpochAnswered
  BY DEF CheckQuorumFails
<1>3. /\ r \in NodeState
      /\ r.role = "Follower"
      /\ r.currentTerm = s.currentTerm
      /\ r.votedFor = s.votedFor
  BY <1>1, <1>2, BecomeFollowerVote
<1>4. persist \in BOOLEAN /\ none \in SUBSET Message /\ \A m \in none : m.type # "VoteResponse"
  OBVIOUS
<1> HIDE DEF r, persist, none
<1> QED BY <1>1, <1>2, <1>3, <1>4, StepDownInv

\* A message with a later term makes its receiver a follower that has not voted.
LEMMA NewTermInv ==
    ASSUME ElectionInv, NEW n \in Nodes, NEW t \in Nat, t > node[n].currentTerm,
           NEW consumed,
           Execute(n, BecomeFollower(node[n], t, None), TRUE, consumed, {}),
           unknownEpochAnswered' \in BOOLEAN
    PROVE  ElectionInv'
<1> DEFINE s == node[n]
           r == BecomeFollower(s, t, None)
           persist == TRUE
           none == {}
<1>1. s \in NodeState
  BY DEF ElectionInv, TypeOK
<1>2. /\ r \in NodeState
      /\ r.role = IF s.role = "Observer" THEN "Observer" ELSE "Follower"
      /\ r.currentTerm = t
  BY <1>1, BecomeFollowerVote
<1>3. persist \in BOOLEAN /\ none \in SUBSET Message /\ \A m \in none : m.type # "VoteResponse"
  OBVIOUS
<1>4. Execute(n, r, persist, consumed, none)
  OBVIOUS
<1>5. persist
  OBVIOUS
<1> HIDE DEF r, persist, none
<1>6. r.role \in {"Follower", "Observer"} /\ (r.role = "Observer" <=> s.role = "Observer")
  BY <1>2
<1> QED BY <1>2, <1>3, <1>4, <1>5, <1>6, StepDownInv

\* handle_pre_vote_request preserves the invariant.
LEMMA HandlePreVoteRequestInv ==
    ASSUME ElectionInv, NEW m \in net, HandlePreVoteRequest(m)
    PROVE  ElectionInv'
<1> DEFINE n == m.to
           s == node[n]
           reply(active) == [type |-> "PreVoteResponse", from |-> n, to |-> m.from,
                             term |-> s.currentTerm,
                             granted |-> /\ m.term > s.currentTerm
                                         /\ CandidateLogIsUpToDate(s, m)
                                         /\ ~active]
           persist == FALSE
           none == {}
<1>1. m \in Message /\ n \in Nodes /\ m.from \in Nodes
  BY MessageKinds DEF ElectionInv, TypeOK
<1>2. s \in NodeState /\ s.currentTerm \in Nat /\ unknownEpochAnswered \in BOOLEAN
  BY <1>1 DEF ElectionInv, TypeOK, NodeState
<1>3. unknownEpochAnswered' = unknownEpochAnswered
  BY DEF HandlePreVoteRequest
<1>4. PICK active \in BOOLEAN : Execute(n, s, persist, none, Reply(reply(active)))
  BY DEF HandlePreVoteRequest, LeaderRecentlyActive
<1>5. Reply(reply(active)) \in SUBSET {reply(active)}
  BY DEF Reply
<1>6. reply(active) \in Message /\ reply(active).type # "VoteResponse"
  BY <1>1, <1>2 DEF Message, VoteResponse
<1> DEFINE sent == Reply(reply(active))
<1>7. sent \in SUBSET Message /\ \A x \in sent : x.type # "VoteResponse"
  BY <1>5, <1>6
<1>8. persist \in BOOLEAN /\ SameVote(s, s)
  BY <1>2 DEF SameVote
<1> HIDE DEF sent, persist, none, n, reply
<1> QED BY <1>1, <1>2, <1>3, <1>4, <1>7, <1>8, SameVoteInv DEF sent

\* handle_pre_vote_response preserves the invariant.
LEMMA HandlePreVoteResponseInv ==
    ASSUME ElectionInv, NEW m \in net, HandlePreVoteResponse(m)
    PROVE  ElectionInv'
<1> DEFINE n == m.to
           s == node[n]
           p == [s EXCEPT !.preVotesReceived = @ \cup {m.from}]
           none == {}
<1>1. m \in Message /\ n \in Nodes /\ m.from \in Nodes /\ m.term \in Nat
  BY MessageKinds DEF ElectionInv, TypeOK, HandlePreVoteResponse, VoteResponse
<1>2. s \in NodeState /\ s.currentTerm \in Nat /\ unknownEpochAnswered \in BOOLEAN
  BY <1>1 DEF ElectionInv, TypeOK, NodeState
<1>3. unknownEpochAnswered' = unknownEpochAnswered
  BY DEF HandlePreVoteResponse
<1>4. CASE /\ m.term > s.currentTerm
           /\ Execute(n, BecomeFollower(s, m.term, None), TRUE, {}, {})
  BY <1>1, <1>2, <1>3, <1>4, NewTermInv
<1>5. SameVote(s, p)
  BY <1>1, <1>2 DEF SameVote, NodeState
<1>6. CASE /\ s.role = "PreCandidate"
           /\ Execute(n, BecomeCandidate(p, n), TRUE, {},
                      RequestVotes("VoteRequest", n, s, s.currentTerm + 1))
  <2> DEFINE r == BecomeCandidate(p, n)
             persist == TRUE
             sent == RequestVotes("VoteRequest", n, s, s.currentTerm + 1)
  <2> HIDE DEF p
  <2>1. /\ r \in NodeState
        /\ r.currentTerm = s.currentTerm + 1
        /\ r.votedFor = n
        /\ \/ r.role = "Candidate" /\ r.votesReceived = {n}
           \/ r.role = "Leader" /\ HasQuorum({n})
    BY <1>1, <1>5, BecomeCandidateVote DEF SameVote
  <2>2. sent \in SUBSET Message /\ \A x \in sent : x.type # "VoteResponse"
    BY <1>1, <1>2, RequestVotesType
  <2>3. n \in Voters
    BY <1>1, <1>6 DEF ElectionInv, RolesAreFixed, Nodes
  <2>4. Execute(n, r, persist, none, sent) /\ persist \in BOOLEAN /\ persist
    BY <1>6
  <2> HIDE DEF r, sent, persist, none
  <2>5. VoteStep(n, r, persist, sent)
    BY <1>2, <1>6, <2>1, <2>2, <2>3, <2>4 DEF VoteStep, Supports
  <2> HIDE DEF n
  <2> QED BY <1>1, <1>2, <1>3, <2>1, <2>2, <2>4, <2>5, VoteStepInv
<1>7. CASE Execute(n, p, FALSE, {}, {})
  <2> DEFINE persist == FALSE
  <2>1. /\ persist \in BOOLEAN /\ none \in SUBSET Message
        /\ \A x \in none : x.type # "VoteResponse"
        /\ Execute(n, p, persist, none, none)
    BY <1>7
  <2> HIDE DEF persist, none, p, n
  <2> QED BY <1>1, <1>2, <1>3, <1>5, <2>1, SameVoteInv
<1> QED BY <1>4, <1>6, <1>7 DEF HandlePreVoteResponse

\* handle_vote_request preserves the invariant.
LEMMA HandleVoteRequestInv ==
    ASSUME ElectionInv, NEW m \in net, HandleVoteRequest(m)
    PROVE  ElectionInv'
<1> DEFINE n == m.to
           s == node[n]
           a == AdoptTerm(s, m.term)
           granted == VoteGranted(s, m)
           g == IF granted THEN [a EXCEPT !.votedFor = m.from] ELSE a
           persist == <<g.currentTerm, g.votedFor>> # <<s.currentTerm, s.votedFor>>
           reply == [type |-> "VoteResponse", from |-> n, to |-> m.from,
                     term |-> g.currentTerm, granted |-> granted]
           sent == Reply(reply)
           none == {}
<1>1. m \in Message /\ n \in Nodes /\ m.from \in Nodes /\ m.term \in Nat
  BY MessageKinds DEF ElectionInv, TypeOK, HandleVoteRequest, VoteRequest
<1>2. s \in NodeState /\ s.currentTerm \in Nat /\ unknownEpochAnswered \in BOOLEAN
  BY <1>1 DEF ElectionInv, TypeOK, NodeState
<1>3. /\ unknownEpochAnswered' = unknownEpochAnswered
      /\ s.role # "Observer"
      /\ Execute(n, g, persist, none, sent)
  BY DEF HandleVoteRequest
<1>4. /\ a \in NodeState
      /\ \/ m.term <= s.currentTerm /\ a = s
         \/ /\ m.term > s.currentTerm
            /\ a.role = "Follower"
            /\ a.currentTerm = m.term
            /\ a.votedFor = None
  BY <1>1, <1>2, <1>3, AdoptTermVote
<1>5. granted \in BOOLEAN /\ (granted => a.votedFor \in {None, m.from})
  BY DEF VoteGranted
<1> HIDE DEF n, a, granted
<1>6. /\ g \in NodeState
      /\ g.role = a.role /\ g.currentTerm = a.currentTerm
      /\ g.votesReceived = a.votesReceived
      /\ granted => g.votedFor = m.from
      /\ ~granted => g.votedFor = a.votedFor
  BY <1>1, <1>4 DEF NodeState
<1>7. a.votedFor \in {None, g.votedFor}
  BY <1>5, <1>6
<1> HIDE DEF g
<1>8. reply \in Message
  BY <1>1, <1>5, <1>6 DEF Message, VoteResponse, NodeState
<1>9. sent \subseteq {reply}
  BY DEF Reply
<1>10. \A x \in sent :
         x.type = "VoteResponse" /\ x.granted =>
             x.from = n /\ x.term = g.currentTerm /\ x.to = g.votedFor
  BY <1>6, <1>9
<1> HIDE DEF sent, reply, none
<1>11. g.role = "Candidate" => \A v \in g.votesReceived : <<v, g.currentTerm, n>> \in Ballots
  BY <1>1, <1>4, <1>6, CountedBallot
<1>12. persist \/ (g.currentTerm = s.currentTerm /\ g.votedFor = s.votedFor)
  OBVIOUS
<1>13. persist \in BOOLEAN
  OBVIOUS
<1> HIDE DEF persist
<1>14. VoteStep(n, g, persist, sent)
  BY <1>1, <1>2, <1>3, <1>4, <1>6, <1>7, <1>10, <1>11, <1>12 DEF VoteStep, Supports
<1> QED BY <1>1, <1>2, <1>3, <1>6, <1>8, <1>9, <1>13, <1>14, VoteStepInv

\* handle_vote_response preserves the invariant.
LEMMA HandleVoteResponseInv ==
    ASSUME ElectionInv, NEW m \in net, HandleVoteResponse(m)
    PROVE  ElectionInv'
<1> DEFINE n == m.to
           s == node[n]
           c == [s EXCEPT !.votesReceived = @ \cup {m.from}]
           r == IF HasQuorum(c.votesReceived) THEN BecomeLeader(c, n) ELSE c
           none == {}
<1>1. m \in Message /\ n \in Nodes /\ m.from \in Nodes /\ m.term \in Nat
  BY MessageKinds DEF ElectionInv, TypeOK, HandleVoteResponse, VoteResponse
<1>2. s \in NodeState /\ s.currentTerm \in Nat /\ unknownEpochAnswered \in BOOLEAN
  BY <1>1 DEF ElectionInv, TypeOK, NodeState
<1>3. unknownEpochAnswered' = unknownEpochAnswered /\ m.type = "VoteResponse"
  BY DEF HandleVoteResponse
<1>4. CASE /\ m.term > s.currentTerm
           /\ Execute(n, BecomeFollower(s, m.term, None), TRUE, {}, {})
  BY <1>1, <1>2, <1>3, <1>4, NewTermInv
<1>5. CASE /\ m.term = s.currentTerm
           /\ s.role = "Candidate"
           /\ m.granted
           /\ Execute(n, r, FALSE, {}, {})
  <2> DEFINE persist == FALSE
  <2>1. /\ c \in NodeState
        /\ c.role = s.role /\ c.currentTerm = s.currentTerm /\ c.votedFor = s.votedFor
        /\ c.votesReceived = s.votesReceived \cup {m.from}
    BY <1>1, <1>2 DEF NodeState
  <2>2. /\ persist \in BOOLEAN /\ ~persist /\ none \in SUBSET Message
        /\ \A x \in none : x.type # "VoteResponse"
        /\ Execute(n, r, persist, none, none)
    BY <1>5
  <2>3. <<m.from, s.currentTerm, n>> \in Ballots
    BY <1>3, <1>5 DEF Ballots
  <2> HIDE DEF c
  <2>4. \A v \in c.votesReceived : <<v, c.currentTerm, n>> \in Ballots
    BY <1>1, <1>5, <2>1, <2>3, CountedBallot
  <2>5. c.votesReceived \subseteq Nodes
    BY <2>1 DEF NodeState
  <2>6. /\ r \in NodeState
        /\ r.currentTerm = s.currentTerm /\ r.votedFor = s.votedFor
        /\ r.role # "Observer"
        /\ r.role = "Candidate" => r.votesReceived = c.votesReceived
        /\ r.role = "Leader" => HasQuorum(c.votesReceived)
    <3>1. CASE HasQuorum(c.votesReceived)
      BY <1>1, <2>1, <3>1, BecomeLeaderVote
    <3>2. CASE ~HasQuorum(c.votesReceived)
      BY <1>5, <2>1, <3>2
    <3> QED BY <3>1, <3>2
  <2> HIDE DEF r, none, persist, n
  <2>7. r.role = "Leader" =>
          \E Q \in SUBSET Voters : HasQuorum(Q) /\ \A v \in Q : <<v, r.currentTerm, n>> \in Ballots
    <3> DEFINE Q == c.votesReceived \cap Voters
    <3>1. HasQuorum(c.votesReceived) => HasQuorum(Q)
      <4>1. Q \cap Voters = c.votesReceived \cap Voters
        OBVIOUS
      <4> QED BY <4>1 DEF HasQuorum
    <3>2. \A v \in Q : <<v, r.currentTerm, n>> \in Ballots
      BY <2>1, <2>4, <2>6
    <3> QED BY <2>6, <3>1, <3>2
  <2>8. VoteStep(n, r, persist, none)
    BY <1>2, <1>5, <2>1, <2>2, <2>4, <2>6, <2>7 DEF VoteStep, Supports
  <2> QED BY <1>1, <1>2, <1>3, <2>2, <2>6, <2>8, VoteStepInv
<1> QED BY <1>4, <1>5 DEF HandleVoteResponse

\* handle_tick, on a due fetch, preserves the invariant.
LEMMA FetchTickInv ==
    ASSUME ElectionInv, NEW n \in Nodes, FetchTick(n)
    PROVE  ElectionInv'
<1> DEFINE s == node[n]
           targets == {t \in IF s.leaderId = None THEN Voters \ {n} ELSE {s.leaderId} :
                          <<n, t>> \in FetchLinks}
           old == {m \in net : \E t \in targets : Abandoned(m, n, t)}
           sent == {FetchFrom(n, s, t, Len(s.log) + 1, LastTerm(s.log)) : t \in targets}
           persist == FALSE
<1>1. /\ s \in NodeState /\ SameVote(s, s) /\ unknownEpochAnswered \in BOOLEAN
      /\ Len(s.log) + 1 \in Nat \ {0} /\ LastTerm(s.log) \in Nat
  BY LastTermType DEF ElectionInv, TypeOK, NodeState, SameVote
<1>2. unknownEpochAnswered' = unknownEpochAnswered /\ Execute(n, s, persist, old, sent)
  BY DEF FetchTick
<1>3. targets \subseteq Nodes
  BY <1>1 DEF Nodes, NodeState
<1> HIDE DEF targets, old
<1>4. \A t \in targets : LET f == FetchFrom(n, s, t, Len(s.log) + 1, LastTerm(s.log))
                         IN  f \in Message /\ f.type # "VoteResponse"
  BY <1>1, <1>3, FetchFromType
<1>5. sent \in SUBSET Message /\ \A x \in sent : x.type # "VoteResponse"
  BY <1>4
<1>6. persist \in BOOLEAN
  OBVIOUS
<1> HIDE DEF sent, persist
<1> QED BY <1>1, <1>2, <1>5, <1>6, SameVoteInv

\* handle_fetch_request preserves the invariant.
LEMMA HandleFetchRequestInv ==
    ASSUME ElectionInv, NEW m \in net, HandleFetchRequest(m)
    PROVE  ElectionInv'
<1> DEFINE n == m.to
           s == node[n]
           r == IF Diverges(s, m) THEN s
                ELSE HandleFetchRequestAcked(s, n, m.from, m.fetchOffset - 1)
           sent == {MaterializeFetchResponse(s, m)}
           persist == FALSE
           consumed == Consumed(m)
<1>1. /\ m \in FetchRequest /\ n \in Nodes /\ m.from \in Nodes
      /\ m.leaderEpoch \in Nat /\ m.fetchOffset \in Nat \ {0}
  BY MessageKinds DEF ElectionInv, TypeOK, HandleFetchRequest, FetchRequest
<1>2. s \in NodeState /\ s.currentTerm \in Nat /\ unknownEpochAnswered \in BOOLEAN
  BY <1>1 DEF ElectionInv, TypeOK, NodeState
<1>3. CASE /\ m.leaderEpoch > s.currentTerm
           /\ Execute(n, BecomeFollower(s, m.leaderEpoch, None), TRUE, consumed, {})
           /\ UNCHANGED unknownEpochAnswered
  BY <1>1, <1>2, <1>3, NewTermInv
<1>4. CASE /\ Execute(n, r, FALSE, consumed, sent)
           /\ unknownEpochAnswered' =
                 \/ unknownEpochAnswered
                 \/ Diverges(s, m) /\ EndOffsetForEpoch(s.log, m.lastFetchedEpoch) = {}
  <2>1. m.fetchOffset - 1 \in Nat
    BY <1>1
  <2>2. SameVote(s, r)
    <3>1. SameVote(s, s)
      BY <1>2 DEF SameVote
    <3>2. SameVote(s, HandleFetchRequestAcked(s, n, m.from, m.fetchOffset - 1))
      BY <1>1, <1>2, <2>1, HandleFetchRequestAckedVote
    <3> QED BY <3>1, <3>2
  <2>3. sent \in SUBSET Message /\ \A x \in sent : x.type # "VoteResponse"
    BY <1>1, <1>2, MaterializeFetchResponseType
  <2>4. persist \in BOOLEAN /\ Execute(n, r, persist, consumed, sent)
    BY <1>4
  <2>5. unknownEpochAnswered' \in BOOLEAN
    BY <1>4
  <2> HIDE DEF r, sent, persist, n, consumed
  <2> QED BY <1>1, <2>2, <2>3, <2>4, <2>5, SameVoteInv
<1> QED BY <1>3, <1>4 DEF HandleFetchRequest

\* A node that cuts its log on a leader's word follows that leader in its term.
LEMMA TruncateLogVote ==
    ASSUME NEW s \in NodeState, NEW m, m.leaderEpoch \in Nat, m.from \in Nodes,
           m.endOffset \in Nat, AcceptsLeader(s, m)
    PROVE  LET r == TruncateLog(s, m)
           IN  /\ r \in NodeState
               /\ r.role \in {"Observer", "Follower"}
               /\ r.role = "Observer" <=> s.role = "Observer"
               /\ r.currentTerm = m.leaderEpoch
               /\ r.currentTerm >= s.currentTerm
               /\ r.currentTerm = s.currentTerm => r.votedFor = s.votedFor
<1> DEFINE f == FollowLeader(s, m)
           l == KeptPrefix(f.log, m.endOffset)
           r == [f EXCEPT !.log = l]
<1>1. TruncateLog(s, m) = r
  BY DEF TruncateLog
<1>2. /\ f \in NodeState
      /\ f.role \in {"Observer", "Follower"}
      /\ f.role = "Observer" <=> s.role = "Observer"
      /\ f.currentTerm = m.leaderEpoch
      /\ f.currentTerm >= s.currentTerm
      /\ f.currentTerm = s.currentTerm => f.votedFor = s.votedFor
  BY FollowLeaderVote
<1> HIDE DEF f
<1>3. l \in Seq(Nat)
  <2>1. f.log \in Seq(Nat)
    BY <1>2 DEF NodeState
  <2>2. Smaller(m.endOffset, Len(f.log)) \in Int
        /\ Smaller(m.endOffset, Len(f.log)) <= Len(f.log)
    BY <2>1, SmallerType
  <2> QED BY <2>1, <2>2, SubSeqType DEF KeptPrefix
<1> HIDE DEF l
<1>4. /\ r \in NodeState /\ r.role = f.role
      /\ r.currentTerm = f.currentTerm /\ r.votedFor = f.votedFor
  BY <1>2, <1>3 DEF NodeState
<1> HIDE DEF r
<1> QED BY <1>1, <1>2, <1>4

\* A node that takes a leader's entries follows that leader in its term.
LEMMA TakeEntriesVote ==
    ASSUME NEW s \in NodeState, NEW m, m.leaderEpoch \in Nat, m.from \in Nodes,
           m.highWatermark \in Nat, m.entries \in Seq(Nat), AcceptsLeader(s, m)
    PROVE  LET r == TakeEntries(s, m)
           IN  /\ r \in NodeState
               /\ r.role \in {"Observer", "Follower"}
               /\ r.role = "Observer" <=> s.role = "Observer"
               /\ r.currentTerm = m.leaderEpoch
               /\ r.currentTerm >= s.currentTerm
               /\ r.currentTerm = s.currentTerm => r.votedFor = s.votedFor
<1> DEFINE f == FollowLeader(s, m)
           a == [f EXCEPT !.log = f.log \o m.entries]
           commit == Smaller(m.highWatermark, Len(a.log))
           d == [a EXCEPT !.commitIndex = commit]
           r == IF BatchFits(s, m) /\ commit > s.commitIndex
                THEN DrainApplyPipeline(d)
                ELSE IF BatchFits(s, m) THEN a ELSE f
<1>1. TakeEntries(s, m) = r
  BY DEF TakeEntries
<1>2. /\ f \in NodeState
      /\ f.role \in {"Observer", "Follower"}
      /\ f.role = "Observer" <=> s.role = "Observer"
      /\ f.currentTerm = m.leaderEpoch
      /\ f.currentTerm >= s.currentTerm
      /\ f.currentTerm = s.currentTerm => f.votedFor = s.votedFor
  BY FollowLeaderVote
<1> HIDE DEF f
<1>3. f.log \o m.entries \in Seq(Nat)
  BY <1>2, ConcatProperties DEF NodeState
<1>4. SameVote(f, a)
  BY <1>2, <1>3 DEF SameVote, NodeState
<1> HIDE DEF a
<1>5. commit \in Nat /\ commit <= Len(a.log)
  <2>1. Len(a.log) \in Nat
    BY <1>4 DEF SameVote, NodeState
  <2> QED BY <2>1, SmallerType
<1> HIDE DEF commit
<1>6. SameVote(a, d) /\ d.commitIndex = commit /\ d.log = a.log
  BY <1>4, <1>5 DEF SameVote, NodeState
<1> HIDE DEF d
<1>7. SameVote(d, DrainApplyPipeline(d))
  <2>1. d \in NodeState /\ d.commitIndex <= Len(d.log)
    BY <1>5, <1>6 DEF SameVote
  <2> QED BY <2>1, DrainApplyPipelineVote
<1>8. /\ r \in NodeState /\ r.role = f.role
      /\ r.currentTerm = f.currentTerm /\ r.votedFor = f.votedFor
  BY <1>2, <1>4, <1>6, <1>7 DEF SameVote
<1> HIDE DEF r
<1> QED BY <1>1, <1>2, <1>8

\* handle_fetch_response, told of a divergence, preserves the invariant.
LEMMA HandleDivergingEpochInv ==
    ASSUME ElectionInv, NEW m \in net, HandleDivergingEpoch(m)
    PROVE  ElectionInv'
<1> DEFINE n == m.to
           s == node[n]
           f == FollowLeader(s, m)
           r == TruncateLog(s, m)
           persist == m.leaderEpoch > s.currentTerm
           sent == {FetchFrom(n, f, m.from, m.endOffset + 1, m.epoch)}
           consumed == Consumed(m)
<1>1. /\ n \in Nodes /\ m.from \in Nodes /\ m.leaderEpoch \in Nat
      /\ m.endOffset \in Nat /\ m.epoch \in Nat
  BY MessageKinds DEF ElectionInv, TypeOK, HandleDivergingEpoch, DivergingResponse
<1>2. s \in NodeState /\ s.currentTerm \in Nat /\ unknownEpochAnswered \in BOOLEAN
  BY <1>1 DEF ElectionInv, TypeOK, NodeState
<1>3. /\ AcceptsLeader(s, m)
      /\ Execute(n, r, persist, consumed, sent)
      /\ unknownEpochAnswered' = unknownEpochAnswered
  BY DEF HandleDivergingEpoch
<1> HIDE DEF n
<1>4. f \in NodeState
  BY <1>1, <1>2, <1>3, FollowLeaderVote
<1>5. sent \in SUBSET Message /\ \A x \in sent : x.type # "VoteResponse"
  BY <1>1, <1>4, FetchFromType
<1>6. /\ r \in NodeState
      /\ r.role \in {"Observer", "Follower"}
      /\ r.role = "Observer" <=> s.role = "Observer"
      /\ r.currentTerm = m.leaderEpoch
      /\ r.currentTerm >= s.currentTerm
      /\ r.currentTerm = s.currentTerm => r.votedFor = s.votedFor
  BY <1>1, <1>2, <1>3, TruncateLogVote
<1> HIDE DEF r, sent, consumed
<1>7. \/ r.currentTerm > s.currentTerm /\ persist
      \/ r.currentTerm = s.currentTerm /\ r.votedFor = s.votedFor
  BY <1>1, <1>2, <1>6
<1>8. persist \in BOOLEAN
  OBVIOUS
<1> HIDE DEF persist
<1> QED BY <1>1, <1>2, <1>3, <1>5, <1>6, <1>7, <1>8, StepDownInv

\* handle_fetch_response, given entries, preserves the invariant.
LEMMA HandleEntriesInv ==
    ASSUME ElectionInv, NEW m \in net, HandleEntries(m)
    PROVE  ElectionInv'
<1> DEFINE n == m.to
           s == node[n]
           r == TakeEntries(s, m)
           persist == m.leaderEpoch > s.currentTerm
           none == {}
           consumed == Consumed(m)
<1>1. /\ n \in Nodes /\ m.from \in Nodes /\ m.leaderEpoch \in Nat
      /\ m.highWatermark \in Nat /\ m.entries \in Seq(Nat)
  BY MessageKinds DEF ElectionInv, TypeOK, HandleEntries, EntriesResponse
<1>2. s \in NodeState /\ s.currentTerm \in Nat /\ unknownEpochAnswered \in BOOLEAN
  BY <1>1 DEF ElectionInv, TypeOK, NodeState
<1>3. /\ AcceptsLeader(s, m)
      /\ Execute(n, r, persist, consumed, none)
      /\ unknownEpochAnswered' = unknownEpochAnswered
  BY DEF HandleEntries
<1> HIDE DEF n
<1>4. /\ r \in NodeState
      /\ r.role \in {"Observer", "Follower"}
      /\ r.role = "Observer" <=> s.role = "Observer"
      /\ r.currentTerm = m.leaderEpoch
      /\ r.currentTerm >= s.currentTerm
      /\ r.currentTerm = s.currentTerm => r.votedFor = s.votedFor
  BY <1>1, <1>2, <1>3, TakeEntriesVote
<1>5. none \in SUBSET Message /\ \A x \in none : x.type # "VoteResponse"
  OBVIOUS
<1> HIDE DEF r, none, consumed
<1>6. \/ r.currentTerm > s.currentTerm /\ persist
      \/ r.currentTerm = s.currentTerm /\ r.votedFor = s.votedFor
  BY <1>1, <1>2, <1>4
<1>7. persist \in BOOLEAN
  OBVIOUS
<1> HIDE DEF persist
<1> QED BY <1>1, <1>2, <1>3, <1>4, <1>5, <1>6, <1>7, StepDownInv

\* handle_client_propose preserves the invariant.
LEMMA ClientProposeInv ==
    ASSUME ElectionInv, NEW n \in Nodes, ClientPropose(n)
    PROVE  ElectionInv'
<1> DEFINE s == node[n]
           l == Append(s.log, s.currentTerm)
           a == [s EXCEPT !.log = l]
           r == TryAdvanceCommitIndex(a, n)
           persist == FALSE
           none == {}
<1>1. s \in NodeState /\ unknownEpochAnswered \in BOOLEAN
  BY DEF ElectionInv, TypeOK
<1>2. /\ Execute(n, r, persist, none, none)
      /\ unknownEpochAnswered' = unknownEpochAnswered
  BY DEF ClientPropose
<1>3. l \in Seq(Nat)
  BY <1>1, AppendProperties DEF NodeState
<1> HIDE DEF l
<1>4. SameVote(s, a)
  BY <1>1, <1>3 DEF SameVote, NodeState
<1> HIDE DEF a
<1>5. SameVote(a, r)
  BY <1>4, TryAdvanceCommitIndexVote DEF SameVote
<1>6. SameVote(s, r)
  BY <1>4, <1>5 DEF SameVote
<1>7. /\ persist \in BOOLEAN /\ none \in SUBSET Message
      /\ \A x \in none : x.type # "VoteResponse"
  OBVIOUS
<1> HIDE DEF r, persist, none
<1> QED BY <1>1, <1>2, <1>6, <1>7, SameVoteInv

\* RaftNode::new builds a well-formed node.
LEMMA NewNodeType ==
    ASSUME NEW n \in Nodes
    PROVE  /\ NewNode(n) \in NodeState
           /\ NewNode(n).role = IF n \in Observers THEN "Observer" ELSE "Follower"
<1>1. <<>> \in Seq(Nat) /\ [p \in Nodes |-> 0] \in [Nodes -> Nat]
  OBVIOUS
<1> QED BY <1>1 DEF NewNode, NodeState, Roles

\* Recovery restores the term and the vote from the hard state.
LEMMA RecoveredVote ==
    ASSUME TypeOK, NEW n \in Nodes, NEW h \in HardState
    PROVE  /\ Recovered(n, h) \in NodeState
           /\ Recovered(n, h).role = IF n \in Observers THEN "Observer" ELSE "Follower"
           /\ Recovered(n, h).currentTerm = h.currentTerm
           /\ Recovered(n, h).votedFor = h.votedFor
<1> DEFINE new == NewNode(n)
           k == Smaller(h.commitIndex, Len(node[n].log))
           r == [new EXCEPT !.currentTerm = h.currentTerm,
                            !.votedFor = h.votedFor,
                            !.log = node[n].log,
                            !.commitIndex = k]
<1>1. new \in NodeState /\ new.role = IF n \in Observers THEN "Observer" ELSE "Follower"
  BY NewNodeType
<1>2. /\ h.currentTerm \in Nat /\ h.votedFor \in Nodes \cup {None}
      /\ h.commitIndex \in Nat /\ node[n].log \in Seq(Nat)
  BY DEF TypeOK, HardState, NodeState
<1>3. k \in Nat /\ k <= Len(node[n].log)
  BY <1>2, SmallerType
<1>4. Recovered(n, h) = DrainApplyPipeline(r)
  BY DEF Recovered
<1> HIDE DEF new, k
<1>5. /\ r \in NodeState /\ r.role = new.role
      /\ r.currentTerm = h.currentTerm /\ r.votedFor = h.votedFor
      /\ r.commitIndex = k /\ r.log = node[n].log
  BY <1>1, <1>2, <1>3 DEF NodeState
<1> HIDE DEF r
<1>6. SameVote(r, DrainApplyPipeline(r))
  BY <1>3, <1>5, DrainApplyPipelineVote
<1> QED BY <1>1, <1>4, <1>5, <1>6 DEF SameVote

\* A crash preserves the invariant when the hard state it leaves is the one on
\* disk or of a later term.
LEMMA CrashInv ==
    ASSUME ElectionInv, NEW n \in Nodes, NEW h \in HardState, Crash(n, h),
           \/ h.currentTerm > disk[n].currentTerm
           \/ h.currentTerm = disk[n].currentTerm /\ h.votedFor = disk[n].votedFor
    PROVE  ElectionInv'
<1> DEFINE r == Recovered(n, h)
<1>1. TypeOK /\ DiskIsCurrent /\ RolesAreFixed /\ LeadersAreRecorded
  BY DEF ElectionInv
<1>2. /\ node' = [node EXCEPT ![n] = r] /\ net' \subseteq net
      /\ restarts' = restarts + 1 /\ disk' = [disk EXCEPT ![n] = h] /\ elected' = elected
      /\ committed' = committed /\ unknownEpochAnswered' = unknownEpochAnswered
  BY DEF Crash
<1>3. /\ r \in NodeState
      /\ r.role = IF n \in Observers THEN "Observer" ELSE "Follower"
      /\ r.currentTerm = h.currentTerm
      /\ r.votedFor = h.votedFor
  BY <1>1, RecoveredVote
<1> HIDE DEF r
<1>4. node'[n] = r /\ \A v \in Nodes \ {n} : node'[v] = node[v]
  BY <1>1, <1>2 DEF TypeOK
<1>5. disk'[n] = h /\ \A v \in Nodes \ {n} : disk'[v] = disk[v]
  BY <1>1, <1>2 DEF TypeOK
<1>6. TypeOK'
  BY <1>1, <1>2, <1>3 DEF TypeOK
<1>7. RolesAreFixed'
  BY <1>1, <1>3, <1>4 DEF RolesAreFixed
<1>8. DiskIsCurrent'
  BY <1>1, <1>3, <1>4, <1>5 DEF DiskIsCurrent
<1>9. LeadersAreRecorded'
  BY <1>1, <1>2, <1>3, <1>4 DEF LeadersAreRecorded
<1>10. ASSUME NEW b \in Ballots'
      PROVE  b \in Ballots
  <2>1. CASE \E m \in net' : m.type = "VoteResponse" /\ m.granted /\ b = <<m.from, m.term, m.to>>
    BY <1>2, <2>1 DEF Ballots
  <2>2. CASE \E c \in Nodes : /\ node'[c].role = "Candidate"
                              /\ \E v \in node'[c].votesReceived : b = <<v, node'[c].currentTerm, c>>
    <3>1. PICK c \in Nodes : /\ node'[c].role = "Candidate"
                             /\ \E v \in node'[c].votesReceived : b = <<v, node'[c].currentTerm, c>>
      BY <2>2
    <3>2. node'[c] = node[c]
      BY <1>3, <1>4, <3>1
    <3> QED BY <3>1, <3>2, CountedBallot
  <2> QED BY <1>10, <2>1, <2>2 DEF Ballots
<1>11. ASSUME NEW v \in Nodes, NEW t \in Nat, NEW c \in Nodes, BoundTo(v, t, c)
       PROVE  BoundTo(v, t, c)'
  <2>1. h.currentTerm \in Nat /\ disk[v].currentTerm \in Nat
    BY <1>1 DEF TypeOK, HardState
  <2> QED BY <1>11, <1>5, <2>1 DEF BoundTo
<1>12. BallotsAreBinding'
  <2>1. BallotsAreBinding
    BY DEF ElectionInv
  <2>2. \A b \in Ballots' : BoundTo(b[1], b[2], b[3])'
    <3>1. \A b \in Ballots : b \in Nodes \X Nat \X Nodes
      BY <1>1, BallotType
    <3> QED BY <1>10, <1>11, <2>1, <3>1 DEF BallotsAreBinding
  <2>3. \A b, d \in Ballots' : b[1] = d[1] /\ b[2] = d[2] => b[3] = d[3]
    BY <1>10, <2>1 DEF BallotsAreBinding
  <2>4. ASSUME NEW e \in elected'
        PROVE  \E Q \in SUBSET Voters :
                  /\ HasQuorum(Q)
                  /\ \A v \in Q :
                        /\ BoundTo(v, e[1], e[2])'
                        /\ \A b \in Ballots' : b[1] = v /\ b[2] = e[1] => b[3] = e[2]
    <3>1. PICK Q \in SUBSET Voters :
            /\ HasQuorum(Q)
            /\ \A v \in Q :
                  /\ BoundTo(v, e[1], e[2])
                  /\ \A b \in Ballots : b[1] = v /\ b[2] = e[1] => b[3] = e[2]
      BY <1>2, <2>1 DEF BallotsAreBinding
    <3>2. e[1] \in Nat /\ e[2] \in Nodes /\ Q \subseteq Nodes
      BY <1>1, <1>2 DEF TypeOK, Nodes
    <3> QED BY <1>10, <1>11, <3>1, <3>2
  <2> QED BY <2>2, <2>3, <2>4 DEF BallotsAreBinding
<1>13. ElectionSafety'
  BY <1>2 DEF ElectionInv, ElectionSafety
<1> QED BY <1>6, <1>7, <1>8, <1>9, <1>12, <1>13 DEF ElectionInv

\* A crash between two events preserves the invariant.
LEMMA RestartInv ==
    ASSUME ElectionInv, NEW n \in Nodes, Restart(n)
    PROVE  ElectionInv'
<1>1. disk[n] \in HardState
  BY DEF ElectionInv, TypeOK
<1> QED BY <1>1, CrashInv DEF Restart

\* A crash inside an action list, after PersistHardState, preserves the invariant.
LEMMA CrashAfterPersistInv ==
    ASSUME ElectionInv, NEW m \in net, CrashAfterPersist(m)
    PROVE  ElectionInv'
<1> DEFINE n == m.to
           s == node[n]
           r == IF m.type = "Entries" THEN TakeEntries(s, m) ELSE TruncateLog(s, m)
           h == PersistHardState(n, r)
<1>1. /\ m.type \in {"Entries", "DivergingEpoch"} /\ m.leaderEpoch > s.currentTerm
      /\ Crash(n, h)
  BY DEF CrashAfterPersist
<1>2. /\ n \in Nodes /\ m.from \in Nodes /\ m.leaderEpoch \in Nat
      /\ m.type = "Entries" => m.highWatermark \in Nat /\ m.entries \in Seq(Nat)
      /\ m.type = "DivergingEpoch" => m.endOffset \in Nat
  BY <1>1, MessageKinds DEF ElectionInv, TypeOK, EntriesResponse, DivergingResponse
<1>3. s \in NodeState /\ s.currentTerm \in Nat /\ Len(s.log) \in Nat
  BY <1>2 DEF ElectionInv, TypeOK, NodeState
<1>4. AcceptsLeader(s, m)
  BY <1>1 DEF AcceptsLeader
<1> HIDE DEF n
<1>5. r \in NodeState /\ r.currentTerm = m.leaderEpoch
  <2>1. CASE m.type = "Entries"
    BY <1>2, <1>3, <1>4, <2>1, TakeEntriesVote
  <2>2. CASE m.type = "DivergingEpoch"
    BY <1>2, <1>3, <1>4, <2>2, TruncateLogVote
  <2> QED BY <1>1, <2>1, <2>2
<1> HIDE DEF r
<1>6. r.commitIndex \in Nat /\ r.votedFor \in Nodes \cup {None}
  BY <1>5 DEF NodeState
<1>7. Smaller(r.commitIndex, Len(s.log)) \in Nat
  BY <1>3, <1>6, SmallerType
<1>8. h \in HardState /\ h.currentTerm = m.leaderEpoch
  BY <1>2, <1>5, <1>6, <1>7 DEF PersistHardState, HardState
<1> HIDE DEF h
<1>9. disk[n].currentTerm = s.currentTerm
  BY <1>2 DEF ElectionInv, DiskIsCurrent
<1>10. h.currentTerm > disk[n].currentTerm
  BY <1>1, <1>8, <1>9
<1> QED BY <1>1, <1>2, <1>8, <1>10, CrashInv

----------------------------------------------------------------------------
(* The theorems *)

\* The invariant holds of a freshly started cluster.
LEMMA InitInv ==
    ASSUME Init
    PROVE  ElectionInv
<1>1. node = [n \in Nodes |-> NewNode(n)] /\ \A n \in Nodes : NewNode(n) \in NodeState
  BY NewNodeType DEF Init
<1>2. TypeOK
  <2>1. disk \in [Nodes -> HardState]
    BY DEF Init, HardState
  <2>2. node \in [Nodes -> NodeState]
    BY <1>1
  <2>3. net \subseteq Message /\ restarts \in Nat /\ elected \subseteq Nat \X Voters
    BY DEF Init
  <2>4. committed \in Seq(Nat)
    BY DEF Init
  <2>5. unknownEpochAnswered \in BOOLEAN
    BY DEF Init
  <2> QED BY <2>1, <2>2, <2>3, <2>4, <2>5 DEF TypeOK
<1>3. \A n \in Nodes : node[n].role = IF n \in Observers THEN "Observer" ELSE "Follower"
  BY <1>1, NewNodeType
<1>4. RolesAreFixed /\ LeadersAreRecorded
  BY <1>3 DEF RolesAreFixed, LeadersAreRecorded
<1>5. DiskIsCurrent
  BY DEF Init, DiskIsCurrent, NewNode
<1>6. Ballots = {}
  <2>1. {c \in Nodes : node[c].role = "Candidate"} = {}
    BY <1>3
  <2>2. {m \in net : m.type = "VoteResponse" /\ m.granted} = {}
    BY DEF Init
  <2> QED BY <2>1, <2>2 DEF Ballots
<1>7. BallotsAreBinding /\ ElectionSafety
  BY <1>6 DEF Init, BallotsAreBinding, ElectionSafety
<1> QED BY <1>2, <1>4, <1>5, <1>7 DEF ElectionInv

\* Every step preserves the invariant.
LEMMA NextInv ==
    ASSUME ElectionInv, [Next]_vars
    PROVE  ElectionInv'
<1>1. CASE UNCHANGED vars
  <2>1. Ballots' = Ballots
    BY <1>1 DEF vars, Ballots
  <2>2. BallotsAreBinding'
    BY <1>1, <2>1 DEF vars, ElectionInv, BallotsAreBinding, BoundTo
  <2> QED BY <1>1, <2>2 DEF vars, ElectionInv, TypeOK, RolesAreFixed, DiskIsCurrent,
                            LeadersAreRecorded, ElectionSafety
<1>2. CASE Next
  BY <1>2, ElectionTimeoutInv, CheckQuorumFailsInv, FetchTickInv, ClientProposeInv,
     RestartInv, CrashAfterPersistInv, HandlePreVoteRequestInv, HandlePreVoteResponseInv,
     HandleVoteRequestInv, HandleVoteResponseInv, HandleFetchRequestInv, HandleDivergingEpochInv, HandleEntriesInv
     DEF Next
<1> QED BY <1>1, <1>2

\* The inductive invariant holds in every reachable state.
THEOREM ElectionInvariant == Spec => []ElectionInv
<1>1. Init => ElectionInv
  BY InitInv
<1>2. ElectionInv /\ [Next]_vars => ElectionInv'
  BY NextInv
<1> QED BY <1>1, <1>2, PTL DEF Spec

\* Every variable keeps its type: what RaftNode, HardState and the RPC structs
\* can hold, for any set of voters, any log length and any number of crashes.
THEOREM TypeCorrectness == Spec => []TypeOK
<1>1. ElectionInv => TypeOK
  BY DEF ElectionInv
<1> QED BY <1>1, ElectionInvariant, PTL

\* handle_vote_request, become_candidate and recovery together keep every vote
\* that is counted, or still under way, binding on its voter.
THEOREM VotesBind == Spec => []BallotsAreBinding
<1>1. ElectionInv => BallotsAreBinding
  BY DEF ElectionInv
<1> QED BY <1>1, ElectionInvariant, PTL

\* become_leader runs on at most one node per term, however votes are delayed,
\* lost or repeated and whichever nodes crash and restart.
THEOREM AtMostOneLeaderPerTerm == Spec => []ElectionSafety
<1>1. ElectionInv => ElectionSafety
  BY DEF ElectionInv
<1> QED BY <1>1, ElectionInvariant, PTL

=============================================================================
