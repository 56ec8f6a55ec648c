------------------------------ MODULE MCXRaft ------------------------------
(***************************************************************************)
(* XRaft on small instances: which RPCs get through in which term, for the *)
(* scenarios of the configuration files, and the symmetry of the voters.   *)
(***************************************************************************)
EXTENDS XRaft, TLC

CONSTANTS n1, n2, n3

AllVoteLinks == [t \in 0..MaxTerm |-> Voters \X Voters]

\* n1 may win term 1 with n2.  From then on n2 may run, and needs n3, whose log
\* is empty: n2 wins whether or not it has fetched from n1.
VoteChain ==
    [t \in 0..MaxTerm |-> IF t = 0 THEN {<<n1, n1>>, <<n1, n2>>}
                          ELSE {<<n2, n2>>, <<n2, n3>>}]

\* n1 may win term 1 with n2.  From then on n3 may run, and needs n2, whose log
\* may be ahead of its own.
VoteReturn ==
    [t \in 0..MaxTerm |-> IF t = 0 THEN {<<n1, n1>>, <<n1, n2>>}
                          ELSE {<<n3, n3>>, <<n3, n2>>}]

\* Two voters n1 and n2 that need each other; the third replica observes.
VotePair ==
    [t \in 0..MaxTerm |-> IF t = 0 THEN {<<n1, n1>>, <<n1, n2>>}
                          ELSE {<<n2, n2>>, <<n2, n1>>}]

FetchPair == {<<n2, n1>>, <<n1, n2>>}
FetchStar == {<<n2, n1>>, <<n3, n1>>}
FetchChain == {<<n2, n1>>, <<n3, n1>>, <<n3, n2>>}

VoterSymmetry == Permutations(Voters)

=============================================================================
