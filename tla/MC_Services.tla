------------------------------ MODULE MC_Services -------------------------------
(* A small instance of each of the Services.                               *)
EXTENDS Services, TLC

CONSTANTS
    a1, a2, e1, p1, p2, p3,     \* patch calls, an editor, paths
    r1, r2,                     \* apply calls
    s1, s2, s3, t1,             \* starts of a terminal session, its id
    q1, q2, x1, x2              \* calls of enqueue and of execute

(* Two patch proposals with one id over three files - a change and a new   *)
(* file, a rename and a removal - and an editing session.                  *)
ThreePaths == {p1, p2, p3}
TwoCalls == {a1, a2}
OneEditor == {e1}
Nobody == {}
TwoProposals ==
    (a1 :> <<[op |-> "modify", path |-> p1, to |-> p1],
             [op |-> "create", path |-> p2, to |-> p2]>>)
 @@ (a2 :> <<[op |-> "rename", path |-> p1, to |-> p3],
             [op |-> "delete", path |-> p2, to |-> p2]>>)
AllPaths == [a \in TwoCalls |-> ThreePaths]
TwoFaultsOneCrash == [io |-> 2, crash |-> 1]

(* A turn executed twice, its second candidate with a secret file beside   *)
(* the first's, and two apply calls of which one passes the approval.      *)
TwoFiles == {"file", "secret"}
OneThenBoth == <<{"file"}, {"file", "secret"}>>
TwoApplyCalls == {r1, r2}
OneApplyCall == {r1}
TroublesOfAnApply == [fault |-> 1, user |-> 2]

(* One intent for a protected branch, enqueued and executed twice, while   *)
(* commits are made here and elsewhere.  The calls of each kind are alike; *)
(* they stay as they begin wherever the liveness property says something,  *)
(* so the symmetry hides none of its counterexamples.                      *)
TwoEnqueuers == {q1, q2}
TwoExecutors == {x1, x2}
PushSymmetry == Permutations(TwoEnqueuers) \cup Permutations(TwoExecutors)

(* Three steps of two calls each under the default tool policy.            *)
TwoPaths == {p1, p2}
DefaultPermissions == [read |-> "ReadOnly", command |-> "Ask", write |-> "Allow"]

(* Three starts of one session id.                                         *)
OneSession == {t1}
ThreeStarts == {s1, s2, s3}

(* Two quarantines of one design package, each approved twice or rejected, *)
(* and an edit of its tokens.                                              *)
OneOfEach == [io |-> 1, crash |-> 1]
=============================================================================
