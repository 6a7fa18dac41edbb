---------------------------- MODULE DesignRevision ----------------------------
(***************************************************************************)
(* crates/opensks-design, revision.rs: the revisions proposed for a design *)
(* package are files, numbered by whoever proposes them and rewritten by   *)
(* whoever decides about them.  Each call is a process of the command line.*)
(***************************************************************************)
EXTENDS Integers, FiniteSetsExt

CONSTANTS
    Proposers,      \* calls of propose_revision
    Deciders        \* calls of accept_, reject_ and rollback_revision

(* No more files than proposals.                                           *)
Indices == 1..Cardinality(Proposers)

VARIABLES
    record,         \* index -> state in the revision's file, or "absent"
    propose,        \* progress of each proposal
    decide          \* progress of each decision

vars == <<record, propose, decide>>

Init ==
    /\ record = [n \in Indices |-> "absent"]
    /\ propose = [p \in Proposers |-> [step |-> "new", n |-> 0]]
    /\ decide = [d \in Deciders |-> [step |-> "new", n |-> 0, to |-> "absent"]]

Highest == Max({n \in Indices : record[n] # "absent"} \cup {0})

(* next_revision_id                                                        *)
ProposeNumbers(p) ==
    /\ propose[p].step = "new"
    /\ propose' = [propose EXCEPT ![p] = [step |-> "link", n |-> Highest + 1]]
    /\ UNCHANGED <<record, decide>>

(* The hard link fails when the name is taken, and a new number is sought. *)
ProposeLinks(p) ==
    /\ propose[p].step = "link"
    /\ \/ /\ record[propose[p].n] = "absent"
          /\ record' = [record EXCEPT ![propose[p].n] = "proposed"]
          /\ propose' = [propose EXCEPT ![p].step = "proposed"]
       \/ /\ record[propose[p].n] # "absent"
          /\ propose' = [propose EXCEPT ![p].step = "new"]
          /\ UNCHANGED record
    /\ UNCHANGED decide

(* What each decision takes a revision from and to.                        *)
Decisions == {[from |-> {"proposed"}, to |-> "accepted"],
              [from |-> {"proposed"}, to |-> "rejected"],
              [from |-> {"accepted", "rejected"}, to |-> "rolled_back"]}

DecideLoads(d) ==
    /\ decide[d].step = "new"
    /\ \E n \in Indices, v \in Decisions :
           /\ record[n] # "absent"
           /\ decide' = [decide EXCEPT ![d] =
                            [step |-> IF record[n] \in v.from THEN "write" ELSE "refused",
                             n |-> n, to |-> v.to]]
    /\ UNCHANGED <<record, propose>>

(* Nothing holds the record between the check and the rename: of two       *)
(* decisions that were both allowed, the later one stays.                  *)
DecideWrites(d) ==
    /\ decide[d].step = "write"
    /\ record' = [record EXCEPT ![decide[d].n] = decide[d].to]
    /\ decide' = [decide EXCEPT ![d].step = "decided"]
    /\ UNCHANGED propose

Next ==
    \/ \E p \in Proposers : ProposeNumbers(p) \/ ProposeLinks(p)
    \/ \E d \in Deciders : DecideLoads(d) \/ DecideWrites(d)

Spec == Init /\ [][Next]_vars

------------------------------------------------------------------------------
(* Properties                                                              *)

TypeOK ==
    /\ record \in [Indices -> {"absent", "proposed", "accepted", "rejected", "rolled_back"}]
    /\ \A p \in Proposers : propose[p].step \in {"new", "link", "proposed"}
    /\ \A d \in Deciders : decide[d].step \in {"new", "write", "decided", "refused"}

(* Every proposal that was answered has a revision of its own, and a       *)
(* revision somebody decided about is never open again, although all       *)
(* number, check and write their files without a lock.                     *)
ProposalsStand ==
    /\ \A p, o \in Proposers :
           propose[p].step = "proposed" /\ propose[o].step = "proposed" /\ p # o =>
               propose[p].n # propose[o].n
    /\ \A p \in Proposers :
           propose[p].step = "proposed" => record[propose[p].n] # "absent"
    /\ \A d \in Deciders :
           decide[d].step = "decided" => record[decide[d].n] # "proposed"
=============================================================================
