---------------------------- MODULE ServicesProofs ----------------------------
(***************************************************************************)
(* Theorems about the Services, each for any number of calls, sessions,    *)
(* packages, faults and whatever its component is given.  None of the      *)
(* properties is inductive by itself: each speaks of an answer, and its    *)
(* invariant adds what a call knows at every step before it answers, and   *)
(* what keeps two calls of one kind apart while they know it.              *)
(* Each section ends with what the types of its component add to that; the *)
(* theorem of all the types is in WorkspaceProofs.                         *)
(***************************************************************************)
EXTENDS Services, FiniteSetTheorems, SequenceTheorems, TLAPS

------------------------------------------------------------------------------
(* Terminal sessions *)

StartSteps == {"new", "spawn", "refused", "announce", "register", "abandoned", "started"}
ShellTyped ==
    /\ sessions \in [SessionIds -> SessionStarts \cup {None}]
    /\ status \in [SessionIds -> {"Running", "Stopping", "Exited", None}]
    /\ shell \in [SessionStarts -> {"none", "running", "exited", "reaped"}]
    /\ start \in [SessionStarts -> [step : StartSteps, id : SessionIds \cup {None}]]

(* What a start has done says what has become of its shell; a registered    *)
(* session is the one of the start that registered it.                      *)
StartKnown(s) ==
    /\ start[s].step # "new" => start[s].id \in SessionIds
    /\ start[s].step \in {"new", "spawn"} => shell[s] = "none"
    /\ start[s].step \in {"announce", "register", "abandoned"} => shell[s] \in {"running", "exited"}
    /\ start[s].step = "refused" => shell[s] \in {"none", "reaped"}
    /\ start[s].step = "started" => shell[s] = "reaped" \/ sessions[start[s].id] = s
SessionKnown(id) ==
    /\ sessions[id] = None <=> status[id] = None
    /\ sessions[id] # None => /\ start[sessions[id]].step = "started"
                              /\ start[sessions[id]].id = id
                              /\ shell[sessions[id]] # "none"
    /\ status[id] = "Running" => shell[sessions[id]] # "reaped"
ShellInv ==
    /\ ShellTyped
    /\ \A s \in SessionStarts : StartKnown(s)
    /\ \A id \in SessionIds : SessionKnown(id)

LEMMA ShellBegins == T!Init => ShellInv
BY SessionsAssumption DEF T!Init, ShellInv, ShellTyped, StartKnown, SessionKnown, StartSteps

(* A start moves on: its shell, and nothing else, follows.                  *)
LEMMA StartMoves ==
    ASSUME ShellInv, NEW s \in SessionStarts, NEW now \in [step : StartSteps, id : SessionIds \cup {None}],
           NEW became \in {"none", "running", "exited", "reaped"},
           start[s].step \notin {"started"}, now.step # "started",
           start' = [start EXCEPT ![s] = now], shell' = [shell EXCEPT ![s] = became],
           UNCHANGED <<sessions, status>>,
           /\ now.step # "new" => now.id \in SessionIds
           /\ now.step \in {"new", "spawn"} => became = "none"
           /\ now.step \in {"announce", "register", "abandoned"} => became \in {"running", "exited"}
           /\ now.step = "refused" => became \in {"none", "reaped"}
    PROVE  ShellInv'
<1> USE SessionsAssumption
<1>1. ShellTyped
  BY DEF ShellInv
<1>2. ShellTyped'
  BY <1>1 DEF ShellTyped
<1>3. /\ start'[s] = now /\ shell'[s] = became
      /\ \A t \in SessionStarts \ {s} : start'[t] = start[t] /\ shell'[t] = shell[t]
  BY <1>1 DEF ShellTyped
<1>4. \A t \in SessionStarts : StartKnown(t)'
  BY <1>3 DEF ShellInv, StartKnown
<1>5. \A i \in SessionIds : SessionKnown(i)'
  BY <1>1, <1>3 DEF ShellInv, SessionKnown, ShellTyped
<1> QED
  BY <1>2, <1>4, <1>5 DEF ShellInv

(* A session of a start that is not registered is another start's.          *)
LEMMA StartKeepsShells ==
    ASSUME ShellInv, NEW s \in SessionStarts, T!Start(s)
    PROVE  ShellInv'
<1> USE SessionsAssumption
<1>1. /\ ShellTyped /\ StartKnown(s)
      /\ start[s] = [step |-> start[s].step, id |-> start[s].id]
      /\ shell = [shell EXCEPT ![s] = shell[s]]
      /\ shell[s] \in {"none", "running", "exited", "reaped"}
      /\ start[s].id \in SessionIds \cup {None}
  BY DEF ShellInv, ShellTyped
<1>2. ASSUME NEW id \in SessionIds, T!StartLooksUp(s, id)
      PROVE  ShellInv'
  <2>1. PICK step \in {"spawn", "refused"} :
          start' = [start EXCEPT ![s] = [step |-> step, id |-> id]]
    BY <1>2 DEF T!StartLooksUp
  <2>2. start[s].step = "new" /\ UNCHANGED <<sessions, status, shell>>
    BY <1>2 DEF T!StartLooksUp
  <2>3. [step |-> step, id |-> id] \in [step : StartSteps, id : SessionIds \cup {None}]
    BY DEF StartSteps
  <2> QED
    BY <1>1, <2>1, <2>2, <2>3, StartMoves DEF StartKnown
<1>3. ASSUME NEW step \in StartSteps, NEW became, T!Go(s, step),
             shell' = [shell EXCEPT ![s] = became], UNCHANGED <<sessions, status>>,
             start[s].step \notin {"new", "started"}, step \notin {"new", "spawn", "started"},
             IF step = "refused" THEN became \in {"none", "reaped"}
             ELSE became \in {"running", "exited"}
      PROVE  ShellInv'
  <2> DEFINE now == [step |-> step, id |-> start[s].id]
  <2>1. start' = [start EXCEPT ![s] = now]
    <3>1. [start[s] EXCEPT !.step = step] = now
      BY <1>1 DEF ShellTyped
    <3>2. start' = [start EXCEPT ![s] = [start[s] EXCEPT !.step = step]]
      BY <1>3 DEF T!Go
    <3> QED
      BY <3>1, <3>2
  <2>2. now \in [step : StartSteps, id : SessionIds \cup {None}] /\ now.id \in SessionIds
    BY <1>1, <1>3 DEF StartKnown
  <2>3. became \in {"none", "running", "exited", "reaped"}
    BY <1>3
  <2> QED
    BY <1>3, <2>1, <2>2, <2>3, StartMoves
<1>4. CASE T!StartSpawns(s)
  <2>1. \/ T!Go(s, "announce") /\ shell' = [shell EXCEPT ![s] = "running"]
        \/ T!Go(s, "refused") /\ shell' = [shell EXCEPT ![s] = "none"]
    BY <1>1, <1>4 DEF T!StartSpawns, StartKnown
  <2> QED
    BY <1>3, <1>4, <2>1 DEF T!StartSpawns, StartSteps
<1>5. CASE T!StartAnnounces(s)
  <2>1. \E step \in {"register", "abandoned"} : T!Go(s, step)
    BY <1>5 DEF T!StartAnnounces
  <2>2. shell' = [shell EXCEPT ![s] = shell[s]] /\ shell[s] \in {"running", "exited"}
    BY <1>1, <1>5 DEF T!StartAnnounces, StartKnown
  <2> QED
    BY <1>3, <1>5, <2>1, <2>2 DEF T!StartAnnounces, StartSteps
<1>6. CASE T!StartRegisters(s)
  <2> DEFINE id == start[s].id
  <2>1. id \in SessionIds /\ start[s].step = "register" /\ shell[s] \in {"running", "exited"}
    BY <1>1, <1>6 DEF T!StartRegisters, StartKnown
  <2>2. CASE sessions[id] # None
    <3>1. T!Go(s, "refused") /\ shell' = [shell EXCEPT ![s] = "reaped"]
      BY <1>6, <2>2 DEF T!StartRegisters
    <3> QED
      BY <1>3, <1>6, <2>1, <2>2, <3>1 DEF T!StartRegisters, StartSteps
  <2>3. CASE sessions[id] = None
    <3>1. /\ sessions' = [sessions EXCEPT ![id] = s]
          /\ status' = [status EXCEPT ![id] = "Running"]
          /\ start' = [start EXCEPT ![s].step = "started"]
          /\ shell' = shell
      BY <1>6, <2>3 DEF T!StartRegisters, T!Register, T!Go
    <3>2. ShellTyped'
      BY <1>1, <2>1, <3>1 DEF ShellTyped, StartSteps
    <3>3. /\ start'[s].step = "started" /\ start'[s].id = id
          /\ \A t \in SessionStarts \ {s} : start'[t] = start[t]
          /\ sessions'[id] = s /\ status'[id] = "Running"
          /\ \A i \in SessionIds \ {id} : sessions'[i] = sessions[i] /\ status'[i] = status[i]
      BY <1>1, <2>1, <3>1 DEF ShellTyped
    <3>4. \A t \in SessionStarts : StartKnown(t)'
      BY <2>1, <2>3, <3>1, <3>3 DEF ShellInv, StartKnown
    <3>5. \A i \in SessionIds : SessionKnown(i)'
      BY <1>1, <2>1, <2>3, <3>1, <3>3 DEF ShellInv, SessionKnown, ShellTyped
    <3> QED
      BY <3>2, <3>4, <3>5 DEF ShellInv
  <2> QED
    BY <2>2, <2>3
<1> QED
  BY <1>2, <1>4, <1>5, <1>6 DEF T!Start

(* What ends a shell or a session does so under the registry's lock.        *)
LEMMA SessionKeepsShells ==
    ASSUME ShellInv, NEW id \in SessionIds,
           T!ReadReaps(id) \/ T!WriteInput(id) \/ T!Stop(id)
    PROVE  ShellInv'
<1> USE SessionsAssumption
<1>1. ShellTyped /\ SessionKnown(id)
  BY DEF ShellInv
<1> DEFINE s == sessions[id]
<1>2. s \in SessionStarts /\ shell[s] # "none" /\ start' = start
  BY <1>1 DEF T!ReadReaps, T!WriteInput, T!Stop, SessionKnown, ShellTyped
<1>3. \A i \in SessionIds : sessions[i] = s => i = id
  BY <1>1, <1>2 DEF ShellInv, SessionKnown, ShellTyped
<1>4. ASSUME NEW became \in {"running", "exited", "reaped"},
             shell' = [shell EXCEPT ![s] = became],
             NEW st \in {"Running", "Stopping", "Exited"},
             status' = [status EXCEPT ![id] = st], sessions' = sessions,
             st = "Running" => became # "reaped"
      PROVE  ShellInv'
  <2>1. ShellTyped'
    BY <1>1, <1>2, <1>4 DEF ShellTyped
  <2>2. /\ shell'[s] = became /\ \A t \in SessionStarts \ {s} : shell'[t] = shell[t]
        /\ status'[id] = st /\ \A i \in SessionIds \ {id} : status'[i] = status[i]
    BY <1>1, <1>2, <1>4 DEF ShellTyped
  <2>3. \A t \in SessionStarts : StartKnown(t)'
    BY <1>1, <1>2, <1>4, <2>2 DEF ShellInv, StartKnown, SessionKnown
  <2>4. \A i \in SessionIds : SessionKnown(i)'
    BY <1>1, <1>2, <1>3, <1>4, <2>2 DEF ShellInv, SessionKnown, ShellTyped
  <2> QED
    BY <2>1, <2>3, <2>4 DEF ShellInv
<1>5. ASSUME shell' = [shell EXCEPT ![s] = "reaped"], T!Forget(id)
      PROVE  ShellInv'
  <2>1. /\ sessions' = [sessions EXCEPT ![id] = None]
        /\ status' = [status EXCEPT ![id] = None]
    BY <1>5 DEF T!Forget
  <2>2. ShellTyped'
    BY <1>1, <1>2, <1>5, <2>1 DEF ShellTyped
  <2>3. /\ shell'[s] = "reaped" /\ \A t \in SessionStarts \ {s} : shell'[t] = shell[t]
        /\ status'[id] = None /\ sessions'[id] = None
        /\ \A i \in SessionIds \ {id} : status'[i] = status[i] /\ sessions'[i] = sessions[i]
    BY <1>1, <1>2, <1>5, <2>1 DEF ShellTyped
  <2>4. \A t \in SessionStarts : StartKnown(t)'
    BY <1>1, <1>2, <2>3 DEF ShellInv, StartKnown, SessionKnown
  <2>5. \A i \in SessionIds : SessionKnown(i)'
    BY <1>1, <1>2, <1>3, <2>3 DEF ShellInv, SessionKnown, ShellTyped
  <2> QED
    BY <2>2, <2>4, <2>5 DEF ShellInv
<1>6. /\ shell = [shell EXCEPT ![s] = shell[s]] /\ shell[s] \in {"running", "exited", "reaped"}
      /\ status = [status EXCEPT ![id] = status[id]]
      /\ status[id] \in {"Running", "Stopping", "Exited"}
  BY <1>1, <1>2 DEF ShellTyped, SessionKnown
<1>7. CASE T!ReadReaps(id)
  BY <1>4, <1>5, <1>7 DEF T!ReadReaps
<1>8. CASE T!WriteInput(id)
  BY <1>4, <1>6, <1>8 DEF T!WriteInput
<1>9. CASE T!Stop(id)
  BY <1>4, <1>5, <1>6, <1>9 DEF T!Stop
<1> QED
  BY <1>7, <1>8, <1>9

LEMMA ShellInductive == ShellInv /\ [T!Next]_tVars => ShellInv'
<1> SUFFICES ASSUME ShellInv, [T!Next]_tVars PROVE ShellInv'
  OBVIOUS
<1>1. ASSUME NEW s \in SessionStarts, T!ShellExits(s)
      PROVE  ShellInv'
  <2>1. ShellTyped'
    BY <1>1 DEF T!ShellExits, ShellInv, ShellTyped
  <2>2. /\ shell[s] = "running" /\ shell'[s] = "exited" /\ UNCHANGED <<sessions, status, start>>
        /\ \A t \in SessionStarts \ {s} : shell'[t] = shell[t]
    BY <1>1 DEF T!ShellExits, ShellInv, ShellTyped
  <2>3. \A t \in SessionStarts : StartKnown(t)'
    BY <2>2 DEF ShellInv, StartKnown
  <2>4. \A i \in SessionIds : SessionKnown(i)'
    BY <2>2, SessionsAssumption DEF ShellInv, SessionKnown, ShellTyped
  <2> QED
    BY <2>1, <2>3, <2>4 DEF ShellInv
<1>2. CASE UNCHANGED tVars
  BY <1>2 DEF tVars, ShellInv, ShellTyped, StartKnown, SessionKnown
<1> QED
  BY <1>1, <1>2, StartKeepsShells, SessionKeepsShells DEF T!Next

(* No shell is lost, for any number of ids, starts and failing writes: one  *)
(* that has not been waited for belongs to its session, unless its start is *)
(* under way or gave up on an artifact.                                     *)
THEOREM NoShellLostHolds == ServicesSpec => []NoShellLost
<1>1. ServicesInit => ShellInv
  BY ShellBegins DEF ServicesInit
<1>2. ShellInv /\ [ServicesNext]_allVars => ShellInv'
  <2>1. [ServicesNext]_allVars => [T!Next]_tVars
    BY DEF ServicesNext, InPush, InWorkspace, InIntegration, InAgent, InLive, InTerminal,
           InImport, InRevision, allVars, tVars
  <2> QED
    BY <2>1, ShellInductive
<1>3. ShellInv => NoShellLost
  <2>1. ASSUME ShellInv, NEW s \in SessionStarts, shell[s] \in {"running", "exited"}
        PROVE  \/ start[s].step \in {"announce", "register", "abandoned"}
               \/ sessions[start[s].id] = s
    BY <2>1 DEF ShellInv, StartKnown, ShellTyped, StartSteps
  <2> QED
    BY <2>1 DEF ShellInv, SessionKnown, NoShellLost, T!NoShellLost
<1> QED
  BY <1>1, <1>2, <1>3, PTL DEF ServicesSpec

(* The types of the sessions; a shell that was started exists.              *)
LEMMA ShellIsTyped == ShellInv => T!TypeOK
<1> SUFFICES ASSUME ShellInv PROVE T!TypeOK
  OBVIOUS
<1>1. ASSUME NEW s \in SessionStarts, start[s].step = "started" PROVE shell[s] # "none"
  <2>1. start[s].id \in SessionIds /\ (shell[s] = "reaped" \/ sessions[start[s].id] = s)
    BY <1>1 DEF ShellInv, StartKnown
  <2>2. sessions[start[s].id] = s => shell[s] # "none"
    BY <2>1, SessionsAssumption DEF ShellInv, SessionKnown
  <2> QED
    BY <2>1, <2>2
<1>2. \A id \in SessionIds : (sessions[id] = None) = (status[id] = None)
  BY DEF ShellInv, SessionKnown
<1> QED
  BY <1>1, <1>2 DEF ShellInv, ShellTyped, T!TypeOK

------------------------------------------------------------------------------
(* Design revisions *)

(* The proposals that were answered took the numbers from 1 on, so a number *)
(* that was sought is at most the next one.                                 *)
Answered == {p \in Proposers : propose[p].step = "proposed"}
Taken == {n \in R!Indices : record[n] # "absent"}
RevisionStates == {"absent", "proposed", "accepted", "rejected", "rolled_back"}

RevisionTyped ==
    /\ record \in [R!Indices -> RevisionStates]
    /\ propose \in [Proposers -> [step : {"new", "link", "proposed"}, n : Nat]]
    /\ decide \in [Deciders -> [step : {"new", "write", "decided", "refused"}, n : Nat,
                                to : RevisionStates]]
ProposalKnown(p) ==
    /\ propose[p].step = "link" => propose[p].n \in 1..(Cardinality(Answered) + 1)
    /\ propose[p].step = "proposed" => propose[p].n \in Taken
DecisionKnown(d) ==
    /\ decide[d].step \in {"write", "decided"} =>
          /\ decide[d].n \in Taken
          /\ decide[d].to \in {"accepted", "rejected", "rolled_back"}
    /\ decide[d].step = "decided" => record[decide[d].n] # "proposed"
RevisionInv ==
    /\ RevisionTyped
    /\ Taken = 1..Cardinality(Answered)
    /\ \A p \in Proposers : ProposalKnown(p)
    /\ \A p, o \in Answered : p # o => propose[p].n # propose[o].n
    /\ \A d \in Deciders : DecisionKnown(d)

LEMMA IndicesAreProposals == R!Indices = 1..Cardinality(Proposers)
BY Zenon DEF R!Indices, R!Cardinality, Cardinality

LEMMA AnsweredCount ==
    /\ IsFiniteSet(Answered) /\ Cardinality(Answered) \in Nat
    /\ Answered # Proposers => Cardinality(Answered) + 1 \in R!Indices
<1>1. IsFiniteSet(Proposers) /\ Answered \in SUBSET Proposers
  BY DesignAssumption DEF Answered
<1>2. /\ IsFiniteSet(Answered)
      /\ Cardinality(Answered) \in Nat /\ Cardinality(Proposers) \in Nat
      /\ Answered # Proposers => Cardinality(Answered) < Cardinality(Proposers)
  BY <1>1, FS_Subset, FS_CardinalityType
<1> QED
  BY <1>2, IndicesAreProposals

LEMMA HighestTaken ==
    ASSUME RevisionInv
    PROVE  R!Highest = Cardinality(Answered)
<1> DEFINE k == Cardinality(Answered)
<1>1. Taken \cup {0} = 0..k /\ k \in Nat
  BY AnsweredCount DEF RevisionInv
<1>2. R!Highest = R!Max(0..k)
  BY <1>1, Zenon DEF R!Highest, Taken
<1> HIDE DEF k
<1>3. R!Max(0..k) = k
  BY <1>1 DEF R!Max
<1> QED
  BY <1>2, <1>3 DEF k

LEMMA RevisionsBegin == R!Init => RevisionInv
<1> SUFFICES ASSUME R!Init PROVE RevisionInv
  OBVIOUS
<1>1. Answered = {} /\ Taken = {}
  BY DEF R!Init, Answered, Taken
<1>2. Cardinality(Answered) = 0
  BY <1>1, FS_EmptySet
<1>3. RevisionTyped
  BY DEF R!Init, RevisionTyped, RevisionStates
<1> QED
  BY <1>1, <1>2, <1>3 DEF R!Init, RevisionInv, ProposalKnown, DecisionKnown

(* A proposal takes the next number, and no other has it.                   *)
LEMMA ProposingKeeps ==
    ASSUME RevisionInv, NEW p \in Proposers, R!ProposeNumbers(p) \/ R!ProposeLinks(p)
    PROVE  RevisionInv'
<1> DEFINE k == Cardinality(Answered)
<1>1. /\ RevisionTyped /\ decide' = decide /\ k \in Nat /\ Taken = 1..k
  BY AnsweredCount DEF RevisionInv, R!ProposeNumbers, R!ProposeLinks
<1>2. ASSUME NEW now \in [step : {"new", "link"}, n : Nat],
             propose' = [propose EXCEPT ![p] = now], record' = record,
             propose[p].step # "proposed",
             now.step = "link" => now.n \in 1..(k + 1)
      PROVE  RevisionInv'
  <2>1. RevisionTyped'
    BY <1>1, <1>2 DEF RevisionTyped
  <2>2. propose'[p] = now /\ \A o \in Proposers \ {p} : propose'[o] = propose[o]
    BY <1>1, <1>2 DEF RevisionTyped
  <2>3. Answered' = Answered /\ Taken' = Taken
    BY <1>2, <2>2 DEF Answered, Taken
  <2>4. \A o \in Proposers : ProposalKnown(o)'
    BY <1>2, <2>2, <2>3 DEF RevisionInv, ProposalKnown
  <2>5. \A o, q \in Answered : o # q => propose'[o].n # propose'[q].n
    BY <1>2, <2>2 DEF RevisionInv, Answered
  <2>6. \A d \in Deciders : DecisionKnown(d)'
    BY <1>1, <1>2, <2>3 DEF RevisionInv, DecisionKnown
  <2> QED
    BY <1>1, <2>1, <2>3, <2>4, <2>5, <2>6 DEF RevisionInv
<1>3. CASE R!ProposeNumbers(p)
  <2> DEFINE now == [step |-> "link", n |-> k + 1]
  <2>1. now \in [step : {"new", "link"}, n : Nat] /\ now.n \in 1..(k + 1)
    BY <1>1
  <2>2. /\ propose' = [propose EXCEPT ![p] = now]
        /\ propose[p].step # "proposed" /\ record' = record
    BY <1>3, HighestTaken DEF R!ProposeNumbers
  <2> HIDE DEF now
  <2> QED
    BY <1>2, <2>1, <2>2
<1>4. CASE R!ProposeLinks(p) /\ record[propose[p].n] # "absent"
  <2> DEFINE now == [step |-> "new", n |-> propose[p].n]
  <2>1. propose' = [propose EXCEPT ![p].step = "new"] /\ record' = record
        /\ propose[p].step = "link"
    BY <1>4 DEF R!ProposeLinks
  <2>2. now \in [step : {"new", "link"}, n : Nat] /\ [propose[p] EXCEPT !.step = "new"] = now
    BY <1>1 DEF RevisionTyped
  <2>3. propose' = [propose EXCEPT ![p] = now]
    BY <2>1, <2>2
  <2> QED
    BY <1>2, <2>1, <2>2, <2>3
<1>5. CASE R!ProposeLinks(p) /\ record[propose[p].n] = "absent"
  <2> DEFINE n == propose[p].n
             now == [step |-> "proposed", n |-> n]
  <2>1. /\ propose[p].step = "link" /\ n \in 1..(k + 1)
        /\ record' = [record EXCEPT ![n] = "proposed"]
    BY <1>5 DEF R!ProposeLinks, RevisionInv, ProposalKnown
  <2>2. propose' = [propose EXCEPT ![p] = now]
    <3>1. propose' = [propose EXCEPT ![p].step = "proposed"]
      BY <1>5 DEF R!ProposeLinks
    <3>2. [propose[p] EXCEPT !.step = "proposed"] = now
      BY <1>1 DEF RevisionTyped
    <3> QED
      BY <3>1, <3>2
  <2>3. p \notin Answered /\ n = k + 1 /\ n \in R!Indices /\ n \notin Taken
    <3>1. p \notin Answered
      BY <2>1 DEF Answered
    <3>2. k + 1 \in R!Indices
      BY <3>1, AnsweredCount
    <3>3. n \notin Taken
      BY <1>5 DEF Taken
    <3> QED
      BY <1>1, <2>1, <3>1, <3>2, <3>3
  <2> HIDE DEF now
  <2>4. now.step = "proposed" /\ now.n = n /\ now \in [step : {"proposed"}, n : Nat]
    BY <1>1 DEF now, RevisionTyped
  <2>5. RevisionTyped'
    BY <1>1, <2>1, <2>2, <2>3, <2>4 DEF RevisionTyped, RevisionStates
  <2>6. /\ propose'[p] = now /\ \A o \in Proposers \ {p} : propose'[o] = propose[o]
        /\ record'[n] = "proposed" /\ \A m \in R!Indices \ {n} : record'[m] = record[m]
    BY <1>1, <2>1, <2>2, <2>3 DEF RevisionTyped
  <2>7. Answered' = Answered \cup {p} /\ Taken' = Taken \cup {n}
    BY <2>3, <2>4, <2>6 DEF Answered, Taken
  <2>8. Cardinality(Answered)' = k + 1
    BY <2>3, <2>7, AnsweredCount, FS_AddElement
  <2>9. Taken' = 1..(k + 1)
    BY <1>1, <2>3, <2>7
  <2>10. \A o \in Proposers : ProposalKnown(o)'
    <3>1. \A o \in Proposers : ProposalKnown(o)
      BY DEF RevisionInv
    <3> QED
      BY <1>1, <2>3, <2>4, <2>6, <2>7, <2>8, <3>1 DEF ProposalKnown
  <2>11. \A o, q \in Answered' : o # q => propose'[o].n # propose'[q].n
    <3>1. \A o \in Answered : propose[o].n # n
      BY <2>3 DEF RevisionInv, ProposalKnown, Answered
    <3>2. \A o \in Answered : o # p /\ o \in Proposers
      BY <2>3 DEF Answered
    <3> QED
      BY <2>4, <2>6, <2>7, <3>1, <3>2 DEF RevisionInv
  <2>12. \A d \in Deciders : DecisionKnown(d)'
    BY <1>1, <2>3, <2>6, <2>7 DEF RevisionInv, DecisionKnown, Taken
  <2> QED
    BY <2>5, <2>8, <2>9, <2>10, <2>11, <2>12 DEF RevisionInv
<1> QED
  BY <1>3, <1>4, <1>5

(* A decision opens nothing again.                                          *)
LEMMA DecidingKeeps ==
    ASSUME RevisionInv, NEW d \in Deciders, R!DecideLoads(d) \/ R!DecideWrites(d)
    PROVE  RevisionInv'
<1>1. RevisionTyped /\ propose' = propose /\ Answered' = Answered
  BY DEF RevisionInv, R!DecideLoads, R!DecideWrites, Answered
<1>2. Taken \subseteq Nat /\ R!Indices \subseteq Nat
  BY IndicesAreProposals DEF Taken
<1>3. CASE R!DecideLoads(d)
  <2>1. PICK n \in R!Indices, v \in R!Decisions :
            /\ record[n] # "absent"
            /\ decide' = [decide EXCEPT ![d] =
                             [step |-> IF record[n] \in v.from THEN "write" ELSE "refused",
                              n |-> n, to |-> v.to]]
    BY <1>3 DEF R!DecideLoads
  <2> DEFINE now == [step |-> IF record[n] \in v.from THEN "write" ELSE "refused",
                     n |-> n, to |-> v.to]
  <2>2. record' = record /\ Taken' = Taken
    BY <1>3 DEF R!DecideLoads, Taken
  <2>3. v.to \in {"accepted", "rejected", "rolled_back"}
    BY DEF R!Decisions
  <2>4. now \in [step : {"write", "refused"}, n : Taken, to : {"accepted", "rejected", "rolled_back"}]
    BY <2>1, <2>3 DEF Taken
  <2> HIDE DEF now
  <2>5. decide' = [decide EXCEPT ![d] = now]
    BY <2>1 DEF now
  <2>6. now \in [step : {"new", "write", "decided", "refused"}, n : Nat, to : RevisionStates]
    BY <1>2, <2>4 DEF RevisionStates
  <2>7. RevisionTyped'
    BY <1>1, <2>2, <2>5, <2>6 DEF RevisionTyped
  <2>8. decide'[d] = now /\ \A e \in Deciders \ {d} : decide'[e] = decide[e]
    BY <1>1, <2>5 DEF RevisionTyped
  <2>9. \A e \in Deciders : DecisionKnown(e)'
    BY <2>2, <2>4, <2>8 DEF RevisionInv, DecisionKnown
  <2> QED
    BY <1>1, <2>2, <2>7, <2>9 DEF RevisionInv, ProposalKnown
<1>4. CASE R!DecideWrites(d)
  <2> DEFINE n == decide[d].n
             to == decide[d].to
  <2>1. /\ n \in Taken /\ to \in {"accepted", "rejected", "rolled_back"}
        /\ record' = [record EXCEPT ![n] = to]
    BY <1>4 DEF R!DecideWrites, RevisionInv, DecisionKnown
  <2>2. decide' = [decide EXCEPT ![d].step = "decided"]
    BY <1>4 DEF R!DecideWrites
  <2>3. RevisionTyped'
    BY <1>1, <2>1, <2>2 DEF RevisionTyped, RevisionStates, Taken
  <2>4. /\ decide'[d].step = "decided" /\ decide'[d].n = n /\ decide'[d].to = to
        /\ \A e \in Deciders \ {d} : decide'[e] = decide[e]
        /\ record'[n] = to /\ \A m \in R!Indices \ {n} : record'[m] = record[m]
    BY <1>1, <2>1, <2>2 DEF RevisionTyped, Taken
  <2>5. Taken' = Taken
    BY <2>1, <2>4 DEF Taken
  <2>6. \A e \in Deciders : DecisionKnown(e)'
    BY <2>1, <2>4, <2>5 DEF RevisionInv, DecisionKnown, Taken
  <2> QED
    BY <1>1, <2>3, <2>5, <2>6 DEF RevisionInv, ProposalKnown
<1> QED
  BY <1>3, <1>4

LEMMA RevisionInductive == RevisionInv /\ [R!Next]_rVars => RevisionInv'
<1> SUFFICES ASSUME RevisionInv, [R!Next]_rVars PROVE RevisionInv'
  OBVIOUS
<1>1. CASE UNCHANGED rVars
  <2>1. UNCHANGED <<record, propose, decide>> /\ Answered' = Answered /\ Taken' = Taken
    BY <1>1 DEF rVars, Answered, Taken
  <2> QED
    BY <2>1 DEF RevisionInv, RevisionTyped, ProposalKnown, DecisionKnown
<1> QED
  BY <1>1, ProposingKeeps, DecidingKeeps DEF R!Next

(* The types of the revisions.                                              *)
LEMMA RevisionIsTyped == RevisionInv => R!TypeOK
BY DEF RevisionInv, RevisionTyped, RevisionStates, R!TypeOK

------------------------------------------------------------------------------
(* Design imports *)

Approving == {"validate", "look", "copy", "resolve", "undo"}
PromotingSteps == {"copy", "resolve", "undo"}
Approval == [step : Approving \cup {"new", "promoted", "refused", "dead"},
             of : Imports \cup {Missing}, copied : 0..3]

(* A file of the registry has what quarantine q has, or edited tokens.      *)
Holds(files, f, q) == files[f] \in {q} \cup (IF f = "tokens.json" THEN Savers ELSE {})

ImportTyped ==
    /\ package \in [D!FileNames -> Imports \cup Savers \cup {Missing}]
    /\ locked \in SUBSET Imports /\ contested \in SUBSET Imports
    /\ approve \in [Approvers -> Approval]

(* Of the quarantines that are not contested: the lock of one is held by    *)
(* the only approval of it, and one that promotes is alone, has all it      *)
(* copied in the registry, and began when nothing was promoted.             *)
ClaimKnown(a) ==
    approve[a].step \in Approving =>
        /\ approve[a].of \in Imports
        /\ approve[a].of \notin contested => approve[a].of \in locked
        /\ approve[a].step \in {"validate", "look"} => approve[a].copied = 0
SoleApproval(a, b) ==
    /\ approve[a].step \in Approving /\ approve[b].step \in Approving
    /\ approve[a].of = approve[b].of
    => approve[a].of \in contested
RivalsContested(a, b) ==
    /\ approve[a].step \in PromotingSteps /\ approve[b].step \in PromotingSteps
    /\ approve[a].of # approve[b].of
    => approve[a].of \in contested
CopyKnown(a) ==
    approve[a].step \in {"copy", "resolve"} =>
        /\ approve[a].copied = 3 <=> approve[a].step = "resolve"
        /\ approve[a].of \notin contested =>
              \A i \in 1..approve[a].copied : Holds(package, D!Files[i], approve[a].of)
PromotedKnown(a) ==
    approve[a].step = "promoted" /\ approve[a].of \notin contested =>
        /\ approve[a].of \in Imports
        /\ \A f \in D!FileNames : Holds(package, f, approve[a].of)
        /\ \A b \in Approvers : approve[b].step \notin PromotingSteps

ImportInv ==
    /\ ImportTyped
    /\ \A a \in Approvers : ClaimKnown(a) /\ CopyKnown(a) /\ PromotedKnown(a)
    /\ \A a, b \in Approvers : a # b => SoleApproval(a, b) /\ RivalsContested(a, b)

LEMMA FilesNamed ==
    /\ D!Files[1] = "DESIGN.md" /\ D!Files[2] = "manifest.json" /\ D!Files[3] = "tokens.json"
    /\ D!FileNames = {D!Files[1], D!Files[2], D!Files[3]}
<1>1. 1..3 = {1, 2, 3}
  OBVIOUS
<1> QED
  BY <1>1 DEF D!Files, D!FileNames

LEMMA ImportsBegin == D!Init => ImportInv
<1> SUFFICES ASSUME D!Init PROVE ImportInv
  OBVIOUS
<1>1. [step |-> "new", of |-> Missing, copied |-> 0] \in Approval
  BY DEF Approval
<1>2. ImportTyped
  BY <1>1 DEF D!Init, ImportTyped
<1> QED
  BY <1>2 DEF D!Init, ImportInv, ClaimKnown, CopyKnown, PromotedKnown, SoleApproval,
              RivalsContested, Approving, PromotingSteps

(* Who promotes, promotes alone.                                            *)
LEMMA PromoterAlone ==
    ASSUME ImportInv, NEW a \in Approvers, approve[a].step \in PromotingSteps,
           NEW b \in Approvers, a # b,
           approve[b].step \in PromotingSteps \cup {"promoted"}
    PROVE  approve[b].of \in contested
<1>1. CASE approve[b].step \in PromotingSteps
  <2>1. SoleApproval(b, a) /\ RivalsContested(b, a)
    BY DEF ImportInv
  <2> QED
    BY <1>1, <2>1 DEF SoleApproval, RivalsContested, Approving, PromotingSteps
<1>2. CASE approve[b].step = "promoted"
  BY <1>2 DEF ImportInv, PromotedKnown
<1> QED
  BY <1>1, <1>2

(* One approval moves on.  What it must keep, and what follows.             *)
LEMMA ApproveMoves ==
    ASSUME ImportInv, NEW a \in Approvers, NEW now \in Approval,
           approve' = [approve EXCEPT ![a] = now],
           contested \subseteq contested', contested' \in SUBSET Imports,
           locked' \in SUBSET Imports,
           package' \in [D!FileNames -> Imports \cup Savers \cup {Missing}],
           package' # package => approve[a].step \in PromotingSteps,
           \A b \in Approvers \ {a} :
               /\ approve[b].step \in Approving
               /\ approve[b].of \notin contested'
               => approve[b].of \in locked',
           now.step \in Approving =>
               /\ now.of \in Imports
               /\ now.of \notin contested' => now.of \in locked'
               /\ now.step \in {"validate", "look"} => now.copied = 0
               /\ \A b \in Approvers \ {a} :
                      approve[b].step \in Approving /\ approve[b].of = now.of =>
                          now.of \in contested',
           now.step \in PromotingSteps =>
               /\ approve[a].step \in PromotingSteps \/ package["manifest.json"] = Missing
               /\ \A b \in Approvers \ {a} :
                      approve[b].step \in PromotingSteps /\ approve[b].of # now.of =>
                          now.of \in contested' /\ approve[b].of \in contested',
           now.step \in {"copy", "resolve"} =>
               /\ now.copied = 3 <=> now.step = "resolve"
               /\ now.of \notin contested' => \A i \in 1..now.copied : Holds(package', D!Files[i], now.of),
           now.step = "promoted" /\ now.of \notin contested' =>
               /\ now.of \in Imports
               /\ \A f \in D!FileNames : Holds(package', f, now.of)
               /\ \A b \in Approvers \ {a} : approve[b].step \notin PromotingSteps
    PROVE  ImportInv'
<1>1. ImportTyped /\ ImportTyped'
  BY DEF ImportInv, ImportTyped
<1>2. approve'[a] = now /\ \A b \in Approvers \ {a} : approve'[b] = approve[b]
  BY <1>1 DEF ImportTyped
<1>3. \A b \in Approvers : ClaimKnown(b)'
  BY <1>2 DEF ImportInv, ClaimKnown
<1>4. \A b, c \in Approvers : b # c => SoleApproval(b, c)' /\ RivalsContested(b, c)'
  BY <1>2 DEF ImportInv, SoleApproval, RivalsContested
<1>5. ASSUME NEW b \in Approvers, b # a, package' # package
      PROVE  CopyKnown(b)' /\ PromotedKnown(b)'
  <2>1. approve[b].step \in PromotingSteps \cup {"promoted"} => approve[b].of \in contested'
    BY <1>5, PromoterAlone
  <2> QED
    BY <1>2, <1>5, <2>1 DEF ImportInv, CopyKnown, PromotedKnown, PromotingSteps
<1>6. ASSUME NEW b \in Approvers, b # a, package' = package
      PROVE  CopyKnown(b)' /\ PromotedKnown(b)'
  <2>1. CopyKnown(b) /\ PromotedKnown(b) /\ approve'[b] = approve[b]
    BY <1>2, <1>6 DEF ImportInv
  <2>2. CopyKnown(b)'
    BY <1>6, <2>1 DEF CopyKnown, Holds
  <2>3. approve[b].step = "promoted" /\ approve[b].of \notin contested' =>
            now.step \notin PromotingSteps
    <3>1. ASSUME approve[b].step = "promoted", approve[b].of \notin contested'
          PROVE  package["manifest.json"] # Missing /\ approve[a].step \notin PromotingSteps
      <4>1. /\ approve[b].of \in Imports /\ Holds(package, "manifest.json", approve[b].of)
            /\ approve[a].step \notin PromotingSteps
        BY <2>1, <3>1, FilesNamed DEF PromotedKnown
      <4> QED
        BY <4>1, DesignAssumption DEF Holds
    <3> QED
      BY <3>1
  <2>4. PromotedKnown(b)'
    BY <1>2, <1>6, <2>1, <2>3 DEF PromotedKnown, Holds
  <2> QED
    BY <2>2, <2>4
<1>7. CopyKnown(a)' /\ PromotedKnown(a)'
  BY <1>2 DEF CopyKnown, PromotedKnown, PromotingSteps
<1> QED
  BY <1>1, <1>3, <1>4, <1>5, <1>6, <1>7 DEF ImportInv

(* An approval that ends, whatever it removed or left behind.               *)
LEMMA ApproveEnds ==
    ASSUME ImportInv, NEW a \in Approvers, approve[a].step \in Approving,
           NEW end \in {"refused", "dead"},
           approve' = [approve EXCEPT ![a].step = end],
           contested' = contested,
           locked' \in {locked, locked \ {approve[a].of}},
           package' \in [D!FileNames -> Imports \cup Savers \cup {Missing}],
           package' # package => approve[a].step \in PromotingSteps
    PROVE  ImportInv'
<1> DEFINE now == [approve[a] EXCEPT !.step = end]
<1>1. ImportTyped /\ approve[a] \in Approval
  BY DEF ImportInv, ImportTyped
<1>2. now \in Approval /\ now.step = end
  BY <1>1 DEF Approval
<1>3. approve' = [approve EXCEPT ![a] = now]
  OBVIOUS
<1>4. locked' \in SUBSET Imports /\ contested' \in SUBSET Imports
  BY <1>1 DEF ImportTyped
<1>5. ASSUME NEW b \in Approvers \ {a}, approve[b].step \in Approving,
             approve[b].of \notin contested'
      PROVE  approve[b].of \in locked'
  <2>1. ClaimKnown(b) /\ SoleApproval(a, b)
    BY DEF ImportInv
  <2> QED
    BY <1>5, <2>1 DEF ClaimKnown, SoleApproval
<1>6. now.step \notin Approving /\ now.step \notin PromotingSteps /\ now.step # "promoted"
      /\ now.step \notin {"copy", "resolve"}
  BY <1>2 DEF Approving, PromotingSteps
<1> HIDE DEF now
<1> QED
  BY <1>2, <1>3, <1>4, <1>5, <1>6, ApproveMoves

(* An approval that goes on, and touches nothing but itself.                *)
LEMMA ApproveAdvances ==
    ASSUME ImportInv, NEW a \in Approvers, approve[a].step = "validate",
           approve' = [approve EXCEPT ![a].step = "look"],
           contested' = contested, locked' = locked, package' = package
    PROVE  ImportInv'
<1> DEFINE now == [approve[a] EXCEPT !.step = "look"]
<1>1. ImportTyped /\ approve[a] \in Approval
  BY DEF ImportInv, ImportTyped
<1>2. now \in Approval /\ now.step = "look" /\ now.of = approve[a].of
      /\ now.copied = approve[a].copied
  BY <1>1 DEF Approval, Approving
<1>3. approve' = [approve EXCEPT ![a] = now]
  OBVIOUS
<1>4. ClaimKnown(a) /\ \A b \in Approvers \ {a} : ClaimKnown(b) /\ SoleApproval(a, b)
  BY DEF ImportInv
<1>5. /\ now.of \in Imports
      /\ now.of \notin contested' => now.of \in locked'
      /\ now.copied = 0
  BY <1>2, <1>4 DEF ClaimKnown, Approving
<1>6. \A b \in Approvers \ {a} :
          /\ approve[b].step \in Approving /\ approve[b].of \notin contested' =>
                 approve[b].of \in locked'
          /\ approve[b].step \in Approving /\ approve[b].of = now.of => now.of \in contested'
  BY <1>2, <1>4 DEF ClaimKnown, SoleApproval, Approving
<1>7. now.step \notin PromotingSteps /\ now.step \notin {"copy", "resolve"}
      /\ now.step # "promoted"
  BY <1>2 DEF PromotingSteps
<1>8. /\ locked' \in SUBSET Imports /\ contested' \in SUBSET Imports
      /\ package' \in [D!FileNames -> Imports \cup Savers \cup {Missing}]
  BY <1>1 DEF ImportTyped
<1> HIDE DEF now
<1> QED
  BY <1>2, <1>3, <1>5, <1>6, <1>7, <1>8, ApproveMoves

LEMMA ClaimKeeps ==
    ASSUME ImportInv, NEW a \in Approvers, NEW q \in Imports, D!Claim(a, q)
    PROVE  ImportInv'
<1>1. ImportTyped /\ approve[a] \in Approval
  BY DEF ImportInv, ImportTyped
<1>2. /\ UNCHANGED <<package, contested>>
      /\ locked' \in SUBSET Imports
      /\ package' \in [D!FileNames -> Imports \cup Savers \cup {Missing}]
      /\ contested' \in SUBSET Imports
  BY <1>1 DEF D!Claim, ImportTyped
<1>3. \A b \in Approvers : ClaimKnown(b)
  BY DEF ImportInv
<1>4. CASE q \notin locked /\ locked' = locked \cup {q} /\ D!Begin(a, q, "validate")
  <2> DEFINE now == [step |-> "validate", of |-> q, copied |-> 0]
  <2>1. now \in Approval /\ now.step = "validate" /\ now.of = q /\ now.copied = 0
    BY DEF Approval, Approving
  <2>2. approve' = [approve EXCEPT ![a] = now]
    BY <1>4 DEF D!Begin
  <2>3. \A b \in Approvers \ {a} :
            /\ approve[b].step \in Approving /\ approve[b].of \notin contested' =>
                   approve[b].of \in locked'
            /\ approve[b].step \in Approving /\ approve[b].of = now.of => now.of \in contested'
    BY <1>2, <1>3, <1>4, <2>1 DEF ClaimKnown
  <2>4. now.step \notin PromotingSteps /\ now.step \notin {"copy", "resolve"}
        /\ now.step # "promoted" /\ now.of \in locked'
    BY <1>4, <2>1 DEF PromotingSteps
  <2> HIDE DEF now
  <2> QED
    BY <1>2, <2>1, <2>2, <2>3, <2>4, ApproveMoves
<1>5. CASE q \in locked /\ D!Begin(a, q, "refused") /\ UNCHANGED locked
  <2> DEFINE now == [step |-> "refused", of |-> q, copied |-> 0]
  <2>1. now \in Approval /\ now.step = "refused"
    BY DEF Approval
  <2>2. approve' = [approve EXCEPT ![a] = now]
    BY <1>5 DEF D!Begin
  <2>3. \A b \in Approvers \ {a} :
            approve[b].step \in Approving /\ approve[b].of \notin contested' =>
                approve[b].of \in locked'
    BY <1>2, <1>3, <1>5 DEF ClaimKnown
  <2>4. now.step \notin PromotingSteps /\ now.step \notin {"copy", "resolve"}
        /\ now.step # "promoted" /\ now.step \notin Approving
    BY <2>1 DEF PromotingSteps, Approving
  <2> HIDE DEF now
  <2> QED
    BY <1>2, <2>1, <2>2, <2>3, <2>4, ApproveMoves
<1> QED
  BY <1>4, <1>5 DEF D!Claim

LEMMA ValidateKeeps ==
    ASSUME ImportInv, NEW a \in Approvers, D!Validate(a)
    PROVE  ImportInv'
<1>1. approve[a].step = "validate" /\ UNCHANGED <<package, contested>>
  BY DEF D!Validate, D!In
<1>2. approve[a].step \in Approving /\ package' \in [D!FileNames -> Imports \cup Savers \cup {Missing}]
  BY <1>1 DEF Approving, ImportInv, ImportTyped
<1>3. CASE D!Go(a, "look") /\ UNCHANGED locked
  BY <1>1, <1>3, ApproveAdvances DEF D!Go
<1>4. CASE D!Return(a, "refused")
  <2>1. approve' = [approve EXCEPT ![a].step = "refused"] /\ locked' = locked \ {approve[a].of}
    BY <1>4 DEF D!Return, D!Go
  <2> QED
    BY <1>1, <1>2, <2>1, ApproveEnds
<1> QED
  BY <1>3, <1>4 DEF D!Validate

LEMMA LookKeeps ==
    ASSUME ImportInv, NEW a \in Approvers, D!LookAtTarget(a)
    PROVE  ImportInv'
<1>1. approve[a].step = "look" /\ package' = package
  BY DEF D!LookAtTarget, D!In
<1>2. ImportTyped /\ approve[a] \in Approval /\ approve[a].step \in Approving
      /\ package' \in [D!FileNames -> Imports \cup Savers \cup {Missing}]
  BY <1>1 DEF Approving, ImportInv, ImportTyped
<1>3. CASE D!Return(a, "refused") /\ UNCHANGED contested
  <2>1. approve' = [approve EXCEPT ![a].step = "refused"] /\ locked' = locked \ {approve[a].of}
    BY <1>3 DEF D!Return, D!Go
  <2> QED
    BY <1>1, <1>2, <1>3, <2>1, ApproveEnds
<1>4. CASE /\ package["manifest.json"] = Missing
           /\ D!Go(a, "copy")
           /\ LET rivals == {approve[b].of : b \in D!Promoting} \ {approve[a].of}
              IN  contested' = contested \cup rivals
                                 \cup (IF rivals = {} THEN {} ELSE {approve[a].of})
           /\ UNCHANGED locked
  <2> DEFINE now == [approve[a] EXCEPT !.step = "copy"]
             rivals == {approve[b].of : b \in D!Promoting} \ {approve[a].of}
  <2>1. now \in Approval /\ now.step = "copy" /\ now.of = approve[a].of
        /\ now.copied = approve[a].copied
    BY <1>2 DEF Approval, Approving
  <2>2. approve' = [approve EXCEPT ![a] = now]
    BY <1>4 DEF D!Go
  <2>3. ClaimKnown(a) /\ \A b \in Approvers \ {a} : ClaimKnown(b) /\ SoleApproval(a, b)
    BY DEF ImportInv
  <2>4. approve[a].of \in Imports /\ approve[a].copied = 0
        /\ (approve[a].of \notin contested => approve[a].of \in locked)
    BY <1>1, <1>2, <2>3 DEF ClaimKnown
  <2>5. D!Promoting = {b \in Approvers : approve[b].step \in PromotingSteps}
    BY DEF D!Promoting, PromotingSteps
  <2>6. \A b \in D!Promoting : approve[b].of \in Imports
    BY <2>3, <2>4, <2>5 DEF ClaimKnown, PromotingSteps, Approving
  <2>7. rivals \in SUBSET Imports
    BY <2>6
  <2>8. contested' = contested \cup rivals \cup (IF rivals = {} THEN {} ELSE {approve[a].of})
    BY <1>4
  <2>9. \A b \in Approvers \ {a} :
            approve[b].step \in PromotingSteps /\ approve[b].of # approve[a].of =>
                approve[b].of \in rivals
    BY <2>5
  <2> HIDE DEF rivals
  <2>10. contested \subseteq contested' /\ contested' \in SUBSET Imports
         /\ locked' = locked /\ locked' \in SUBSET Imports
    BY <1>2, <1>4, <2>4, <2>7, <2>8 DEF ImportTyped
  <2>11. \A b \in Approvers \ {a} :
             approve[b].step \in PromotingSteps /\ approve[b].of # approve[a].of =>
                 approve[a].of \in contested' /\ approve[b].of \in contested'
    BY <2>8, <2>9
  <2>12. \A b \in Approvers \ {a} :
            /\ approve[b].step \in Approving /\ approve[b].of \notin contested' =>
                   approve[b].of \in locked'
            /\ approve[b].step \in Approving /\ approve[b].of = now.of => now.of \in contested'
    BY <1>2, <2>1, <2>3, <2>10 DEF ClaimKnown, SoleApproval
  <2>13. /\ now.of \in Imports /\ (now.of \notin contested' => now.of \in locked')
         /\ now.copied = 0 /\ now.step \notin {"validate", "look"}
         /\ now.step # "promoted"
         /\ (now.copied = 3 <=> now.step = "resolve")
         /\ 1..now.copied = {}
    BY <2>1, <2>4, <2>10
  <2>14. \A b \in Approvers \ {a} :
             approve[b].step \in PromotingSteps /\ approve[b].of # now.of =>
                 now.of \in contested' /\ approve[b].of \in contested'
    BY <2>1, <2>11
  <2> HIDE DEF now
  <2> QED
    BY <1>1, <1>2, <1>4, <2>1, <2>2, <2>10, <2>12, <2>13, <2>14, ApproveMoves
<1> QED
  BY <1>3, <1>4 DEF D!LookAtTarget

(* The next file is in the registry, and counted.                           *)
LEMMA CopyMoves ==
    ASSUME ImportInv, NEW a \in Approvers, approve[a].step = "copy",
           LET q == approve[a].of
               f == D!Files[approve[a].copied + 1]
           IN  /\ package' = [package EXCEPT ![f] = q]
               /\ approve' = [approve EXCEPT ![a].copied = @ + 1,
                                             ![a].step = IF f = D!Files[3] THEN "resolve" ELSE "copy"],
           contested' = contested, locked' = locked
    PROVE  ImportInv'
<1> DEFINE n == approve[a].copied
           q == approve[a].of
           f == D!Files[n + 1]
           step == IF f = D!Files[3] THEN "resolve" ELSE "copy"
           now == [approve[a] EXCEPT !.copied = n + 1, !.step = step]
<1>1. ImportTyped /\ approve[a] \in Approval /\ ClaimKnown(a) /\ CopyKnown(a)
      /\ \A b \in Approvers \ {a} : ClaimKnown(b) /\ SoleApproval(a, b) /\ RivalsContested(a, b)
  BY DEF ImportInv, ImportTyped
<1>2. n \in 0..3 /\ n # 3 /\ q \in Imports /\ (q \notin contested => q \in locked)
      /\ (q \notin contested => \A i \in 1..n : Holds(package, D!Files[i], q))
  BY <1>1 DEF Approval, CopyKnown, ClaimKnown, Approving
<1>3. n \in {0, 1, 2}
  BY <1>2
<1>4. f \in D!FileNames /\ (step = "resolve" <=> n + 1 = 3) /\ step \in {"copy", "resolve"}
  BY <1>3, FilesNamed
<1>5. package' = [package EXCEPT ![f] = q]
  OBVIOUS
<1>6. approve' = [approve EXCEPT ![a] = now]
  <2>1. approve' = [approve EXCEPT ![a] = [approve[a] EXCEPT !.copied = n + 1, !.step = step]]
    BY <1>1 DEF ImportTyped
  <2> QED
    BY <2>1
<1>7. now \in Approval /\ now.step = step /\ now.of = q /\ now.copied = n + 1
  <2>1. n + 1 \in 0..3
    BY <1>3
  <2> QED
    BY <1>1, <1>4, <2>1 DEF Approval, Approving
<1>8. package' \in [D!FileNames -> Imports \cup Savers \cup {Missing}]
      /\ package'[f] = q /\ \A g \in D!FileNames \ {f} : package'[g] = package[g]
  BY <1>1, <1>2, <1>4, <1>5 DEF ImportTyped
<1> HIDE DEF now, step
<1>9. \A i \in 1..now.copied : i \in 1..n \/ i = n + 1
  BY <1>3, <1>7
<1>10. now.of \notin contested' => \A i \in 1..now.copied : Holds(package', D!Files[i], now.of)
  <2>1. SUFFICES ASSUME now.of \notin contested', NEW i \in 1..now.copied
                 PROVE  Holds(package', D!Files[i], now.of)
    OBVIOUS
  <2>2. CASE i = n + 1
    BY <1>7, <1>8, <2>2 DEF Holds
  <2>3. CASE i \in 1..n /\ D!Files[i] # f
    <3>1. Holds(package, D!Files[i], q) /\ D!Files[i] \in D!FileNames
      BY <1>2, <1>3, <1>7, <2>1, <2>3, FilesNamed
    <3> QED
      BY <1>7, <1>8, <2>3, <3>1 DEF Holds
  <2>4. CASE D!Files[i] = f
    BY <1>7, <1>8, <2>4 DEF Holds
  <2> QED
    BY <1>9, <2>2, <2>3, <2>4
<1>11. now.step \in PromotingSteps /\ now.step \in Approving /\ now.step \in {"copy", "resolve"}
       /\ now.step \notin {"validate", "look"} /\ now.step # "promoted"
       /\ (now.copied = 3 <=> now.step = "resolve")
       /\ approve[a].step \in PromotingSteps /\ approve[a].step \in Approving
  BY <1>4, <1>7 DEF PromotingSteps, Approving
<1>12. \A b \in Approvers \ {a} :
          /\ approve[b].step \in Approving /\ approve[b].of \notin contested' =>
                 approve[b].of \in locked'
          /\ approve[b].step \in Approving /\ approve[b].of = now.of => now.of \in contested'
          /\ approve[b].step \in PromotingSteps /\ approve[b].of # now.of =>
                 now.of \in contested' /\ approve[b].of \in contested'
  <2>1. \A b \in Approvers \ {a} : RivalsContested(b, a)
    BY DEF ImportInv
  <2> QED
    BY <1>1, <1>7, <1>11, <2>1 DEF ClaimKnown, SoleApproval, RivalsContested
<1>13. contested \subseteq contested' /\ contested' \in SUBSET Imports /\ locked' \in SUBSET Imports
       /\ now.of \in Imports /\ (now.of \notin contested' => now.of \in locked')
  BY <1>1, <1>2, <1>7 DEF ImportTyped
<1> QED
  BY <1>6, <1>7, <1>8, <1>10, <1>11, <1>12, <1>13, ApproveMoves

(* From the promoting steps an approval gives up through the rollback.      *)
LEMMA UndoBegins ==
    ASSUME ImportInv, NEW a \in Approvers, approve[a].step \in PromotingSteps,
           approve' = [approve EXCEPT ![a].step = "undo"],
           contested' = contested, locked' = locked, package' = package
    PROVE  ImportInv'
<1> DEFINE now == [approve[a] EXCEPT !.step = "undo"]
<1>1. ImportTyped /\ approve[a] \in Approval /\ ClaimKnown(a) /\ approve[a].step \in Approving
      /\ \A b \in Approvers \ {a} : ClaimKnown(b) /\ SoleApproval(a, b)
                                    /\ RivalsContested(a, b) /\ RivalsContested(b, a)
  BY DEF ImportInv, ImportTyped, PromotingSteps, Approving
<1>2. now \in Approval /\ now.step = "undo" /\ now.of = approve[a].of
  BY <1>1 DEF Approval, Approving
<1>3. approve' = [approve EXCEPT ![a] = now]
  OBVIOUS
<1>4. /\ now.of \in Imports
      /\ now.of \notin contested' => now.of \in locked'
  BY <1>1, <1>2 DEF ClaimKnown
<1>5. \A b \in Approvers \ {a} :
          /\ approve[b].step \in Approving /\ approve[b].of \notin contested' =>
                 approve[b].of \in locked'
          /\ approve[b].step \in Approving /\ approve[b].of = now.of => now.of \in contested'
          /\ approve[b].step \in PromotingSteps /\ approve[b].of # now.of =>
                 now.of \in contested' /\ approve[b].of \in contested'
  BY <1>1, <1>2 DEF ClaimKnown, SoleApproval, RivalsContested
<1>6. now.step \notin {"validate", "look"} /\ now.step \notin {"copy", "resolve"}
      /\ now.step # "promoted"
  BY <1>2
<1>7. /\ locked' \in SUBSET Imports /\ contested' \in SUBSET Imports
      /\ contested \subseteq contested'
      /\ package' \in [D!FileNames -> Imports \cup Savers \cup {Missing}]
  BY <1>1 DEF ImportTyped
<1> HIDE DEF now
<1> QED
  BY <1>2, <1>3, <1>4, <1>5, <1>6, <1>7, ApproveMoves

LEMMA CopyKeeps ==
    ASSUME ImportInv, NEW a \in Approvers, D!Copy(a)
    PROVE  ImportInv'
<1>1. approve[a].step = "copy" /\ UNCHANGED <<locked, contested>>
      /\ approve[a].step \in PromotingSteps
  BY DEF D!Copy, D!In, PromotingSteps
<1>2. CASE D!Go(a, "undo") /\ UNCHANGED package
  BY <1>1, <1>2, UndoBegins DEF D!Go
<1>3. CASE LET q == approve[a].of
               f == D!Files[approve[a].copied + 1]
           IN  /\ package' = [package EXCEPT ![f] = q]
               /\ approve' = [approve EXCEPT ![a].copied = @ + 1,
                                             ![a].step = IF f = D!Files[3] THEN "resolve" ELSE "copy"]
  BY <1>1, <1>3, CopyMoves
<1> QED
  BY <1>2, <1>3 DEF D!Copy

LEMMA ResolveKeeps ==
    ASSUME ImportInv, NEW a \in Approvers, D!Resolve(a)
    PROVE  ImportInv'
<1>1. approve[a].step = "resolve" /\ UNCHANGED <<package, contested>>
      /\ approve[a].step \in PromotingSteps /\ approve[a].step \in Approving
  BY DEF D!Resolve, D!In, PromotingSteps, Approving
<1>2. CASE D!Go(a, "undo") /\ UNCHANGED locked
  BY <1>1, <1>2, UndoBegins DEF D!Go
<1>3. CASE D!Return(a, "promoted")
  <2> DEFINE now == [approve[a] EXCEPT !.step = "promoted"]
  <2>1. ImportTyped /\ approve[a] \in Approval /\ ClaimKnown(a) /\ CopyKnown(a)
        /\ \A b \in Approvers \ {a} : ClaimKnown(b) /\ SoleApproval(a, b)
    BY DEF ImportInv, ImportTyped
  <2>2. now \in Approval /\ now.step = "promoted" /\ now.of = approve[a].of
    BY <2>1 DEF Approval
  <2>3. approve' = [approve EXCEPT ![a] = now] /\ locked' = locked \ {approve[a].of}
    BY <1>3 DEF D!Return, D!Go
  <2>4. /\ now.of \in Imports
        /\ now.of \notin contested' => \A f \in D!FileNames : Holds(package', f, now.of)
    <3>1. approve[a].of \in Imports /\ approve[a].copied = 3
      BY <1>1, <2>1 DEF ClaimKnown, CopyKnown
    <3>2. 1..3 = {1, 2, 3}
      OBVIOUS
    <3>3. approve[a].of \notin contested => \A f \in D!FileNames : Holds(package, f, approve[a].of)
      BY <1>1, <2>1, <3>1, <3>2, FilesNamed DEF CopyKnown
    <3> QED
      BY <1>1, <2>2, <3>1, <3>3 DEF Holds
  <2>5. now.of \notin contested' => \A b \in Approvers \ {a} : approve[b].step \notin PromotingSteps
    BY <1>1, <2>2, PromoterAlone, <2>1 DEF ImportInv, SoleApproval, RivalsContested, PromotingSteps, Approving
  <2>6. \A b \in Approvers \ {a} :
            approve[b].step \in Approving /\ approve[b].of \notin contested' =>
                approve[b].of \in locked'
    BY <1>1, <2>1, <2>3 DEF ClaimKnown, SoleApproval
  <2>7. now.step \notin PromotingSteps /\ now.step \notin {"copy", "resolve"}
        /\ now.step \notin Approving
    BY <2>2 DEF PromotingSteps, Approving
  <2>8. /\ locked' \in SUBSET Imports /\ contested' \in SUBSET Imports
        /\ contested \subseteq contested'
        /\ package' \in [D!FileNames -> Imports \cup Savers \cup {Missing}]
    BY <1>1, <2>1, <2>3 DEF ImportTyped
  <2> HIDE DEF now
  <2> QED
    BY <1>1, <2>2, <2>3, <2>4, <2>5, <2>6, <2>7, <2>8, ApproveMoves
<1> QED
  BY <1>2, <1>3 DEF D!Resolve

LEMMA UndoKeeps ==
    ASSUME ImportInv, NEW a \in Approvers, D!Undo(a)
    PROVE  ImportInv'
<1>1. approve[a].step \in Approving /\ approve[a].step \in PromotingSteps
      /\ contested' = contested
      /\ approve' = [approve EXCEPT ![a].step = "refused"] /\ locked' = locked \ {approve[a].of}
  BY DEF D!Undo, D!In, D!Return, D!Go, Approving, PromotingSteps
<1>2. package' \in [D!FileNames -> Imports \cup Savers \cup {Missing}]
  BY DEF D!Undo, ImportInv, ImportTyped
<1> QED
  BY <1>1, <1>2, ApproveEnds

LEMMA CrashKeeps ==
    ASSUME ImportInv, NEW a \in Approvers, D!Crash(a)
    PROVE  ImportInv'
<1>1. approve[a].step \in Approving /\ UNCHANGED <<contested, locked, package>>
      /\ approve' = [approve EXCEPT ![a].step = "dead"]
  BY DEF D!Crash, D!Go, Approving
<1>2. package' \in [D!FileNames -> Imports \cup Savers \cup {Missing}]
  BY <1>1 DEF ImportInv, ImportTyped
<1> QED
  BY <1>1, <1>2, ApproveEnds

(* A rejection takes the lock away, and contests whom it overtakes.         *)
LEMMA RejectKeeps ==
    ASSUME ImportInv, NEW q \in Imports, D!Reject(q)
    PROVE  ImportInv'
<1>1. UNCHANGED <<package, approve>> /\ locked' \in {locked, locked \ {q}}
      /\ contested' = IF D!UnderApproval(q) THEN contested \cup {q} ELSE contested
  BY DEF D!Reject
<1>2. ImportTyped /\ ImportTyped' /\ contested \subseteq contested'
  BY <1>1 DEF ImportInv, ImportTyped
<1>3. ASSUME NEW a \in Approvers PROVE ClaimKnown(a)' /\ CopyKnown(a)' /\ PromotedKnown(a)'
  <2>1. ClaimKnown(a) /\ CopyKnown(a) /\ PromotedKnown(a)
    BY DEF ImportInv
  <2>2. approve[a].step \in Approving /\ approve[a].of = q => q \in contested'
    BY <1>1 DEF D!UnderApproval, Approving
  <2>3. ClaimKnown(a)'
    BY <1>1, <1>2, <2>1, <2>2 DEF ClaimKnown
  <2> QED
    BY <1>1, <1>2, <2>1, <2>3 DEF CopyKnown, PromotedKnown, Holds
<1>4. \A a, b \in Approvers : a # b => SoleApproval(a, b)' /\ RivalsContested(a, b)'
  BY <1>1, <1>2 DEF ImportInv, SoleApproval, RivalsContested
<1> QED
  BY <1>2, <1>3, <1>4 DEF ImportInv

LEMMA SavesKeep ==
    ASSUME ImportInv, NEW s \in Savers, D!SaveWrites(s)
    PROVE  ImportInv'
<1>1. UNCHANGED <<locked, approve, contested>>
      /\ package' = [package EXCEPT !["tokens.json"] = s]
  BY DEF D!SaveWrites
<1>2. ImportTyped /\ ImportTyped' /\ \A g \in D!FileNames : package'[g] \in {package[g], IF g = "tokens.json" THEN s ELSE package[g]}
  BY <1>1 DEF ImportInv, ImportTyped
<1>3. \A g \in D!FileNames, p \in Imports : Holds(package, g, p) => Holds(package', g, p)
  BY <1>2 DEF Holds
<1>4. ASSUME NEW a \in Approvers PROVE ClaimKnown(a)' /\ CopyKnown(a)' /\ PromotedKnown(a)'
  <2>1. ClaimKnown(a) /\ CopyKnown(a) /\ PromotedKnown(a) /\ approve[a] \in Approval
    BY <1>2 DEF ImportInv, ImportTyped
  <2>2. ClaimKnown(a)' /\ PromotedKnown(a)'
    BY <1>1, <1>3, <2>1 DEF ClaimKnown, PromotedKnown
  <2>3. approve[a].step \in {"copy", "resolve"} => approve[a].of \in Imports
    BY <2>1 DEF ClaimKnown, Approving
  <2>4. \A i \in 1..approve[a].copied : D!Files[i] \in D!FileNames
    BY <2>1 DEF Approval, D!FileNames
  <2>5. CopyKnown(a)'
    BY <1>1, <1>3, <2>1, <2>3, <2>4 DEF CopyKnown
  <2> QED
    BY <2>2, <2>5
<1>5. \A a, b \in Approvers : a # b => SoleApproval(a, b)' /\ RivalsContested(a, b)'
  BY <1>1 DEF ImportInv, SoleApproval, RivalsContested
<1> QED
  BY <1>2, <1>4, <1>5 DEF ImportInv

LEMMA ImportQuiet ==
    ASSUME ImportInv, UNCHANGED <<locked, package, approve, contested>>
    PROVE  ImportInv'
BY DEF ImportInv, ImportTyped, ClaimKnown, SoleApproval, RivalsContested, CopyKnown,
       PromotedKnown, Holds

LEMMA ImportInductive == ImportInv /\ [D!Next]_dVars => ImportInv'
<1> SUFFICES ASSUME ImportInv, [D!Next]_dVars PROVE ImportInv'
  OBVIOUS
<1>1. ASSUME NEW q \in Imports, D!Import(q) \/ D!Reject(q) PROVE ImportInv'
  BY <1>1, RejectKeeps, ImportQuiet DEF D!Import
<1>2. ASSUME NEW a \in Approvers, D!Approve(a) PROVE ImportInv'
  BY <1>2, ClaimKeeps, ValidateKeeps, LookKeeps, CopyKeeps, ResolveKeeps, UndoKeeps, CrashKeeps
     DEF D!Approve
<1>3. ASSUME NEW s \in Savers, D!SaveLoads(s) \/ D!SaveWrites(s) PROVE ImportInv'
  BY <1>3, SavesKeep, ImportQuiet DEF D!SaveLoads
<1>4. CASE UNCHANGED dVars
  BY <1>4, ImportQuiet DEF dVars
<1> QED
  BY <1>1, <1>2, <1>3, <1>4, Zenon DEF D!Next

(* What an approval reported as promoted stays in the registry, whole, with *)
(* the contents that were approved, and decided proposals stay decided: the *)
(* answers of the design engine stand.                                      *)
THEOREM DesignAnswersStandHolds == ServicesSpec => []DesignAnswersStand
<1>1. ServicesInit => ImportInv /\ RevisionInv
  BY ImportsBegin, RevisionsBegin DEF ServicesInit
<1>2. ImportInv /\ RevisionInv /\ [ServicesNext]_allVars => (ImportInv /\ RevisionInv)'
  <2>1. [ServicesNext]_allVars => [D!Next]_dVars /\ [R!Next]_rVars
    BY DEF ServicesNext, InPush, InWorkspace, InIntegration, InAgent, InLive, InTerminal,
           InImport, InRevision, allVars, dVars, rVars
  <2> QED
    BY <2>1, ImportInductive, RevisionInductive
<1>3. ImportInv /\ RevisionInv => DesignAnswersStand
  <2>1. ImportInv => D!PromotedStays
    BY DEF ImportInv, PromotedKnown, Holds, D!PromotedStays, D!In
  <2>2. RevisionInv => R!ProposalsStand
    BY DEF RevisionInv, ProposalKnown, DecisionKnown, Answered, Taken, R!ProposalsStand
  <2> QED
    BY <2>1, <2>2 DEF DesignAnswersStand
<1> QED
  BY <1>1, <1>2, <1>3, PTL DEF ServicesSpec

(* The quarantine: what its entries and payloads are.                       *)
QuarantineTyped ==
    /\ stage \in [Imports -> {"unused", "listed", "gone"}]
    /\ payload \in SUBSET Imports

(* Only an import and a rejection change the quarantine.                    *)
LEMMA QuarantineTypes == QuarantineTyped /\ [D!Next]_dVars => QuarantineTyped'
<1> SUFFICES ASSUME QuarantineTyped, [D!Next]_dVars PROVE QuarantineTyped'
  OBVIOUS
<1>1. ASSUME NEW q \in Imports, D!Import(q) \/ D!Reject(q) PROVE QuarantineTyped'
  BY <1>1 DEF D!Import, D!Reject, QuarantineTyped
<1>2. ASSUME NEW a \in Approvers, D!Approve(a) PROVE UNCHANGED <<stage, payload>>
  BY <1>2 DEF D!Approve, D!Claim, D!Validate, D!LookAtTarget, D!Copy, D!Resolve, D!Undo, D!Crash
<1>3. ASSUME NEW s \in Savers, D!SaveLoads(s) \/ D!SaveWrites(s) PROVE UNCHANGED <<stage, payload>>
  BY <1>3 DEF D!SaveLoads, D!SaveWrites
<1>4. CASE UNCHANGED dVars
  BY <1>4 DEF dVars, QuarantineTyped
<1> QED
  BY <1>1, <1>2, <1>3, <1>4, Zenon DEF D!Next, QuarantineTyped

(* The types of the imports.                                                *)
LEMMA ImportIsTyped == ImportInv /\ QuarantineTyped => D!TypeOK
BY DEF ImportInv, ImportTyped, Approval, Approving, QuarantineTyped, D!TypeOK

------------------------------------------------------------------------------
(* The agent loop *)

LoopFields == {"pc", "step", "calls", "planned", "writeCalls", "noopWrites", "otherCalls",
               "hadApply", "noopSteps", "applies", "outcome"}
ListedIn(applies) == {applies[i].step : i \in {j \in DOMAIN applies : applies[j].applied}}

(* At every moment, and not only at the end, the list of applied patches is *)
(* what the loop wrote, and only a cancelled loop reports a cancellation.   *)
LoopInv ==
    /\ DOMAIN loop = LoopFields
    /\ loop.step \in Nat
    /\ loop.applies \in Seq([step : Nat, applied : BOOLEAN])
    /\ wrote = ListedIn(loop.applies)
    /\ loop.outcome = "cancelled" => cancelled

LEMMA LoopBegins == A!Init => LoopInv
<1> SUFFICES ASSUME A!Init PROVE LoopInv
  OBVIOUS
<1>1. /\ DOMAIN loop = LoopFields
      /\ loop.step = 0 /\ loop.applies = << >> /\ loop.outcome = "none" /\ wrote = {}
  BY DEF A!Init, LoopFields
<1> QED
  BY <1>1 DEF LoopInv, ListedIn

(* What a change of some locals leaves alone.                               *)
LEMMA LocalsSet ==
    ASSUME LoopInv, NEW fields, A!Set(fields),
           "applies" \notin DOMAIN fields,
           "step" \in DOMAIN fields => fields["step"] \in Nat,
           "outcome" \in DOMAIN fields => (fields["outcome"] = "cancelled" => cancelled'),
           cancelled => cancelled', wrote' = wrote
    PROVE  LoopInv'
<1>1. /\ DOMAIN loop' = LoopFields
      /\ loop'["applies"] = loop["applies"]
      /\ loop'["step"] = IF "step" \in DOMAIN fields THEN fields["step"] ELSE loop["step"]
      /\ loop'["outcome"] = IF "outcome" \in DOMAIN fields THEN fields["outcome"] ELSE loop["outcome"]
  BY DEF LoopInv, LoopFields, A!Set
<1> QED
  BY <1>1 DEF LoopInv, ListedIn

(* The loop ends, cancelled or not.                                         *)
LEMMA LoopEnds ==
    ASSUME LoopInv, NEW state, A!Outcome(state),
           state = "cancelled" => cancelled, cancelled' = cancelled, wrote' = wrote
    PROVE  LoopInv'
<1> DEFINE fields == [pc |-> "ended", outcome |-> state]
<1>1. A!Set(fields) /\ DOMAIN fields = {"pc", "outcome"} /\ fields["outcome"] = state
  BY DEF A!Outcome
<1> HIDE DEF fields
<1> QED
  BY <1>1, LocalsSet

(* The patch engine answered: the step is listed, as applied or not.        *)
LEMMA LoopReturns ==
    ASSUME LoopInv, NEW done \in BOOLEAN, A!Returned(done), cancelled' = cancelled,
           wrote' = IF done THEN wrote \cup {loop.step} ELSE wrote
    PROVE  LoopInv'
<1> DEFINE s == loop.applies
           entry == [step |-> loop.step, applied |-> done]
           s2 == Append(s, entry)
           fields == [pc |-> "endStep", hadApply |-> loop.hadApply \/ done, applies |-> s2]
<1>1. /\ A!Set(fields) /\ DOMAIN fields = {"pc", "hadApply", "applies"}
      /\ fields["applies"] = s2
  BY DEF A!Returned
<1>2. s \in Seq([step : Nat, applied : BOOLEAN]) /\ entry \in [step : Nat, applied : BOOLEAN]
      /\ entry.step = loop.step /\ entry.applied = done
  BY DEF LoopInv
<1> HIDE DEF fields, entry
<1>3. /\ DOMAIN loop' = LoopFields /\ loop'["applies"] = s2
      /\ loop'["step"] = loop["step"] /\ loop'["outcome"] = loop["outcome"]
  BY <1>1 DEF LoopInv, LoopFields, A!Set
<1> HIDE DEF s
<1>4. /\ s2 \in Seq([step : Nat, applied : BOOLEAN])
      /\ Len(s) \in Nat /\ DOMAIN s = 1..Len(s) /\ DOMAIN s2 = 1..(Len(s) + 1)
      /\ s2[Len(s) + 1] = entry
      /\ \A i \in 1..Len(s) : s2[i] = s[i]
  BY <1>2
<1>5. DOMAIN s2 = DOMAIN s \cup {Len(s) + 1} /\ Len(s) + 1 \notin DOMAIN s
  BY <1>4
<1> HIDE DEF s2
<1>6. ListedIn(s2) = IF done THEN ListedIn(s) \cup {loop.step} ELSE ListedIn(s)
  BY <1>2, <1>4, <1>5 DEF ListedIn
<1>7. wrote = ListedIn(s)
  BY DEF LoopInv, s
<1> QED
  BY <1>3, <1>4, <1>6, <1>7 DEF LoopInv

LEMMA LoopSteps ==
    ASSUME LoopInv, A!Loop
    PROVE  LoopInv'
<1>1. CASE A!BeginStep
  <2>1. cancelled' = cancelled /\ wrote' = wrote
    BY <1>1 DEF A!BeginStep
  <2>2. CASE A!Set([pc |-> "driver"])
    BY <2>1, <2>2, LocalsSet
  <2>3. CASE A!Outcome("failed") \/ (cancelled /\ A!Outcome("cancelled"))
    BY <2>1, <2>3, LoopEnds
  <2> QED
    BY <1>1, <2>2, <2>3 DEF A!BeginStep
<1>2. CASE A!DriverAnswers
  <2>1. cancelled' = cancelled /\ wrote' = wrote
    BY <1>2 DEF A!DriverAnswers
  <2>2. CASE (cancelled /\ A!Outcome("cancelled")) \/ \E state \in {"failed", "completed"} : A!Outcome(state)
    BY <2>1, <2>2, LoopEnds
  <2>3. CASE A!Set([pc |-> "step", step |-> loop.step + 1])
    <3>1. loop.step + 1 \in Nat
      BY DEF LoopInv
    <3> QED
      BY <2>1, <2>3, <3>1, LocalsSet
  <2>4. ASSUME NEW calls, A!Set([pc |-> "calls", calls |-> calls, planned |-> <<>>,
                                 writeCalls |-> 0, noopWrites |-> 0, otherCalls |-> 0])
        PROVE  LoopInv'
    BY <2>1, <2>4, LocalsSet
  <2> QED
    BY <1>2, <2>2, <2>3, <2>4 DEF A!DriverAnswers
<1>3. CASE A!ExecuteCall
  <2>1. cancelled' = cancelled /\ wrote' = wrote
    BY <1>3 DEF A!ExecuteCall
  <2>2. ASSUME NEW rest, NEW n, A!Set([calls |-> rest, otherCalls |-> n]) PROVE LoopInv'
    BY <2>1, <2>2, LocalsSet
  <2>3. ASSUME NEW rest, NEW n, NEW m,
               A!Set([calls |-> rest, writeCalls |-> n, noopWrites |-> m])
        PROVE  LoopInv'
    BY <2>1, <2>3, LocalsSet
  <2>4. ASSUME NEW rest, NEW n, NEW planned,
               A!Set([calls |-> rest, writeCalls |-> n, planned |-> planned])
        PROVE  LoopInv'
    BY <2>1, <2>4, LocalsSet
  <2>5. CASE cancelled /\ A!Outcome("cancelled")
    BY <2>1, <2>5, LoopEnds
  <2> QED
    BY <1>3, <2>2, <2>3, <2>4, <2>5 DEF A!ExecuteCall
<1>4. CASE A!ApplyPlanned
  <2>1. cancelled' = cancelled
    BY <1>4 DEF A!ApplyPlanned
  <2>2. CASE A!Set([pc |-> "endStep"]) /\ wrote' = wrote
    BY <2>1, <2>2, LocalsSet
  <2>3. CASE ((cancelled /\ A!Outcome("cancelled")) \/ A!Outcome("failed")) /\ wrote' = wrote
    BY <2>1, <2>3, LoopEnds
  <2>4. CASE A!Returned(TRUE) /\ wrote' = wrote \cup {loop.step}
    BY <2>1, <2>4, LoopReturns
  <2>5. CASE A!Returned(FALSE) /\ wrote' = wrote
    BY <2>1, <2>5, LoopReturns
  <2> QED
    BY <1>4, <2>2, <2>3, <2>4, <2>5 DEF A!ApplyPlanned
<1>5. CASE A!EndStep
  <2>1. cancelled' = cancelled /\ wrote' = wrote
    BY <1>5 DEF A!EndStep
  <2>2. loop.step + 1 \in Nat /\ (loop.outcome = "cancelled" => cancelled)
    BY DEF LoopInv
  <2>3. PICK noops, pc, outcome :
            /\ A!Set([noopSteps |-> noops, step |-> loop.step + 1, pc |-> pc, outcome |-> outcome])
            /\ outcome \in {"completed", loop.outcome}
    BY <1>5 DEF A!EndStep
  <2> QED
    BY <2>1, <2>2, <2>3, LocalsSet
<1> QED
  BY <1>1, <1>2, <1>3, <1>4, <1>5 DEF A!Loop

(* The outcome is honest about the workspace: the patches it lists as       *)
(* applied are those the loop put there, and only a cancelled loop reports  *)
(* a cancellation.                                                          *)
THEOREM OutcomeListsAppliedHolds == ServicesSpec => []OutcomeListsApplied
<1>1. ServicesInit => LoopInv
  BY LoopBegins DEF ServicesInit
<1>2. LoopInv /\ [ServicesNext]_allVars => LoopInv'
  <2> SUFFICES ASSUME LoopInv, [ServicesNext]_allVars PROVE LoopInv'
    OBVIOUS
  <2>1. [A!Next]_aVars
    BY DEF ServicesNext, InPush, InWorkspace, InIntegration, InAgent, InLive, InTerminal,
           InImport, InRevision, allVars, aVars
  <2>2. CASE A!Cancel \/ A!OthersWrite \/ UNCHANGED aVars
    BY <2>2 DEF A!Cancel, A!OthersWrite, aVars, LoopInv
  <2>3. CASE A!Loop
    BY <2>3, LoopSteps
  <2> QED
    BY <2>1, <2>2, <2>3 DEF A!Next
<1>3. LoopInv => OutcomeListsApplied
  BY DEF LoopInv, ListedIn, OutcomeListsApplied, A!OutcomeListsApplied
<1> QED
  BY <1>1, <1>2, <1>3, PTL DEF ServicesSpec

(* What the locals of the loop are.  A step that is under way is one of the *)
(* budget, and the calls that are left and the writes that were planned are *)
(* calls of one answer.                                                     *)
PlannedWrite == [path : AgentPaths, before : Texts, after : Texts]
LocalsTyped ==
    /\ loop.pc \in {"step", "driver", "calls", "endStep", "ended"}
    /\ loop.step \in 0..MaxSteps
    /\ loop.pc \in {"driver", "calls", "endStep"} => loop.step < MaxSteps
    /\ loop.noopSteps \in 0..loop.step
    /\ loop.calls \in Seq(A!Call) /\ loop.planned \in Seq(PlannedWrite)
    /\ Len(loop.planned) + Len(loop.calls) <= MaxCalls
AgentTyped ==
    /\ text \in [AgentPaths -> Texts] /\ cancelled \in BOOLEAN
    /\ others \in 0..MaxOthers /\ wrote \subseteq 0..MaxSteps
    /\ LocalsTyped

(* A local is what a step sets it to, or what it was.                       *)
LEMMA LocalIs ==
    ASSUME LoopInv, NEW fields, A!Set(fields), NEW k \in LoopFields
    PROVE  loop'[k] = IF k \in DOMAIN fields THEN fields[k] ELSE loop[k]
BY DEF LoopInv, A!Set

(* The locals as one step leaves them.                                      *)
LEMMA LocalsAre ==
    ASSUME NEW pc \in {"step", "driver", "calls", "endStep", "ended"}, NEW step \in 0..MaxSteps,
           NEW noops \in 0..step, NEW calls \in Seq(A!Call), NEW planned \in Seq(PlannedWrite),
           loop'["pc"] = pc, loop'["step"] = step, loop'["noopSteps"] = noops,
           loop'["calls"] = calls, loop'["planned"] = planned,
           pc \in {"driver", "calls", "endStep"} => step < MaxSteps,
           Len(planned) + Len(calls) <= MaxCalls
    PROVE  LocalsTyped'
BY DEF LocalsTyped

(* The loop begins with nothing to do.                                      *)
LEMMA AgentBegins == A!Init => AgentTyped
<1> SUFFICES ASSUME A!Init PROVE AgentTyped
  OBVIOUS
<1>1. /\ loop.pc = "step" /\ loop.step = 0 /\ loop.noopSteps = 0
      /\ loop.calls = << >> /\ loop.planned = << >>
  BY DEF A!Init
<1>2. loop.calls \in Seq(A!Call) /\ loop.planned \in Seq(PlannedWrite)
      /\ Len(loop.planned) = 0 /\ Len(loop.calls) = 0
  BY <1>1
<1>3. LocalsTyped
  BY <1>1, <1>2, AgentAssumption DEF LocalsTyped
<1> QED
  <2>1. text \in [AgentPaths -> Texts] /\ cancelled = FALSE /\ others = 0 /\ wrote = {}
    BY DEF A!Init
  <2>2. others \in 0..MaxOthers
    BY <2>1, AgentAssumption
  <2> QED
    BY <1>3, <2>1, <2>2 DEF AgentTyped

(* Where the loop goes without a change of its calls.                       *)
LEMMA LocalsGo ==
    ASSUME LoopInv, LocalsTyped, NEW fields, A!Set(fields),
           DOMAIN fields \cap {"calls", "planned", "noopSteps", "step"} = {},
           "pc" \in DOMAIN fields,
           fields["pc"] \in {"driver", "endStep", "ended"},
           fields["pc"] \in {"driver", "endStep"} => loop.step < MaxSteps
    PROVE  LocalsTyped'
<1>1. /\ loop'["pc"] = fields["pc"] /\ loop'["step"] = loop["step"]
      /\ loop'["noopSteps"] = loop["noopSteps"]
      /\ loop'["calls"] = loop["calls"] /\ loop'["planned"] = loop["planned"]
  BY LocalIs DEF LoopFields
<1> QED
  BY <1>1 DEF LocalsTyped

(* A step is begun only within the budget.                                  *)
LEMMA BeginStepTypes ==
    ASSUME LoopInv, LocalsTyped, A!BeginStep
    PROVE  LocalsTyped'
<1>1. CASE \E state \in {"failed", "cancelled"} : A!Outcome(state)
  BY <1>1, LocalsGo DEF A!Outcome
<1>2. CASE loop.step # MaxSteps /\ A!Set([pc |-> "driver"])
  <2>1. loop.step < MaxSteps
    BY <1>2, AgentAssumption DEF LocalsTyped
  <2> QED
    BY <1>2, <2>1, LocalsGo
<1> QED
  BY <1>1, <1>2 DEF A!BeginStep

(* The calls of an answer.                                                  *)
LEMMA AnsweredCalls ==
    ASSUME NEW calls \in A!Steps
    PROVE  calls \in Seq(A!Call) /\ Len(calls) <= MaxCalls
<1>1. PICK n \in 1..MaxCalls : calls \in [1..n -> A!Call]
  BY DEF A!Steps
<1>2. n \in Nat /\ n <= MaxCalls
  BY <1>1, AgentAssumption
<1> HIDE DEF A!Call
<1>3. calls \in Seq(A!Call)
  BY <1>1, <1>2, SeqDef
<1>4. Len(calls) = n
  <2> DEFINE m == Len(calls)
  <2>1. m \in Nat /\ 1..m = 1..n
    BY <1>1, <1>3, LenProperties
  <2> HIDE DEF m
  <2>2. m = n
    BY <1>2, <2>1
  <2> QED
    BY <2>2 DEF m
<1> QED
  BY <1>2, <1>3, <1>4

(* The driver ends the loop, spends a step or answers with calls.           *)
LEMMA DriverAnswersTypes ==
    ASSUME LoopInv, LocalsTyped, A!DriverAnswers
    PROVE  LocalsTyped'
<1>1. CASE \E state \in {"failed", "cancelled", "completed"} : A!Outcome(state)
  BY <1>1, LocalsGo DEF A!Outcome
<1>2. loop.pc = "driver" /\ loop.step \in Nat /\ loop.step < MaxSteps
      /\ loop.noopSteps \in 0..loop.step
  BY AgentAssumption DEF A!DriverAnswers, LocalsTyped
<1>3. CASE A!Set([pc |-> "step", step |-> loop.step + 1])
  <2>1. /\ loop'["pc"] = "step" /\ loop'["step"] = loop.step + 1
        /\ loop'["noopSteps"] = loop["noopSteps"]
        /\ loop'["calls"] = loop["calls"] /\ loop'["planned"] = loop["planned"]
    BY <1>3, LocalIs DEF LoopFields
  <2>2. loop.step + 1 \in 0..MaxSteps /\ loop.noopSteps \in 0..(loop.step + 1)
    BY <1>2, AgentAssumption
  <2> QED
    BY <2>1, <2>2, LocalsAre DEF LocalsTyped
<1>4. ASSUME NEW calls \in A!Steps,
             A!Set([pc |-> "calls", calls |-> calls, planned |-> <<>>,
                    writeCalls |-> 0, noopWrites |-> 0, otherCalls |-> 0])
      PROVE  LocalsTyped'
  <2>1. /\ loop'["pc"] = "calls" /\ loop'["step"] = loop.step
        /\ loop'["noopSteps"] = loop["noopSteps"]
        /\ loop'["calls"] = calls /\ loop'["planned"] = << >>
    BY <1>4, LocalIs DEF LoopFields
  <2>2. /\ loop'["planned"] \in Seq(PlannedWrite) /\ Len(loop'["planned"]) = 0
        /\ calls \in Seq(A!Call) /\ Len(calls) <= MaxCalls /\ Len(calls) \in Nat
    BY <2>1, AnsweredCalls, LenProperties
  <2>3. Len(loop'["planned"]) + Len(calls) <= MaxCalls
    BY <2>2, AgentAssumption
  <2> QED
    BY <1>2, <2>1, <2>2, <2>3, LocalsAre DEF LocalsTyped
<1> QED
  BY <1>1, <1>3, <1>4 DEF A!DriverAnswers

(* A call is executed: it leaves the calls, and may join the writes.        *)
LEMMA CallTaken ==
    ASSUME LocalsTyped, loop.calls # << >>
    PROVE  /\ Head(loop.calls) \in A!Call /\ Tail(loop.calls) \in Seq(A!Call)
           /\ Len(Tail(loop.calls)) \in Nat /\ Len(loop.planned) \in Nat
           /\ Len(loop.planned) + Len(Tail(loop.calls)) + 1 <= MaxCalls
<1>1. loop.calls \in Seq(A!Call) /\ loop.planned \in Seq(PlannedWrite)
      /\ Len(loop.planned) + Len(loop.calls) <= MaxCalls
  BY DEF LocalsTyped
<1> HIDE DEF A!Call, PlannedWrite
<1>2. /\ Head(loop.calls) \in A!Call /\ Tail(loop.calls) \in Seq(A!Call)
      /\ Len(Tail(loop.calls)) = Len(loop.calls) - 1
      /\ Len(loop.calls) \in Nat /\ Len(loop.calls) # 0 /\ Len(loop.planned) \in Nat
  BY <1>1
<1> DEFINE p == Len(loop.planned)
           l == Len(loop.calls)
           t == Len(Tail(loop.calls))
<1>3. p + l <= MaxCalls /\ t = l - 1 /\ l \in Nat /\ l # 0 /\ p \in Nat
  BY <1>1, <1>2
<1> HIDE DEF p, l, t
<1>4. t \in Nat /\ p + t + 1 <= MaxCalls
  BY <1>3, AgentAssumption
<1> QED
  BY <1>2, <1>3, <1>4 DEF p, t

(* A call is executed, and only a write that changes something is planned.  *)
LEMMA ExecuteCallTypes ==
    ASSUME LoopInv, LocalsTyped, text \in [AgentPaths -> Texts], A!ExecuteCall
    PROVE  LocalsTyped'
<1> DEFINE c == Head(loop.calls)
           rest == Tail(loop.calls)
<1>1. /\ loop.pc = "calls" /\ loop.calls # << >>
      /\ c \in A!Call /\ rest \in Seq(A!Call)
      /\ Len(rest) \in Nat /\ Len(loop.planned) \in Nat
      /\ Len(loop.planned) + Len(rest) + 1 <= MaxCalls
      /\ loop.planned \in Seq(PlannedWrite)
  BY CallTaken DEF A!ExecuteCall, LocalsTyped
<1>2. CASE A!Outcome("cancelled")
  BY <1>2, LocalsGo DEF A!Outcome
<1> HIDE DEF rest
<1>3. ASSUME NEW fields, A!Set(fields), "calls" \in DOMAIN fields, fields["calls"] = rest,
             DOMAIN fields \cap {"pc", "step", "planned", "noopSteps"} = {}
      PROVE  LocalsTyped'
  <2>1. /\ loop'["pc"] = "calls" /\ loop'["step"] = loop["step"]
        /\ loop'["noopSteps"] = loop["noopSteps"]
        /\ loop'["calls"] = rest /\ loop'["planned"] = loop["planned"]
    BY <1>1, <1>3, LocalIs DEF LoopFields
  <2>2. Len(loop.planned) + Len(rest) <= MaxCalls
    BY <1>1, AgentAssumption
  <2> QED
    BY <1>1, <2>1, <2>2, LocalsAre DEF LocalsTyped
<1>4. ASSUME c.tool = "write", NEW n,
             A!Set([calls |-> rest, writeCalls |-> n,
                    planned |-> Append(loop.planned,
                        [path |-> c.path, before |-> text[c.path], after |-> c.text])])
      PROVE  LocalsTyped'
  <2> DEFINE w == [path |-> c.path, before |-> text[c.path], after |-> c.text]
             planned == Append(loop.planned, w)
  <2>1. w \in PlannedWrite
    <3>1. c \in [tool : {"write"}, path : AgentPaths, text : Texts]
      BY <1>1, <1>4 DEF A!Call
    <3> HIDE DEF c
    <3> QED
      BY <3>1 DEF PlannedWrite
  <2> HIDE DEF w, c
  <2>2. planned \in Seq(PlannedWrite) /\ Len(planned) = Len(loop.planned) + 1
    BY <1>1, <2>1
  <2> HIDE DEF planned
  <2>3. /\ loop'["pc"] = "calls" /\ loop'["step"] = loop["step"]
        /\ loop'["noopSteps"] = loop["noopSteps"]
        /\ loop'["calls"] = rest /\ loop'["planned"] = planned
    BY <1>1, <1>4, LocalIs DEF LoopFields, planned, w
  <2>4. Len(planned) + Len(rest) <= MaxCalls
    BY <1>1, <2>2, AgentAssumption
  <2> QED
    BY <1>1, <2>2, <2>3, <2>4, LocalsAre DEF LocalsTyped
<1>5. CASE A!Set([calls |-> rest, otherCalls |-> loop.otherCalls + 1])
  BY <1>3, <1>5
<1>6. CASE A!Set([calls |-> rest, writeCalls |-> loop.writeCalls + 1,
                  noopWrites |-> loop.noopWrites + 1])
  BY <1>3, <1>6
<1> QED
  BY <1>2, <1>4, <1>5, <1>6 DEF A!ExecuteCall, A!Permitted, c, rest

(* A patch puts texts where texts were.                                     *)
LEMMA PatchedText ==
    ASSUME text \in [AgentPaths -> Texts], NEW planned \in Seq(PlannedWrite)
    PROVE  A!Patched(planned) \in [AgentPaths -> Texts]
<1> DEFINE writes == {planned[i] : i \in DOMAIN planned}
<1>1. \A w \in writes : w.after \in Texts
  <2>1. \A i \in DOMAIN planned : planned[i] \in PlannedWrite
    BY LenProperties
  <2> QED
    BY <2>1 DEF PlannedWrite
<1>2. ASSUME NEW p \in AgentPaths, \E i \in DOMAIN planned : planned[i].path = p
      PROVE  (CHOOSE w \in writes : w.path = p).after \in Texts
  <2>1. \E w \in writes : w.path = p
    BY <1>2
  <2>2. (CHOOSE w \in writes : w.path = p) \in writes
    BY <2>1
  <2> QED
    BY <1>1, <2>2
<1> QED
  BY <1>2 DEF A!Patched

(* The planned writes go in, or not, and their step is one of the budget.   *)
LEMMA ApplyPlannedTypes ==
    ASSUME LoopInv, AgentTyped, A!ApplyPlanned
    PROVE  AgentTyped'
<1>1. /\ loop.pc = "calls" /\ loop.step < MaxSteps /\ loop.step \in 0..MaxSteps
      /\ cancelled' = cancelled /\ others' = others
  BY DEF A!ApplyPlanned, AgentTyped, LocalsTyped
<1>2. LocalsTyped'
  <2>1. CASE \E state \in {"failed", "cancelled"} : A!Outcome(state)
    BY <2>1, LocalsGo DEF A!Outcome, AgentTyped
  <2>2. CASE A!Set([pc |-> "endStep"])
    BY <1>1, <2>2, LocalsGo DEF AgentTyped
  <2>3. CASE \E done \in BOOLEAN : A!Returned(done)
    BY <1>1, <2>3, LocalsGo DEF AgentTyped, A!Returned
  <2> QED
    BY <2>1, <2>2, <2>3 DEF A!ApplyPlanned
<1>3. text' \in [AgentPaths -> Texts] /\ wrote' \subseteq 0..MaxSteps
  <2>1. CASE text' = text /\ wrote' = wrote
    BY <2>1 DEF AgentTyped
  <2>2. CASE text' = A!Patched(loop.planned) /\ wrote' = wrote \cup {loop.step}
    BY <1>1, <2>2, PatchedText DEF AgentTyped, LocalsTyped
  <2> QED
    BY <2>1, <2>2 DEF A!ApplyPlanned
<1> QED
  BY <1>1, <1>2, <1>3 DEF AgentTyped

(* A step ends, and no more than all steps were without effect.             *)
LEMMA EndStepTypes ==
    ASSUME LoopInv, LocalsTyped, A!EndStep
    PROVE  LocalsTyped'
<1>1. /\ loop.pc = "endStep" /\ loop.step \in Nat /\ loop.step < MaxSteps
      /\ loop.noopSteps \in 0..loop.step
  BY AgentAssumption DEF A!EndStep, LocalsTyped
<1>2. PICK noops, pc, outcome :
          /\ A!Set([noopSteps |-> noops, step |-> loop.step + 1, pc |-> pc, outcome |-> outcome])
          /\ pc \in {"ended", "step"} /\ noops \in {0, loop.noopSteps + 1}
  BY DEF A!EndStep
<1>3. /\ loop'["pc"] = pc /\ loop'["step"] = loop.step + 1 /\ loop'["noopSteps"] = noops
      /\ loop'["calls"] = loop["calls"] /\ loop'["planned"] = loop["planned"]
  BY <1>2, LocalIs DEF LoopFields
<1>4. loop.step + 1 \in 0..MaxSteps /\ noops \in 0..(loop.step + 1)
  BY <1>1, <1>2, AgentAssumption
<1> QED
  BY <1>2, <1>3, <1>4, LocalsAre DEF LocalsTyped

(* Every step of the loop keeps its types, and so do the others.            *)
LEMMA AgentTypes == LoopInv /\ AgentTyped /\ [A!Next]_aVars => AgentTyped'
<1> SUFFICES ASSUME LoopInv, AgentTyped, [A!Next]_aVars PROVE AgentTyped'
  OBVIOUS
<1>1. CASE A!Cancel
  BY <1>1 DEF A!Cancel, AgentTyped, LocalsTyped
<1>2. CASE A!OthersWrite
  <2>1. text' \in [AgentPaths -> Texts]
    BY <1>2 DEF A!OthersWrite, AgentTyped
  <2>2. others' \in 0..MaxOthers
    BY <1>2, AgentAssumption DEF A!OthersWrite, AgentTyped
  <2> QED
    BY <1>2, <2>1, <2>2 DEF A!OthersWrite, AgentTyped, LocalsTyped
<1>3. CASE A!BeginStep
  BY <1>3, BeginStepTypes DEF A!BeginStep, AgentTyped
<1>4. CASE A!DriverAnswers
  BY <1>4, DriverAnswersTypes DEF A!DriverAnswers, AgentTyped
<1>5. CASE A!ExecuteCall
  BY <1>5, ExecuteCallTypes DEF A!ExecuteCall, AgentTyped
<1>6. CASE A!ApplyPlanned
  BY <1>6, ApplyPlannedTypes
<1>7. CASE A!EndStep
  BY <1>7, EndStepTypes DEF A!EndStep, AgentTyped
<1>8. CASE UNCHANGED aVars
  BY <1>8 DEF aVars, AgentTyped, LocalsTyped
<1> QED
  BY <1>1, <1>2, <1>3, <1>4, <1>5, <1>6, <1>7, <1>8 DEF A!Next, A!Loop

(* The types of the agent loop.                                             *)
LEMMA AgentIsTyped == AgentTyped => A!TypeOK
<1> SUFFICES ASSUME AgentTyped PROVE A!TypeOK
  OBVIOUS
<1>1. loop.noopSteps \in 0..MaxSteps
  BY AgentAssumption DEF AgentTyped, LocalsTyped
<1> QED
  BY <1>1 DEF AgentTyped, LocalsTyped, A!TypeOK

------------------------------------------------------------------------------
(* Integration apply *)

Edits == ApplyPaths \X (Versions \cup {User})
BusySteps == {"read", "patch", "verify", "gate", "capture", "apply", "diff", "finalDiff", "seal",
              "receipt"}
Results == {"integrated", "already", "failed", "awaiting_approval", "in_progress", "error",
            "io_error"}
Candidate == [version : Versions, base : SUBSET Edits]
Request == [step : BusySteps \cup {"new", "returned", "dead"}, receipt : Candidate \cup {None},
            patch : Versions \cup {None}, rollback : (SUBSET Edits) \cup {None},
            result : Results \cup {None}]

IntegrationTyped ==
    /\ head \in SUBSET Edits /\ tree \in SUBSET Edits
    /\ patch \in Versions \cup {None} /\ receipt \in Candidate \cup {None}
    /\ turn \in [step : {"idle", "isolated", "patched"}, version : Versions \cup {0},
                 base : SUBSET Edits]
    /\ turn.step # "idle" => turn.version \in Versions
    /\ receipt # None \/ turn.step = "patched" => patch \in Versions
    /\ applied \subseteq ApplyCalls
    /\ seal => finalDiff
    /\ req \in [ApplyCalls -> Request]

Busy(r) == req[r].step \in BusySteps
Landed(r) == I!ReverseApplies(req[r].patch) \/ r \in moved
Settled(r) == req[r].result \in {"integrated", "already"}

(* The receipt's files are clean and those the candidate was made from; the *)
(* policy's approval of them, and of the patch, has been given.             *)
Fenced(r) ==
    /\ ~I!Dirty(I!Files(r))
    /\ I!On(head, I!Files(r)) = I!On(req[r].receipt.base, I!Files(r))
Allowed(r) == I!NeedsApproval(I!Files(r), req[r].patch) => approved

(* What the progress of a call says about the workspace it works on, for as *)
(* long as the lock keeps the other calls away and the user stays away.     *)
CallKnown(r) ==
    /\ Busy(r) => lock
    /\ req[r].step = "returned" <=> req[r].result # None
    /\ req[r].step = "patch" => patch \in Versions
    /\ req[r].step \in {"verify", "gate", "capture", "apply"} => req[r].patch \in Versions
    /\ req[r].step \in {"gate", "capture", "apply"} => r \in moved \/ Fenced(r)
    /\ req[r].step \in {"capture", "apply"} => Allowed(r)
    /\ req[r].step \in {"apply", "diff"} => req[r].rollback \in SUBSET Edits
    /\ req[r].step \in {"diff", "finalDiff", "seal", "receipt"} => r \in applied /\ Landed(r)
    /\ req[r].step \in {"seal", "receipt"} => finalDiff
    /\ req[r].step = "receipt" => seal
    /\ r \in applied => req[r].step \in {"diff", "finalDiff", "seal", "receipt", "returned", "dead"}
ResultKnown(r) ==
    /\ req[r].result = "integrated" => r \in applied /\ finalDiff /\ seal
    /\ Settled(r) => Landed(r)
    /\ req[r].result \in {"awaiting_approval", "in_progress", "already"} => r \notin applied
    /\ req[r].result = "failed" => r \notin applied \/ I!Mixed(r)

(* One call at a time; and what it would roll back to has, in the files of  *)
(* its receipt, the patches that the finished calls report.                 *)
Spares(r, s) == I!On(I!EditsOf(req[s].patch), I!Files(r)) \subseteq req[r].rollback \/ s \in moved
Apart(r, s) ==
    /\ ~(Busy(r) /\ Busy(s))
    /\ req[r].step \in {"apply", "diff"} /\ Settled(s) => Spares(r, s)

IntegrationInv ==
    /\ IntegrationTyped
    /\ \A r \in ApplyCalls : CallKnown(r) /\ ResultKnown(r)
    /\ \A r, s \in ApplyCalls : r # s => Apart(r, s)

LEMMA ApplyBegins == I!Init => IntegrationInv
<1> SUFFICES ASSUME I!Init PROVE IntegrationInv
  OBVIOUS
<1>1. I!NewRequest \in Request
  BY DEF I!NewRequest, Request
<1>2. IntegrationTyped
  BY <1>1 DEF I!Init, IntegrationTyped
<1>3. \A r \in ApplyCalls : req[r].step = "new" /\ req[r].result = None
  BY DEF I!Init, I!NewRequest
<1> QED
  BY <1>2, <1>3, ApplyAssumption
     DEF IntegrationInv, CallKnown, ResultKnown, Apart, Busy, BusySteps, Settled, I!Init, Results

(* What is said of a call stays true while its record and the workspace do. *)
LEMMA FenceStays ==
    ASSUME NEW r, req'[r].receipt = req[r].receipt, UNCHANGED <<head, tree>>
    PROVE  Fenced(r)' <=> Fenced(r)
BY DEF Fenced, I!Dirty, I!Files, I!On

LEMMA AllowanceStays ==
    ASSUME NEW r, req'[r].receipt = req[r].receipt, req'[r].patch = req[r].patch,
           approved => approved', Allowed(r)
    PROVE  Allowed(r)'
BY DEF Allowed, I!NeedsApproval, I!Files

LEMMA LandedStays ==
    ASSUME NEW r, req'[r].patch = req[r].patch, tree \subseteq tree', r \in moved => r \in moved',
           Landed(r)
    PROVE  Landed(r)'
BY DEF Landed, I!ReverseApplies, I!EditsOf

LEMMA MixedStays ==
    ASSUME NEW r, req'[r].receipt = req[r].receipt, req'[r].patch = req[r].patch
    PROVE  I!Mixed(r)' <=> I!Mixed(r)
BY DEF I!Mixed

LEMMA SparesStays ==
    ASSUME NEW r, NEW s, req'[r].receipt = req[r].receipt, req'[r].rollback = req[r].rollback,
           req'[s].patch = req[s].patch, s \in moved => s \in moved', Spares(r, s)
    PROVE  Spares(r, s)'
BY DEF Spares, I!On, I!EditsOf, I!Files

(* A call moves on, and the others are as they were.                        *)
LEMMA OthersKeep ==
    ASSUME IntegrationInv, NEW r \in ApplyCalls,
           IntegrationTyped', CallKnown(r)', ResultKnown(r)',
           \A s \in ApplyCalls \ {r} :
               /\ req'[s] = req[s]
               /\ s \in moved' <=> s \in moved
               /\ s \in applied' <=> s \in applied,
           head' = head, approved' = approved, finalDiff => finalDiff', seal => seal',
           lock' = lock \/ Busy(r) \/ ~lock,
           patch' = patch \/ Busy(r),
           tree' = tree \/ (Busy(r) /\ \A s \in ApplyCalls \ {r} : Settled(s) => Landed(s)'),
           Busy(r)' => Busy(r) \/ ~lock,
           Settled(r)' => Busy(r),
           req'[r].step \in {"apply", "diff"} =>
               \A s \in ApplyCalls \ {r} : Settled(s) => Spares(r, s)'
    PROVE  IntegrationInv'
<1>1. ASSUME NEW s \in ApplyCalls \ {r} PROVE CallKnown(s)'
  <2>1. CallKnown(s) /\ ~(Busy(r) /\ Busy(s))
    BY DEF IntegrationInv, Apart
  <2>2. /\ req'[s] = req[s] /\ (s \in moved' <=> s \in moved) /\ (s \in applied' <=> s \in applied)
        /\ Allowed(s) => Allowed(s)'
    BY <1>1, AllowanceStays
  <2>3. CASE ~Busy(s)
    BY <2>1, <2>2, <2>3 DEF CallKnown, Busy, BusySteps
  <2>4. CASE Busy(s)
    <3>1. lock' /\ tree' = tree /\ patch' = patch
      BY <2>1, <2>4 DEF CallKnown
    <3>2. (Fenced(s)' <=> Fenced(s)) /\ (Landed(s) => Landed(s)')
      BY <2>2, <3>1, FenceStays, LandedStays
    <3> QED
      BY <2>1, <2>2, <3>1, <3>2 DEF CallKnown, Busy
  <2> QED
    BY <2>3, <2>4
<1>2. ASSUME NEW s \in ApplyCalls \ {r} PROVE ResultKnown(s)'
  <2>1. ResultKnown(s) /\ req'[s] = req[s]
    BY <1>2 DEF IntegrationInv
  <2>2. (I!Mixed(s)' <=> I!Mixed(s)) /\ (Settled(s) => Landed(s)')
    BY <1>2, <2>1, MixedStays, LandedStays DEF ResultKnown
  <2> QED
    BY <1>2, <2>1, <2>2 DEF ResultKnown, Settled
<1>3. ASSUME NEW s \in ApplyCalls \ {r} PROVE Apart(r, s)'
  <2>1. CallKnown(s) /\ Apart(r, s)
    BY DEF IntegrationInv
  <2> QED
    BY <1>3, <2>1 DEF Apart, CallKnown, Busy, Settled
<1>4. ASSUME NEW s \in ApplyCalls \ {r} PROVE Apart(s, r)'
  <2>1. CallKnown(s) /\ Apart(s, r)
    BY DEF IntegrationInv
  <2>2. req[s].step \in {"apply", "diff"} => Busy(s)
    BY DEF Busy, BusySteps
  <2> QED
    BY <1>4, <2>1, <2>2 DEF Apart, CallKnown, Busy, Settled
<1>5. ASSUME NEW s \in ApplyCalls \ {r}, NEW q \in ApplyCalls \ {r}, s # q PROVE Apart(s, q)'
  <2>1. Apart(s, q) /\ (Spares(s, q) => Spares(s, q)')
    BY <1>5, SparesStays DEF IntegrationInv
  <2> QED
    BY <1>5, <2>1 DEF Apart, Busy, Settled
<1>6. \A s \in ApplyCalls : CallKnown(s)' /\ ResultKnown(s)'
  BY <1>1, <1>2
<1>7. \A s, q \in ApplyCalls : s # q => Apart(s, q)'
  BY <1>3, <1>4, <1>5
<1> QED
  BY <1>6, <1>7 DEF IntegrationInv

(* The record of a call.                                                    *)
LEMMA RequestSet ==
    ASSUME IntegrationTyped, NEW r \in ApplyCalls, NEW now \in Request,
           req' = [req EXCEPT ![r] = now]
    PROVE  /\ req' \in [ApplyCalls -> Request] /\ req'[r] = now
           /\ \A s \in ApplyCalls \ {r} : req'[s] = req[s]
BY DEF IntegrationTyped

LEMMA RequestGoes ==
    ASSUME IntegrationTyped, NEW r \in ApplyCalls, NEW step \in BusySteps, I!Go(r, step)
    PROVE  /\ req' \in [ApplyCalls -> Request]
           /\ req'[r].step = step /\ req'[r].receipt = req[r].receipt /\ req'[r].patch = req[r].patch
           /\ req'[r].rollback = req[r].rollback /\ req'[r].result = req[r].result
           /\ \A s \in ApplyCalls \ {r} : req'[s] = req[s]
<1> DEFINE now == [req[r] EXCEPT !.step = step]
<1>1. req[r] \in Request
  BY DEF IntegrationTyped
<1>2. /\ now \in Request /\ now.step = step /\ now.receipt = req[r].receipt
      /\ now.patch = req[r].patch /\ now.rollback = req[r].rollback /\ now.result = req[r].result
  BY <1>1 DEF Request
<1>3. req' = [req EXCEPT ![r] = now]
  BY DEF I!Go
<1> HIDE DEF now
<1> QED
  BY <1>2, <1>3, RequestSet

LEMMA RequestReturns ==
    ASSUME IntegrationTyped, NEW r \in ApplyCalls, NEW result \in Results,
           req' = [req EXCEPT ![r].step = "returned", ![r].result = result]
    PROVE  /\ req' \in [ApplyCalls -> Request]
           /\ req'[r].step = "returned" /\ req'[r].result = result
           /\ req'[r].receipt = req[r].receipt /\ req'[r].patch = req[r].patch
           /\ \A s \in ApplyCalls \ {r} : req'[s] = req[s]
<1> DEFINE now == [req[r] EXCEPT !.step = "returned", !.result = result]
<1>1. req[r] \in Request /\ req \in [ApplyCalls -> Request]
  BY DEF IntegrationTyped
<1>2. /\ now \in Request /\ now.step = "returned" /\ now.receipt = req[r].receipt
      /\ now.patch = req[r].patch /\ now.result = result
  BY <1>1 DEF Request
<1>3. req' = [req EXCEPT ![r] = now]
  BY <1>1
<1> HIDE DEF now
<1> QED
  BY <1>2, <1>3, RequestSet

(* What OthersKeep asks of a call that changes nothing but its own record   *)
(* and perhaps the lock.                                                    *)
LEMMA CallKeeps ==
    ASSUME IntegrationInv, NEW r \in ApplyCalls,
           req' \in [ApplyCalls -> Request], \A s \in ApplyCalls \ {r} : req'[s] = req[s],
           CallKnown(r)', ResultKnown(r)',
           UNCHANGED <<head, tree, patch, receipt, turn, finalDiff, seal, approved, applied, moved>>,
           lock' = lock \/ Busy(r) \/ ~lock,
           Busy(r)' => Busy(r) \/ ~lock, Settled(r)' => Busy(r),
           req'[r].step \in {"apply", "diff"} => req'[r].rollback = I!On(tree, I!Files(r))'
    PROVE  IntegrationInv'
<1>1. IntegrationTyped'
  BY DEF IntegrationInv, IntegrationTyped
<1>2. \A s \in ApplyCalls : Settled(s) => Landed(s)
  BY DEF IntegrationInv, ResultKnown
<1>3. ASSUME NEW s \in ApplyCalls \ {r}, Settled(s), req'[r].step \in {"apply", "diff"}
      PROVE  Spares(r, s)'
  BY <1>2, <1>3 DEF Landed, Spares, I!ReverseApplies, I!EditsOf, I!On, I!Files
<1> QED
  BY <1>1, <1>3, OthersKeep

(* A call that ends with nothing of its patch in the workspace, ...         *)
LEMMA GivesUp ==
    ASSUME IntegrationInv, NEW r \in ApplyCalls, Busy(r), r \notin applied,
           NEW result \in {"failed", "awaiting_approval", "error", "io_error"}, I!Return(r, result),
           UNCHANGED <<head, tree, patch, receipt, turn, finalDiff, seal, approved, applied, moved>>
    PROVE  IntegrationInv'
<1>1. IntegrationTyped /\ result \in Results
  BY DEF IntegrationInv, Results
<1>2. /\ req' \in [ApplyCalls -> Request] /\ req'[r].step = "returned" /\ req'[r].result = result
      /\ \A s \in ApplyCalls \ {r} : req'[s] = req[s]
  BY <1>1, RequestReturns DEF I!Return
<1>3. CallKnown(r)' /\ ResultKnown(r)' /\ ~Busy(r)' /\ ~Settled(r)'
  BY <1>1, <1>2, ApplyAssumption DEF CallKnown, ResultKnown, Busy, BusySteps, Settled, Landed, Results
<1> QED
  BY <1>2, <1>3, CallKeeps

(* ... and what it answers, if it can.                                      *)
LEMMA AnswersFailure ==
    ASSUME IntegrationInv, NEW r \in ApplyCalls, Busy(r), r \notin applied,
           NEW result \in {"failed", "awaiting_approval"}, I!Answer(r, result),
           UNCHANGED <<head, tree, patch, receipt, turn, finalDiff, seal, approved, applied, moved>>
    PROVE  IntegrationInv'
<1>1. I!Return(r, result) \/ I!Return(r, "error")
  BY DEF I!Answer
<1> QED
  BY <1>1, GivesUp

LEMMA AcquireKeeps ==
    ASSUME IntegrationInv, NEW r \in ApplyCalls, I!AcquireLock(r) PROVE IntegrationInv'
<1>1. /\ UNCHANGED <<head, tree, patch, receipt, turn, finalDiff, seal, approved, applied, moved>>
      /\ req[r].step = "new"
  BY DEF I!AcquireLock, I!At, I!mainVars, I!candidateVars, I!sealVars
<1>2. IntegrationTyped /\ CallKnown(r) /\ ResultKnown(r) /\ r \notin applied /\ ~Settled(r)
  BY <1>1, ApplyAssumption DEF IntegrationInv, CallKnown, Settled
<1>3. CASE /\ lock /\ lock' = lock
           /\ req' = [req EXCEPT ![r].step = "returned", ![r].result = "in_progress"]
  <2>1. "in_progress" \in Results
    BY DEF Results
  <2>2. /\ req' \in [ApplyCalls -> Request] /\ req'[r].step = "returned"
        /\ req'[r].result = "in_progress" /\ \A s \in ApplyCalls \ {r} : req'[s] = req[s]
    BY <1>2, <1>3, <2>1, RequestReturns
  <2>3. CallKnown(r)' /\ ResultKnown(r)' /\ ~Busy(r)' /\ ~Settled(r)'
    BY <1>1, <1>2, <2>2, ApplyAssumption DEF CallKnown, ResultKnown, Busy, BusySteps, Settled
  <2> QED
    BY <1>1, <1>3, <2>2, <2>3, CallKeeps
<1>4. CASE ~lock /\ I!Go(r, "read") /\ lock' = TRUE
  <2>1. "read" \in BusySteps
    BY DEF BusySteps
  <2>2. /\ req' \in [ApplyCalls -> Request] /\ req'[r].step = "read"
        /\ req'[r].result = req[r].result /\ \A s \in ApplyCalls \ {r} : req'[s] = req[s]
    BY <1>2, <1>4, <2>1, RequestGoes
  <2>3. CallKnown(r)' /\ ResultKnown(r)' /\ ~Settled(r)'
    BY <1>1, <1>2, <1>4, <2>2, ApplyAssumption DEF CallKnown, ResultKnown, Busy, BusySteps, Settled
  <2> QED
    BY <1>1, <1>4, <2>2, <2>3, CallKeeps
<1> QED
  BY <1>3, <1>4 DEF I!AcquireLock

LEMMA ReadKeeps ==
    ASSUME IntegrationInv, NEW r \in ApplyCalls, I!ReadCandidate(r) PROVE IntegrationInv'
<1>1. /\ UNCHANGED <<head, tree, patch, receipt, turn, finalDiff, seal, approved, applied, moved>>
      /\ req[r].step = "read"
  BY DEF I!ReadCandidate, I!At, I!mainVars, I!candidateVars, I!sealVars
<1>2. IntegrationTyped /\ CallKnown(r) /\ ResultKnown(r) /\ req[r] \in Request /\ Busy(r)
      /\ r \notin applied /\ ~Settled(r)
  BY <1>1, ApplyAssumption DEF IntegrationInv, IntegrationTyped, CallKnown, Busy, BusySteps, Settled
<1>3. CASE I!Return(r, "error") \/ I!Answer(r, "failed")
  BY <1>1, <1>2, <1>3, GivesUp, AnswersFailure
<1>4. CASE /\ receipt # None /\ lock' = lock
           /\ req' = [req EXCEPT ![r].step = "patch", ![r].receipt = receipt]
  <2> DEFINE now == [req[r] EXCEPT !.step = "patch", !.receipt = receipt]
  <2>1. now \in Request /\ now.step = "patch" /\ now.result = req[r].result
    BY <1>2 DEF Request, BusySteps, IntegrationTyped
  <2>2. req' = [req EXCEPT ![r] = now]
    BY <1>2, <1>4 DEF IntegrationTyped
  <2>3. patch \in Versions
    BY <1>2, <1>4 DEF IntegrationTyped
  <2> HIDE DEF now
  <2>4. /\ req' \in [ApplyCalls -> Request] /\ req'[r].step = "patch"
        /\ req'[r].result = req[r].result /\ \A s \in ApplyCalls \ {r} : req'[s] = req[s]
    BY <1>2, <2>1, <2>2, RequestSet
  <2>5. CallKnown(r)' /\ ResultKnown(r)' /\ ~Settled(r)'
    BY <1>1, <1>2, <1>4, <2>3, <2>4, ApplyAssumption
       DEF CallKnown, ResultKnown, Busy, BusySteps, Settled
  <2> QED
    BY <1>1, <1>2, <1>4, <2>4, <2>5, CallKeeps
<1> QED
  BY <1>3, <1>4 DEF I!ReadCandidate

LEMMA ReadPatchKeeps ==
    ASSUME IntegrationInv, NEW r \in ApplyCalls, I!ReadPatch(r) PROVE IntegrationInv'
<1>1. /\ UNCHANGED <<head, tree, patch, receipt, turn, finalDiff, seal, approved, applied, moved>>
      /\ req[r].step = "patch"
  BY DEF I!ReadPatch, I!At, I!mainVars, I!candidateVars, I!sealVars
<1>2. IntegrationTyped /\ CallKnown(r) /\ ResultKnown(r) /\ req[r] \in Request /\ Busy(r)
      /\ r \notin applied /\ ~Settled(r) /\ patch \in Versions
  BY <1>1, ApplyAssumption DEF IntegrationInv, IntegrationTyped, CallKnown, Busy, BusySteps, Settled
<1>3. CASE I!Return(r, "failed") \/ I!Return(r, "error")
  BY <1>1, <1>2, <1>3, GivesUp
<1>4. CASE req' = [req EXCEPT ![r].step = "verify", ![r].patch = patch] /\ lock' = lock
  <2> DEFINE now == [req[r] EXCEPT !.step = "verify", !.patch = patch]
  <2>1. now \in Request /\ now.step = "verify" /\ now.result = req[r].result /\ now.patch = patch
    BY <1>2 DEF Request, BusySteps
  <2>2. req' = [req EXCEPT ![r] = now]
    BY <1>2, <1>4 DEF IntegrationTyped
  <2> HIDE DEF now
  <2>3. /\ req' \in [ApplyCalls -> Request] /\ req'[r].step = "verify" /\ req'[r].patch = patch
        /\ req'[r].result = req[r].result /\ \A s \in ApplyCalls \ {r} : req'[s] = req[s]
    BY <1>2, <2>1, <2>2, RequestSet
  <2>4. CallKnown(r)' /\ ResultKnown(r)' /\ ~Settled(r)'
    BY <1>1, <1>2, <1>4, <2>3, ApplyAssumption DEF CallKnown, ResultKnown, Busy, BusySteps, Settled
  <2> QED
    BY <1>1, <1>2, <1>4, <2>3, <2>4, CallKeeps
<1> QED
  BY <1>3, <1>4 DEF I!ReadPatch

LEMMA VerifyKeeps ==
    ASSUME IntegrationInv, NEW r \in ApplyCalls, I!Verify(r) PROVE IntegrationInv'
<1>1. /\ UNCHANGED <<head, tree, receipt, turn, finalDiff, seal, approved, applied>>
      /\ req[r].step = "verify" /\ moved' = moved \ {r} /\ patch' \in {patch, req[r].patch}
  BY DEF I!Verify, I!At, I!mainVars, I!sealVars
<1>2. IntegrationTyped /\ CallKnown(r) /\ ResultKnown(r) /\ req[r] \in Request /\ Busy(r)
      /\ r \notin applied /\ ~Settled(r) /\ req[r].patch \in Versions /\ req[r].result = None
  BY <1>1, ApplyAssumption DEF IntegrationInv, IntegrationTyped, CallKnown, Busy, BusySteps, Settled
<1>3. req' \in [ApplyCalls -> Request] => IntegrationTyped'
  BY <1>1, <1>2 DEF IntegrationTyped
<1>4. \A s \in ApplyCalls \ {r} : s \in moved' <=> s \in moved
  BY <1>1
<1>5. PICK verdict \in I!Verdicts(r) :
          CASE verdict = "passed" ->
                   \/ I!Go(r, "gate") /\ UNCHANGED <<lock, troubles>>
                   \/ I!Trouble("fault") /\ I!Return(r, "error")
            [] I!AlreadyApplied(req[r].patch, verdict) -> I!Answer(r, "already")
            [] OTHER -> I!Answer(r, "failed")
  BY DEF I!Verify
<1>6. CASE verdict = "passed" /\ I!Go(r, "gate") /\ lock' = lock
  <2>1. "gate" \in BusySteps
    BY DEF BusySteps
  <2>2. /\ req' \in [ApplyCalls -> Request] /\ req'[r].step = "gate"
        /\ req'[r].result = req[r].result /\ req'[r].receipt = req[r].receipt
        /\ req'[r].patch = req[r].patch /\ \A s \in ApplyCalls \ {r} : req'[s] = req[s]
    BY <1>2, <1>6, <2>1, RequestGoes
  <2>3. Fenced(r)
    BY <1>6 DEF I!Verdicts, Fenced
  <2>4. Fenced(r)'
    BY <1>1, <2>2, <2>3, FenceStays
  <2>5. CallKnown(r)' /\ ResultKnown(r)' /\ ~Settled(r)' /\ Busy(r)'
    BY <1>1, <1>2, <1>6, <2>2, <2>4, ApplyAssumption
       DEF CallKnown, ResultKnown, Busy, BusySteps, Settled
  <2> QED
    BY <1>1, <1>2, <1>3, <1>4, <1>6, <2>2, <2>5, OthersKeep
<1>7. CASE I!Return(r, "already") /\ I!AlreadyApplied(req[r].patch, verdict)
  <2>1. "already" \in Results
    BY DEF Results
  <2>2. /\ req' \in [ApplyCalls -> Request] /\ req'[r].step = "returned"
        /\ req'[r].result = "already" /\ req'[r].patch = req[r].patch
        /\ \A s \in ApplyCalls \ {r} : req'[s] = req[s]
    BY <1>2, <1>7, <2>1, RequestReturns DEF I!Return
  <2>3. Landed(r)'
    BY <1>1, <1>7, <2>2 DEF I!AlreadyApplied, Landed, I!ReverseApplies, I!EditsOf
  <2>4. CallKnown(r)' /\ ResultKnown(r)' /\ ~Busy(r)'
    BY <1>1, <1>2, <2>2, <2>3, ApplyAssumption DEF CallKnown, ResultKnown, Busy, BusySteps, Settled
  <2> QED
    BY <1>1, <1>2, <1>3, <1>4, <2>2, <2>4, OthersKeep
<1>8. ASSUME NEW result \in {"failed", "error"}, I!Return(r, result) PROVE IntegrationInv'
  <2>1. result \in Results
    BY DEF Results
  <2>2. /\ req' \in [ApplyCalls -> Request] /\ req'[r].step = "returned" /\ req'[r].result = result
        /\ \A s \in ApplyCalls \ {r} : req'[s] = req[s]
    BY <1>2, <1>8, <2>1, RequestReturns DEF I!Return
  <2>3. CallKnown(r)' /\ ResultKnown(r)' /\ ~Busy(r)' /\ ~Settled(r)'
    BY <1>1, <1>2, <2>2, ApplyAssumption DEF CallKnown, ResultKnown, Busy, BusySteps, Settled
  <2> QED
    BY <1>1, <1>2, <1>3, <1>4, <2>2, <2>3, OthersKeep
<1>9. CASE verdict = "passed"
  <2>1. \/ I!Go(r, "gate") /\ lock' = lock
        \/ I!Return(r, "error")
    BY <1>5, <1>9 DEF I!AlreadyApplied
  <2> QED
    BY <1>6, <1>8, <1>9, <2>1
<1>10. CASE verdict # "passed" /\ I!AlreadyApplied(req[r].patch, verdict)
  BY <1>5, <1>7, <1>8, <1>10 DEF I!Answer
<1>11. CASE verdict # "passed" /\ ~I!AlreadyApplied(req[r].patch, verdict)
  BY <1>5, <1>8, <1>11 DEF I!Answer
<1> QED
  BY <1>9, <1>10, <1>11

LEMMA GateKeeps ==
    ASSUME IntegrationInv, NEW r \in ApplyCalls, I!Gate(r) PROVE IntegrationInv'
<1>1. /\ UNCHANGED <<head, tree, patch, receipt, turn, finalDiff, seal, approved, applied, moved>>
      /\ req[r].step = "gate"
  BY DEF I!Gate, I!At, I!mainVars, I!candidateVars, I!sealVars
<1>2. IntegrationTyped /\ CallKnown(r) /\ ResultKnown(r) /\ Busy(r) /\ r \notin applied
      /\ req[r].result = None /\ ~Settled(r) /\ req[r].patch \in Versions
      /\ (r \in moved \/ Fenced(r))
  BY <1>1, ApplyAssumption DEF IntegrationInv, IntegrationTyped, CallKnown, Busy, BusySteps, Settled
<1>3. CASE I!Answer(r, "awaiting_approval") \/ I!Return(r, "error")
  BY <1>1, <1>2, <1>3, GivesUp, AnswersFailure
<1>4. CASE Allowed(r) /\ I!Go(r, "capture") /\ lock' = lock
  <2>1. "capture" \in BusySteps
    BY DEF BusySteps
  <2>2. /\ req' \in [ApplyCalls -> Request] /\ req'[r].step = "capture"
        /\ req'[r].result = req[r].result /\ req'[r].receipt = req[r].receipt
        /\ req'[r].patch = req[r].patch /\ \A s \in ApplyCalls \ {r} : req'[s] = req[s]
    BY <1>2, <1>4, <2>1, RequestGoes
  <2>3. Allowed(r)' /\ (r \in moved' \/ Fenced(r)')
    BY <1>1, <1>2, <1>4, <2>2, AllowanceStays, FenceStays
  <2>4. CallKnown(r)' /\ ResultKnown(r)' /\ ~Settled(r)'
    BY <1>1, <1>2, <1>4, <2>2, <2>3, ApplyAssumption
       DEF CallKnown, ResultKnown, Busy, BusySteps, Settled
  <2> QED
    BY <1>1, <1>2, <1>4, <2>2, <2>4, CallKeeps
<1> QED
  BY <1>3, <1>4 DEF I!Gate, Allowed

LEMMA CaptureKeeps ==
    ASSUME IntegrationInv, NEW r \in ApplyCalls, I!Capture(r) PROVE IntegrationInv'
<1>1. /\ UNCHANGED <<head, tree, patch, receipt, turn, finalDiff, seal, approved, applied, moved>>
      /\ req[r].step = "capture"
  BY DEF I!Capture, I!At, I!mainVars, I!candidateVars, I!sealVars
<1>2. IntegrationTyped /\ CallKnown(r) /\ ResultKnown(r) /\ Busy(r) /\ r \notin applied
      /\ req[r].result = None /\ req[r] \in Request /\ ~Settled(r) /\ req[r].patch \in Versions
      /\ (r \in moved \/ Fenced(r)) /\ Allowed(r)
  BY <1>1, ApplyAssumption DEF IntegrationInv, IntegrationTyped, CallKnown, Busy, BusySteps, Settled
<1>3. CASE I!Answer(r, "failed") \/ I!Return(r, "io_error")
  BY <1>1, <1>2, <1>3, GivesUp, AnswersFailure
<1>4. CASE /\ req' = [req EXCEPT ![r].step = "apply", ![r].rollback = I!On(tree, I!Files(r))]
           /\ lock' = lock
  <2> DEFINE rollback == I!On(tree, I!Files(r))
             now == [req[r] EXCEPT !.step = "apply", !.rollback = rollback]
  <2>1. rollback \in SUBSET Edits
    BY <1>2 DEF I!On, IntegrationTyped
  <2>2. req' = [req EXCEPT ![r].step = "apply", ![r].rollback = rollback]
    BY <1>4
  <2> HIDE DEF rollback
  <2>3. /\ now \in Request /\ now.step = "apply" /\ now.result = req[r].result
        /\ now.receipt = req[r].receipt /\ now.patch = req[r].patch /\ now.rollback = rollback
    BY <1>2, <2>1 DEF Request, BusySteps
  <2>4. req' = [req EXCEPT ![r] = now]
    BY <1>2, <2>2 DEF IntegrationTyped
  <2> HIDE DEF now
  <2>5. /\ req' \in [ApplyCalls -> Request] /\ req'[r].step = "apply"
        /\ req'[r].result = req[r].result /\ req'[r].receipt = req[r].receipt
        /\ req'[r].patch = req[r].patch /\ req'[r].rollback = rollback
        /\ \A s \in ApplyCalls \ {r} : req'[s] = req[s]
    BY <1>2, <2>3, <2>4, RequestSet
  <2>6. Allowed(r)' /\ (r \in moved' \/ Fenced(r)')
    BY <1>1, <1>2, <2>5, AllowanceStays, FenceStays
  <2>7. CallKnown(r)' /\ ResultKnown(r)' /\ ~Settled(r)'
    BY <1>1, <1>2, <1>4, <2>1, <2>5, <2>6, ApplyAssumption
       DEF CallKnown, ResultKnown, Busy, BusySteps, Settled
  <2>8. req'[r].rollback = I!On(tree, I!Files(r))'
    BY <1>1, <2>5 DEF rollback, I!On, I!Files
  <2> QED
    BY <1>1, <1>2, <1>4, <2>5, <2>7, <2>8, CallKeeps
<1> QED
  BY <1>3, <1>4 DEF I!Capture

LEMMA GitApplyKeeps ==
    ASSUME IntegrationInv, NEW r \in ApplyCalls, I!GitApply(r) PROVE IntegrationInv'
<1>1. /\ UNCHANGED <<head, patch, receipt, turn, finalDiff, seal, approved, moved>>
      /\ req[r].step = "apply"
  BY DEF I!GitApply, I!At, I!candidateVars, I!sealVars
<1>2. IntegrationTyped /\ CallKnown(r) /\ ResultKnown(r) /\ Busy(r) /\ r \notin applied
      /\ req[r].result = None /\ req[r] \in Request /\ ~Settled(r) /\ req[r].patch \in Versions
      /\ req[r].rollback \in SUBSET Edits
  BY <1>1, ApplyAssumption DEF IntegrationInv, IntegrationTyped, CallKnown, Busy, BusySteps, Settled
<1>3. CASE I!Answer(r, "failed") /\ UNCHANGED <<tree, applied>>
  BY <1>1, <1>2, <1>3, AnswersFailure
<1>4. CASE I!Return(r, "io_error") /\ UNCHANGED <<tree, applied>>
  BY <1>1, <1>2, <1>4, GivesUp
<1>5. ASSUME tree' = tree \cup I!EditsOf(req[r].patch), applied' = applied \cup {r}
      PROVE  /\ req' \in [ApplyCalls -> Request] => IntegrationTyped'
             /\ tree \subseteq tree'
             /\ \A s \in ApplyCalls \ {r} : s \in applied' <=> s \in applied
             /\ (\A s \in ApplyCalls \ {r} : req'[s] = req[s]) =>
                    \A s \in ApplyCalls \ {r} : Settled(s) => Landed(s)'
  <2>1. I!EditsOf(req[r].patch) \subseteq Edits
    BY <1>2, ApplyAssumption DEF I!EditsOf, Edits
  <2>2. req' \in [ApplyCalls -> Request] => IntegrationTyped'
    BY <1>1, <1>2, <1>5, <2>1 DEF IntegrationTyped
  <2>3. ASSUME NEW s \in ApplyCalls \ {r}, req'[s] = req[s], Settled(s) PROVE Landed(s)'
    BY <1>1, <1>5, <2>3, LandedStays DEF IntegrationInv, ResultKnown
  <2> QED
    BY <1>5, <2>2, <2>3
<1>6. CASE /\ tree' = tree \cup I!EditsOf(req[r].patch) /\ applied' = applied \cup {r}
           /\ I!Go(r, "diff") /\ lock' = lock
  <2>1. "diff" \in BusySteps
    BY DEF BusySteps
  <2>2. /\ req' \in [ApplyCalls -> Request] /\ req'[r].step = "diff"
        /\ req'[r].result = req[r].result /\ req'[r].patch = req[r].patch
        /\ req'[r].receipt = req[r].receipt /\ req'[r].rollback = req[r].rollback
        /\ \A s \in ApplyCalls \ {r} : req'[s] = req[s]
    BY <1>2, <1>6, <2>1, RequestGoes
  <2>3. Landed(r)'
    BY <1>6, <2>2 DEF Landed, I!ReverseApplies, I!EditsOf
  <2>4. CallKnown(r)' /\ ResultKnown(r)' /\ ~Settled(r)'
    BY <1>1, <1>2, <1>6, <2>2, <2>3, ApplyAssumption
       DEF CallKnown, ResultKnown, Busy, BusySteps, Settled
  <2>5. ASSUME NEW s \in ApplyCalls \ {r}, Settled(s) PROVE Spares(r, s)'
    BY <1>1, <2>2, <2>5, SparesStays DEF IntegrationInv, Apart
  <2> QED
    BY <1>1, <1>2, <1>5, <1>6, <2>2, <2>4, <2>5, OthersKeep
<1>7. CASE /\ tree' = tree \cup I!EditsOf(req[r].patch) /\ applied' = applied \cup {r}
           /\ I!Return(r, "io_error")
  <2>1. "io_error" \in Results
    BY DEF Results
  <2>2. /\ req' \in [ApplyCalls -> Request] /\ req'[r].step = "returned"
        /\ req'[r].result = "io_error" /\ \A s \in ApplyCalls \ {r} : req'[s] = req[s]
    BY <1>2, <1>7, <2>1, RequestReturns DEF I!Return
  <2>3. CallKnown(r)' /\ ResultKnown(r)' /\ ~Busy(r)' /\ ~Settled(r)'
    BY <1>1, <1>2, <1>7, <2>2, ApplyAssumption DEF CallKnown, ResultKnown, Busy, BusySteps, Settled
  <2> QED
    BY <1>1, <1>2, <1>5, <1>7, <2>2, <2>3, OthersKeep
<1> QED
  BY <1>3, <1>4, <1>6, <1>7 DEF I!GitApply

(* However much of a rollback is done, it spares the patches that finished  *)
(* calls report; and it takes its own patch away, if all of it is done and  *)
(* the receipt is the patch's own.                                          *)
LEMMA RestoreSpares ==
    ASSUME IntegrationInv, NEW r \in ApplyCalls, req[r].step = "diff",
           NEW paths \in SUBSET I!Files(r), I!Restore(r, paths),
           req' \in [ApplyCalls -> Request], \A s \in ApplyCalls \ {r} : req'[s] = req[s],
           UNCHANGED <<head, patch, receipt, turn, finalDiff, seal, moved>>
    PROVE  /\ IntegrationTyped'
           /\ \A s \in ApplyCalls \ {r} : /\ Settled(s) => Landed(s)'
                                          /\ s \in applied' <=> s \in applied
           /\ paths = I!Files(r) => r \notin applied' \/ I!Mixed(r)
<1>1. IntegrationTyped /\ req[r].rollback \in SUBSET Edits
  BY DEF IntegrationInv, CallKnown
<1>2. tree' = (tree \ I!On(tree, paths)) \cup I!On(req[r].rollback, paths)
  BY DEF I!Restore
<1>3. applied' \in {applied, applied \ {r}}
  BY DEF I!Restore
<1>4. tree' \in SUBSET Edits
  BY <1>1, <1>2 DEF IntegrationTyped, I!On
<1>5. IntegrationTyped'
  BY <1>1, <1>3, <1>4 DEF IntegrationTyped
<1>6. ASSUME NEW s \in ApplyCalls \ {r}, Settled(s) PROVE Landed(s)'
  <2>1. Landed(s) /\ Spares(r, s) /\ req'[s] = req[s]
    BY <1>6 DEF IntegrationInv, ResultKnown, Apart
  <2>2. CASE s \in moved
    BY <2>2 DEF Landed
  <2>3. CASE s \notin moved
    <3>1. /\ I!EditsOf(req[s].patch) \subseteq tree
          /\ I!On(I!EditsOf(req[s].patch), I!Files(r)) \subseteq req[r].rollback
      BY <2>1, <2>3 DEF Landed, Spares, I!ReverseApplies
    <3>2. ASSUME NEW e \in I!EditsOf(req[s].patch) PROVE e \in tree'
      <4>1. CASE e[1] \in paths
        <5>1. e \in I!On(I!EditsOf(req[s].patch), I!Files(r))
          BY <4>1 DEF I!On
        <5> QED
          BY <1>2, <3>1, <4>1, <5>1 DEF I!On
      <4>2. CASE e[1] \notin paths
        BY <1>2, <3>1, <4>2 DEF I!On
      <4> QED
        BY <4>1, <4>2
    <3> QED
      BY <2>1, <3>2 DEF Landed, I!ReverseApplies, I!EditsOf
  <2> QED
    BY <2>2, <2>3
<1>7. paths = I!Files(r) => r \notin applied' \/ I!Mixed(r)
  BY DEF I!Restore, I!Mixed, I!Files
<1> QED
  BY <1>3, <1>5, <1>6, <1>7

LEMMA CaptureDiffKeeps ==
    ASSUME IntegrationInv, NEW r \in ApplyCalls, I!CaptureDiff(r) PROVE IntegrationInv'
<1>1. /\ UNCHANGED <<head, patch, receipt, turn, finalDiff, seal, approved, moved>>
      /\ req[r].step = "diff"
  BY DEF I!CaptureDiff, I!At, I!candidateVars, I!sealVars
<1>2. IntegrationTyped /\ CallKnown(r) /\ ResultKnown(r) /\ Busy(r) /\ r \in applied /\ Landed(r)
      /\ req[r].result = None /\ req[r] \in Request /\ ~Settled(r)
  BY <1>1, ApplyAssumption DEF IntegrationInv, IntegrationTyped, CallKnown, Busy, BusySteps, Settled
<1>3. CASE I!Go(r, "finalDiff") /\ UNCHANGED <<lock, tree, applied>>
  <2>1. "finalDiff" \in BusySteps
    BY DEF BusySteps
  <2>2. /\ req' \in [ApplyCalls -> Request] /\ req'[r].step = "finalDiff"
        /\ req'[r].result = req[r].result /\ req'[r].patch = req[r].patch
        /\ \A s \in ApplyCalls \ {r} : req'[s] = req[s]
    BY <1>2, <1>3, <2>1, RequestGoes
  <2>3. Landed(r)'
    BY <1>1, <1>2, <1>3, <2>2, LandedStays
  <2>4. CallKnown(r)' /\ ResultKnown(r)' /\ ~Settled(r)'
    BY <1>1, <1>2, <1>3, <2>2, <2>3, ApplyAssumption
       DEF CallKnown, ResultKnown, Busy, BusySteps, Settled
  <2> QED
    BY <1>1, <1>2, <1>3, <2>2, <2>4, CallKeeps
<1>4. ASSUME NEW paths \in SUBSET I!Files(r), I!Restore(r, paths),
             NEW result \in {"failed", "error", "io_error"}, I!Return(r, result),
             result = "failed" => paths = I!Files(r)
      PROVE  IntegrationInv'
  <2>1. result \in Results
    BY DEF Results
  <2>2. /\ req' \in [ApplyCalls -> Request] /\ req'[r].step = "returned" /\ req'[r].result = result
        /\ req'[r].receipt = req[r].receipt /\ req'[r].patch = req[r].patch
        /\ \A s \in ApplyCalls \ {r} : req'[s] = req[s]
    BY <1>2, <1>4, <2>1, RequestReturns DEF I!Return
  <2>3. /\ IntegrationTyped'
        /\ \A s \in ApplyCalls \ {r} : /\ Settled(s) => Landed(s)'
                                       /\ s \in applied' <=> s \in applied
        /\ paths = I!Files(r) => r \notin applied' \/ I!Mixed(r)
    BY <1>1, <1>4, <2>2, RestoreSpares
  <2>4. result = "failed" => r \notin applied' \/ I!Mixed(r)'
    BY <1>4, <2>2, <2>3, MixedStays
  <2>5. CallKnown(r)' /\ ResultKnown(r)' /\ ~Busy(r)' /\ ~Settled(r)'
    BY <1>1, <1>2, <2>2, <2>4, ApplyAssumption DEF CallKnown, ResultKnown, Busy, BusySteps, Settled
  <2> QED
    BY <1>1, <1>2, <2>2, <2>3, <2>5, OthersKeep
<1>5. CASE I!Restore(r, I!Files(r)) /\ (I!Answer(r, "failed") \/ I!Return(r, "failed"))
  <2>1. I!Return(r, "failed") \/ I!Return(r, "error")
    BY <1>5 DEF I!Answer
  <2> QED
    BY <1>4, <1>5, <2>1
<1>6. CASE \E paths \in (SUBSET I!Files(r)) \ {I!Files(r)} :
               I!Restore(r, paths) /\ I!Return(r, "io_error")
  BY <1>4, <1>6
<1> QED
  BY <1>3, <1>5, <1>6 DEF I!CaptureDiff

(* Final diff, seal and receipt, or the error of one of them.               *)
LEMMA EvidenceKeeps ==
    ASSUME IntegrationInv, NEW r \in ApplyCalls,
           I!WriteFinalDiff(r) \/ I!WriteSeal(r) \/ I!WriteReceipt(r)
    PROVE  IntegrationInv'
<1>1. /\ UNCHANGED <<head, tree, patch, receipt, turn, approved, applied, moved>>
      /\ finalDiff => finalDiff'
      /\ seal => seal'
      /\ req[r].step \in {"finalDiff", "seal", "receipt"}
  BY DEF I!WriteFinalDiff, I!WriteSeal, I!WriteReceipt, I!At, I!mainVars, I!candidateVars, I!sealVars
<1>2. IntegrationTyped /\ CallKnown(r) /\ ResultKnown(r) /\ Busy(r) /\ r \in applied /\ Landed(r)
      /\ req[r].result = None /\ req[r] \in Request /\ ~Settled(r)
  BY <1>1, ApplyAssumption DEF IntegrationInv, IntegrationTyped, CallKnown, Busy, BusySteps, Settled
<1>3. seal' => finalDiff'
  BY <1>1, <1>2 DEF I!WriteFinalDiff, I!WriteSeal, I!WriteReceipt, I!At, I!sealVars, CallKnown,
                    IntegrationTyped
<1>4. req' \in [ApplyCalls -> Request] => IntegrationTyped'
  BY <1>1, <1>2, <1>3 DEF IntegrationTyped
<1>5. req'[r].patch = req[r].patch => Landed(r)'
  BY <1>1, <1>2, LandedStays
<1>6. ASSUME NEW step \in {"seal", "receipt"}, I!Go(r, step), lock' = lock,
             finalDiff', step = "receipt" => seal'
      PROVE  IntegrationInv'
  <2>1. step \in BusySteps
    BY DEF BusySteps
  <2>2. /\ req' \in [ApplyCalls -> Request] /\ req'[r].step = step
        /\ req'[r].result = req[r].result /\ req'[r].patch = req[r].patch
        /\ \A s \in ApplyCalls \ {r} : req'[s] = req[s]
    BY <1>2, <1>6, <2>1, RequestGoes
  <2>3. CallKnown(r)' /\ ResultKnown(r)' /\ ~Settled(r)'
    BY <1>1, <1>2, <1>5, <1>6, <2>2, ApplyAssumption
       DEF CallKnown, ResultKnown, Busy, BusySteps, Settled
  <2> QED
    BY <1>1, <1>2, <1>4, <1>6, <2>2, <2>3, OthersKeep
<1>7. ASSUME NEW result \in {"integrated", "error"}, I!Return(r, result),
             result = "integrated" => finalDiff /\ seal
      PROVE  IntegrationInv'
  <2>1. result \in Results
    BY DEF Results
  <2>2. /\ req' \in [ApplyCalls -> Request] /\ req'[r].step = "returned" /\ req'[r].result = result
        /\ req'[r].patch = req[r].patch /\ \A s \in ApplyCalls \ {r} : req'[s] = req[s]
    BY <1>2, <1>7, <2>1, RequestReturns DEF I!Return
  <2>3. CallKnown(r)' /\ ResultKnown(r)' /\ ~Busy(r)'
    BY <1>1, <1>2, <1>5, <1>7, <2>2, ApplyAssumption
       DEF CallKnown, ResultKnown, Busy, BusySteps, Settled
  <2> QED
    BY <1>1, <1>2, <1>4, <2>2, <2>3, OthersKeep
<1>8. CASE I!WriteFinalDiff(r)
  BY <1>6, <1>7, <1>8 DEF I!WriteFinalDiff
<1>9. CASE I!WriteSeal(r)
  <2>1. finalDiff /\ finalDiff' = finalDiff
    BY <1>2, <1>9 DEF I!WriteSeal, I!At, CallKnown
  <2> QED
    BY <1>6, <1>7, <1>9, <2>1 DEF I!WriteSeal
<1>10. CASE I!WriteReceipt(r)
  <2>1. finalDiff /\ seal
    BY <1>2, <1>10 DEF I!WriteReceipt, I!At, CallKnown
  <2> QED
    BY <1>7, <1>10, <2>1 DEF I!WriteReceipt
<1> QED
  BY <1>8, <1>9, <1>10

(* The turn and the approval touch no call and no file of the workspace.    *)
LEMMA TurnKeeps ==
    ASSUME IntegrationInv, IntegrationTyped', approved => approved',
           patch \in Versions => patch' \in Versions,
           UNCHANGED <<head, tree, lock, finalDiff, seal, req, applied, moved>>
    PROVE  IntegrationInv'
<1>1. ASSUME NEW r \in ApplyCalls PROVE CallKnown(r)' /\ ResultKnown(r)'
  <2>1. (Allowed(r) => Allowed(r)') /\ (Fenced(r)' <=> Fenced(r)) /\ (I!Mixed(r)' <=> I!Mixed(r))
        /\ (Landed(r) => Landed(r)')
    BY AllowanceStays, FenceStays, MixedStays, LandedStays
  <2>2. CallKnown(r) /\ ResultKnown(r)
    BY DEF IntegrationInv
  <2> QED
    BY <2>1, <2>2 DEF CallKnown, ResultKnown, Busy, Settled
<1>2. ASSUME NEW r \in ApplyCalls, NEW s \in ApplyCalls, r # s PROVE Apart(r, s)'
  <2>1. Apart(r, s) /\ (Spares(r, s) => Spares(r, s)')
    BY <1>2, SparesStays DEF IntegrationInv
  <2> QED
    BY <2>1 DEF Apart, Busy, Settled
<1> QED
  BY <1>1, <1>2 DEF IntegrationInv

(* The user may do anything to the files, and has then moved.               *)
LEMMA UserKeeps ==
    ASSUME IntegrationInv, I!UserMoves PROVE IntegrationInv'
<1>1. /\ UNCHANGED <<patch, receipt, turn, lock, finalDiff, seal, approved, req, applied>>
      /\ moved' = ApplyCalls
  BY DEF I!UserMoves, I!candidateVars, I!sealVars
<1>2. head' \in SUBSET Edits /\ tree' \in SUBSET Edits
  BY DEF IntegrationInv, IntegrationTyped, I!UserMoves, I!UserEdits, I!UserCommits,
         I!UserReverts, Edits
<1>3. IntegrationTyped'
  BY <1>1, <1>2 DEF IntegrationInv, IntegrationTyped
<1>4. ASSUME NEW r \in ApplyCalls PROVE CallKnown(r)' /\ ResultKnown(r)'
  <2>1. (Allowed(r) => Allowed(r)') /\ (I!Mixed(r)' <=> I!Mixed(r)) /\ Landed(r)'
    BY <1>1, AllowanceStays, MixedStays DEF Landed
  <2>2. CallKnown(r) /\ ResultKnown(r)
    BY DEF IntegrationInv
  <2> QED
    BY <1>1, <2>1, <2>2 DEF CallKnown, ResultKnown, Busy, Settled
<1>5. \A r, s \in ApplyCalls : r # s => Apart(r, s)'
  BY <1>1 DEF IntegrationInv, Apart, Spares, Busy, Settled
<1> QED
  BY <1>3, <1>4, <1>5 DEF IntegrationInv

LEMMA DeathKeeps ==
    ASSUME IntegrationInv, I!Crash PROVE IntegrationInv'
<1>1. UNCHANGED <<head, tree, patch, receipt, lock, finalDiff, seal, approved, applied, moved>>
      /\ turn' = [turn EXCEPT !.step = "idle"]
  BY DEF I!Crash, I!mainVars, I!sealVars
<1>2. IntegrationTyped
  BY DEF IntegrationInv
<1>3. \A r \in ApplyCalls :
          /\ req'[r] \in Request
          /\ req'[r].patch = req[r].patch /\ req'[r].result = req[r].result
          /\ req'[r].receipt = req[r].receipt
          /\ ~Busy(r)' /\ req'[r].step \in {"new", "returned", "dead"}
          /\ req'[r].step = req[r].step \/ (Busy(r) /\ req'[r].step = "dead") \/ (req[r].step = "dead" /\ req'[r].step = "dead")
  BY <1>2 DEF I!Crash, IntegrationTyped, Request, Busy, BusySteps
<1>4. IntegrationTyped'
  BY <1>1, <1>2, <1>3 DEF IntegrationTyped, I!Crash
<1>5. ASSUME NEW r \in ApplyCalls PROVE CallKnown(r)' /\ ResultKnown(r)'
  <2>1. CallKnown(r) /\ ResultKnown(r)
    BY DEF IntegrationInv
  <2>2. Busy(r) => req[r].step # "returned" /\ req[r].step # "new"
    BY DEF Busy, BusySteps
  <2>3. (I!Mixed(r)' <=> I!Mixed(r)) /\ (Landed(r) => Landed(r)')
    BY <1>1, <1>3, MixedStays, LandedStays
  <2> QED
    BY <1>1, <1>3, <2>1, <2>2, <2>3 DEF CallKnown, ResultKnown, Settled
<1>6. \A r, s \in ApplyCalls : r # s => Apart(r, s)'
  BY <1>3 DEF Apart
<1> QED
  BY <1>4, <1>5, <1>6 DEF IntegrationInv

LEMMA IntegrationInductive == IntegrationInv /\ [I!Next]_iVars => IntegrationInv'
<1> SUFFICES ASSUME IntegrationInv, [I!Next]_iVars PROVE IntegrationInv'
  OBVIOUS
<1>1. IntegrationTyped
  BY DEF IntegrationInv
<1>2. CASE I!PrepareIsolation
  <2>1. IntegrationTyped'
    BY <1>1, <1>2 DEF I!PrepareIsolation, I!mainVars, I!sealVars, IntegrationTyped
  <2> QED
    BY <1>2, <2>1, TurnKeeps DEF I!PrepareIsolation, I!mainVars, I!sealVars
<1>3. CASE I!WriteCandidatePatch
  <2>1. IntegrationTyped' /\ patch' \in Versions
    BY <1>1, <1>3 DEF I!WriteCandidatePatch, I!mainVars, I!sealVars, IntegrationTyped
  <2> QED
    BY <1>3, <2>1, TurnKeeps DEF I!WriteCandidatePatch, I!mainVars, I!sealVars
<1>4. CASE I!WriteCandidateReceipt
  <2>1. IntegrationTyped'
    BY <1>1, <1>4 DEF I!WriteCandidateReceipt, I!mainVars, I!sealVars, IntegrationTyped, Candidate
  <2> QED
    BY <1>4, <2>1, TurnKeeps DEF I!WriteCandidateReceipt, I!mainVars, I!sealVars
<1>5. CASE I!Approve
  <2>1. IntegrationTyped'
    BY <1>1, <1>5 DEF I!Approve, I!mainVars, I!candidateVars, I!sealVars, IntegrationTyped
  <2> QED
    BY <1>5, <2>1, TurnKeeps DEF I!Approve, I!mainVars, I!candidateVars, I!sealVars
<1>6. ASSUME NEW r \in ApplyCalls, I!Apply(r) PROVE IntegrationInv'
  BY <1>6, AcquireKeeps, ReadKeeps, ReadPatchKeeps, VerifyKeeps, GateKeeps, CaptureKeeps,
     GitApplyKeeps, CaptureDiffKeeps, EvidenceKeeps DEF I!Apply
<1>7. CASE UNCHANGED iVars
  <2>1. UNCHANGED <<head, tree, patch, receipt, turn, lock, finalDiff, seal, approved, req, applied, moved>>
    BY <1>7 DEF iVars
  <2>2. IntegrationTyped'
    BY <1>1, <2>1 DEF IntegrationTyped
  <2> QED
    BY <2>1, <2>2, TurnKeeps
<1> QED
  BY <1>2, <1>3, <1>4, <1>5, <1>6, <1>7, UserKeeps, DeathKeeps DEF I!Next

LEMMA IntegrationHolds == ServicesSpec => []IntegrationInv
<1>1. ServicesInit => IntegrationInv
  BY ApplyBegins DEF ServicesInit
<1>2. IntegrationInv /\ [ServicesNext]_allVars => IntegrationInv'
  <2>1. [ServicesNext]_allVars => [I!Next]_iVars
    BY DEF ServicesNext, InPush, InWorkspace, InIntegration, InAgent, InLive, InTerminal,
           InImport, InRevision, allVars, iVars
  <2> QED
    BY <2>1, IntegrationInductive
<1> QED
  BY <1>1, <1>2, PTL DEF ServicesSpec

(* What a call says it did to the main workspace is what it did, whatever   *)
(* git apply and the rollback do when they fail: a failure it gives a       *)
(* reason of its own leaves none of its patch, unless the patch was of      *)
(* another turn execution than the receipt whose files were rolled back.    *)
THEOREM ReceiptTellsTruthHolds == ServicesSpec => []ReceiptTellsTruth
<1>1. IntegrationInv => ReceiptTellsTruth
  BY DEF IntegrationInv, ResultKnown, Settled, Landed, ReceiptTellsTruth, I!ReceiptTellsTruth
<1> QED
  BY <1>1, IntegrationHolds, PTL

(* A patch goes in only with the approval that the policy asks for, given   *)
(* the files of the receipt read first and the text of the patch read       *)
(* later; and, unless the user has moved since the verification, while      *)
(* those files are clean and what the candidate was made from.              *)
THEOREM AppliedAsVerifiedHolds == ServicesSpec => AppliedAsVerified
<1> DEFINE Verified ==
        \A r \in ApplyCalls :
            r \in applied' \ applied =>
                /\ I!NeedsApproval(I!Files(r), req[r].patch) => approved
                /\ \/ r \in moved
                   \/ /\ ~I!Dirty(I!Files(r))
                      /\ I!On(head, I!Files(r)) = I!On(req[r].receipt.base, I!Files(r))
<1>1. IntegrationInv /\ [ServicesNext]_allVars => [Verified]_I!vars
  <2> SUFFICES ASSUME IntegrationInv, [I!Next]_iVars PROVE Verified
    BY DEF ServicesNext, InPush, InWorkspace, InIntegration, InAgent, InLive, InTerminal,
           InImport, InRevision, allVars, iVars
  <2>1. ASSUME NEW r \in ApplyCalls, r \in applied' \ applied
        PROVE  Allowed(r) /\ (r \in moved \/ Fenced(r))
    <3>1. ASSUME NEW s \in ApplyCalls, I!Apply(s) PROVE I!GitApply(r)
      <4>1. CASE I!GitApply(s)
        <5>1. r = s
          BY <2>1, <4>1 DEF I!GitApply
        <5> QED
          BY <4>1, <5>1
      <4>2. CASE I!CaptureDiff(s)
        BY <2>1, <4>2 DEF I!CaptureDiff, I!Restore
      <4>3. CASE I!AcquireLock(s) \/ I!ReadCandidate(s) \/ I!ReadPatch(s) \/ I!Verify(s)
                     \/ I!Gate(s) \/ I!Capture(s)
        BY <2>1, <4>3 DEF I!AcquireLock, I!ReadCandidate, I!ReadPatch, I!Verify, I!Gate, I!Capture
      <4>4. CASE I!WriteFinalDiff(s) \/ I!WriteSeal(s) \/ I!WriteReceipt(s)
        BY <2>1, <4>4 DEF I!WriteFinalDiff, I!WriteSeal, I!WriteReceipt
      <4> QED
        BY <3>1, <4>1, <4>2, <4>3, <4>4 DEF I!Apply
    <3>2. ASSUME \/ I!PrepareIsolation \/ I!WriteCandidatePatch \/ I!WriteCandidateReceipt
                 \/ I!Approve \/ I!UserMoves \/ I!Crash \/ UNCHANGED iVars
          PROVE  I!GitApply(r)
      BY <2>1, <3>2 DEF I!PrepareIsolation, I!WriteCandidatePatch, I!WriteCandidateReceipt,
                        I!Approve, I!UserMoves, I!Crash, iVars
    <3>3. I!GitApply(r)
      BY <3>1, <3>2, Zenon DEF I!Next
    <3>4. req[r].step = "apply" /\ CallKnown(r)
      BY <3>3 DEF I!GitApply, I!At, IntegrationInv
    <3> QED
      BY <3>4 DEF CallKnown
  <2> QED
    BY <2>1 DEF Allowed, Fenced
<1> QED
  BY <1>1, IntegrationHolds, PTL DEF ServicesSpec, AppliedAsVerified, I!AppliedAsVerified

(* The types of candidates and apply calls.                                 *)
LEMMA IntegrationIsTyped == IntegrationInv => I!TypeOK
<1> SUFFICES ASSUME IntegrationInv PROVE I!TypeOK
  OBVIOUS
<1>1. \A r \in ApplyCalls : req[r].step \notin {"new", "returned", "dead"} => lock
  <2>1. \A r \in ApplyCalls : req[r].step \in BusySteps \cup {"new", "returned", "dead"}
    BY DEF IntegrationInv, IntegrationTyped, Request
  <2> QED
    BY <2>1 DEF IntegrationInv, CallKnown, Busy
<1>2. receipt # None => receipt.version \in Versions
  BY DEF IntegrationInv, IntegrationTyped, Candidate
<1> QED
  BY <1>1, <1>2 DEF IntegrationInv, IntegrationTyped, Edits, I!TypeOK

------------------------------------------------------------------------------
(* The application's subscription to a run *)

Frames == [kind : {"opened", "event", "failed", "completed"}, sequence : Int]
LiveTyped ==
    /\ events \in Seq(BOOLEAN)
    /\ answer \in [step : {"idle", "open", "replay", "tail", "answered", "cut", "cutWithError"},
                   cursor : Nat, polls : Int, frames : Seq(Frames)]
    /\ client \in [step : {"ready", "waiting", "failed", "ended"}, cursor : Nat]
    /\ savedCursor \in Nat
    /\ timeline \in Seq(Nat)

(* Nobody asks for what is beyond the timeline, which is in the journal.    *)
CursorsBehind ==
    /\ TimelineIsPrefix
    /\ client.cursor <= Len(timeline) /\ savedCursor <= Len(timeline)
    /\ Len(timeline) <= Len(events)

(* A frame of an answer by its place: first it is opened, then come the     *)
(* events after the client's cursor one by one, and what ends it is last.   *)
EventAt(i) ==
    /\ i > 1 /\ answer.frames[i].kind = "event"
    /\ answer.frames[i].sequence = client.cursor + i - 1
    /\ answer.frames[i].sequence <= Len(events)
EndAt(i) ==
    /\ i = Len(answer.frames) /\ answer.step \notin {"open", "replay", "tail"}
    /\ \/ answer.frames[i].kind = "completed"
       \/ answer.frames[i].kind = "failed" /\ answer.frames[i].sequence \in {-1, 0}
FrameKnown(i) == (i = 1 /\ answer.frames[i].kind = "opened") \/ EventAt(i) \/ EndAt(i)

AnswerKnown ==
    /\ client.step = "waiting" <=> answer.step # "idle"
    /\ answer.step \in {"idle", "open", "replay"} => answer.frames = << >>
    /\ answer.step \in {"open", "replay"} => answer.cursor = client.cursor
    /\ answer.step = "tail" => /\ answer.cursor = client.cursor + Len(answer.frames) - 1
                               /\ answer.frames # << >>
                               /\ answer.cursor <= Len(events)
    /\ \A i \in 1..Len(answer.frames) : FrameKnown(i)

LiveInv == LiveTyped /\ CursorsBehind /\ AnswerKnown

LEMMA LiveBegins == L!Init => LiveInv
<1> SUFFICES ASSUME L!Init PROVE LiveInv
  OBVIOUS
<1>1. /\ events = << >> /\ timeline = << >> /\ savedCursor = 0
      /\ client = [step |-> "ready", cursor |-> 0]
      /\ answer = [step |-> "idle", cursor |-> 0, polls |-> 0, frames |-> << >>]
  BY DEF L!Init, L!Idle
<1>2. LiveTyped
  BY <1>1 DEF LiveTyped
<1>3. CursorsBehind
  BY <1>1 DEF CursorsBehind, TimelineIsPrefix, L!TimelineIsPrefix
<1>4. AnswerKnown
  BY <1>1 DEF AnswerKnown
<1> QED
  BY <1>2, <1>3, <1>4 DEF LiveInv

(* The daemon's half: the answer grows by what the journal has after its    *)
(* cursor.                                                                  *)
LEMMA ReplayIs ==
    ASSUME LiveTyped, answer.cursor <= Len(events)
    PROVE  /\ L!ReplaySince(answer.cursor) \in Seq(Frames)
           /\ Len(L!ReplaySince(answer.cursor)) = Len(events) - answer.cursor
           /\ \A i \in 1..(Len(events) - answer.cursor) :
                  L!ReplaySince(answer.cursor)[i] = [kind |-> "event", sequence |-> answer.cursor + i]
<1> DEFINE m == Len(events) - answer.cursor
           g == [i \in 1..m |-> [kind |-> "event", sequence |-> answer.cursor + i]]
<1>1. m \in Nat /\ answer.cursor \in Nat
  BY DEF LiveTyped
<1>2. L!ReplaySince(answer.cursor) = g
  BY DEF L!ReplaySince, L!Frame
<1>3. g \in [1..m -> Frames]
  BY <1>1 DEF Frames
<1> HIDE DEF g
<1>4. g \in Seq(Frames) /\ Len(g) = m
  <2>1. g \in Seq(Frames)
    BY <1>1, <1>3, SeqDef
  <2>2. DOMAIN g = 1..m /\ DOMAIN g = 1..Len(g) /\ Len(g) \in Nat
    BY <1>3, <2>1, LenProperties
  <2> QED
    BY <1>1, <2>1, <2>2
<1> QED
  BY <1>2, <1>4 DEF g

LEMMA AppendStep ==
    ASSUME LiveInv, NEW terminal \in BOOLEAN, L!AppendEvent(terminal)
    PROVE  LiveInv'
<1>1. /\ events' = Append(events, terminal)
      /\ answer' = answer /\ client' = client /\ savedCursor' = savedCursor /\ timeline' = timeline
  BY DEF L!AppendEvent
<1>2. events' \in Seq(BOOLEAN) /\ Len(events') = Len(events) + 1 /\ Len(events) \in Nat
  BY <1>1 DEF LiveInv, LiveTyped
<1>3. LiveTyped'
  BY <1>1, <1>2 DEF LiveInv, LiveTyped
<1>4. CursorsBehind'
  <2>1. Len(timeline) \in Nat
    BY DEF LiveInv, LiveTyped
  <2> QED
    BY <1>1, <1>2, <2>1 DEF LiveInv, CursorsBehind, TimelineIsPrefix, L!TimelineIsPrefix
<1>5. \A i \in 1..Len(answer.frames) : FrameKnown(i)'
  <2> TAKE i \in 1..Len(answer.frames)
  <2>1. answer.frames[i] \in Frames
    BY DEF LiveInv, LiveTyped
  <2>2. answer.frames[i].sequence \in Int
    BY <2>1 DEF Frames
  <2> QED
    BY <1>1, <1>2, <2>2 DEF LiveInv, AnswerKnown, FrameKnown, EventAt, EndAt
<1>6. AnswerKnown'
  BY <1>1, <1>2, <1>5 DEF LiveInv, LiveTyped, AnswerKnown
<1> QED
  BY <1>3, <1>4, <1>6 DEF LiveInv

LEMMA SubscribeStep == LiveInv /\ L!Subscribe => LiveInv'
<1> SUFFICES ASSUME LiveInv, L!Subscribe PROVE LiveInv'
  OBVIOUS
<1>1. /\ client.step = "ready" /\ client' = [client EXCEPT !.step = "waiting"]
      /\ answer' = [step |-> "open", cursor |-> client.cursor, polls |-> Polls, frames |-> << >>]
      /\ events' = events /\ savedCursor' = savedCursor /\ timeline' = timeline
  BY DEF L!Subscribe
<1>2. client' \in [step : {"ready", "waiting", "failed", "ended"}, cursor : Nat]
      /\ client'.step = "waiting" /\ client'.cursor = client.cursor
  BY <1>1 DEF LiveInv, LiveTyped
<1>3. LiveTyped'
  BY <1>1, <1>2, LiveAssumption DEF LiveInv, LiveTyped
<1>4. CursorsBehind'
  BY <1>1, <1>2 DEF LiveInv, CursorsBehind, TimelineIsPrefix, L!TimelineIsPrefix
<1>5. AnswerKnown'
  BY <1>1, <1>2 DEF AnswerKnown
<1> QED
  BY <1>3, <1>4, <1>5 DEF LiveInv

(* What the daemon does to its answer leaves the rest as it is.             *)
LEMMA AnswerGrows ==
    ASSUME LiveInv, answer'.step # "idle", answer.step # "idle", AnswerKnown',
           answer' \in [step : {"idle", "open", "replay", "tail", "answered", "cut", "cutWithError"},
                        cursor : Nat, polls : Int, frames : Seq(Frames)],
           UNCHANGED <<events, client, savedCursor, timeline>>
    PROVE  LiveInv'
<1>1. events' = events /\ client' = client /\ savedCursor' = savedCursor /\ timeline' = timeline
  OBVIOUS
<1>2. LiveTyped'
  BY <1>1 DEF LiveInv, LiveTyped
<1>3. CursorsBehind'
  BY <1>1 DEF LiveInv, CursorsBehind, TimelineIsPrefix, L!TimelineIsPrefix
<1> QED
  BY <1>2, <1>3 DEF LiveInv

(* One frame more that ends the answer.                                     *)
LEMMA AnswerEnds ==
    ASSUME LiveInv, answer.step \in {"replay", "tail"}, NEW f \in Frames,
           f.kind = "completed" \/ (f.kind = "failed" /\ f.sequence = -1),
           answer' = [answer EXCEPT !.step = "answered", !.frames = @ \o <<f>>],
           UNCHANGED <<events, client, savedCursor, timeline>>
    PROVE  LiveInv'
<1> DEFINE n == Len(answer.frames)
<1>1. n \in Nat /\ answer.frames \in Seq(Frames)
  BY DEF LiveInv, LiveTyped
<1>2. /\ answer'.step = "answered" /\ answer'.frames = answer.frames \o <<f>>
      /\ answer' \in [step : {"idle", "open", "replay", "tail", "answered", "cut", "cutWithError"},
                      cursor : Nat, polls : Int, frames : Seq(Frames)]
  <2>1. answer.frames \o <<f>> \in Seq(Frames)
    BY <1>1
  <2> HIDE DEF n
  <2> QED
    BY <2>1 DEF LiveInv, LiveTyped
<1>3. /\ Len(answer'.frames) = n + 1 /\ answer'.frames[n + 1] = f
      /\ \A i \in 1..n : answer'.frames[i] = answer.frames[i]
  BY <1>1, <1>2
<1>4. \A i \in 1..(n + 1) : FrameKnown(i)'
  <2> TAKE i \in 1..(n + 1)
  <2>1. CASE i = n + 1
    BY <1>2, <1>3, <2>1 DEF FrameKnown, EndAt
  <2>2. CASE i \in 1..n
    <3>1. FrameKnown(i) /\ ~EndAt(i)
      BY <2>2 DEF LiveInv, AnswerKnown, EndAt
    <3> QED
      BY <1>3, <2>2, <3>1 DEF FrameKnown, EventAt
  <2> QED
    BY <1>1, <2>1, <2>2
<1>5. client'.step = "waiting"
  BY DEF LiveInv, AnswerKnown
<1>6. AnswerKnown'
  BY <1>2, <1>3, <1>4, <1>5 DEF AnswerKnown
<1> QED
  BY <1>2, <1>6, AnswerGrows

(* An answer that has n frames up to the event at its cursor has as many    *)
(* more as there are events after it.                                       *)
LEMMA FramesAndEvents ==
    ASSUME NEW at \in Nat, NEW from \in Nat, NEW n \in Nat, NEW last \in Nat,
           n > 0, at = from + n - 1, at <= last
    PROVE  /\ last = from + (n + (last - at)) - 1
           /\ \A j \in 1..(last - at) :
                  at + j = from + (n + j) - 1 /\ at + j <= last /\ n + j > 1
OBVIOUS

(* The events after its cursor more, and it tails on.                       *)
LEMMA AnswerFollows ==
    ASSUME LiveInv, NEW known \in Seq(Frames), answer.step \in {"replay", "tail"},
           known # << >>, answer.cursor = client.cursor + Len(known) - 1, answer.cursor <= Len(events),
           \A i \in 1..Len(known) :
               \/ i = 1 /\ known[i].kind = "opened"
               \/ /\ i > 1 /\ known[i].kind = "event"
                  /\ known[i].sequence = client.cursor + i - 1 /\ known[i].sequence <= Len(events),
           answer' \in [step : {"tail"}, cursor : {Len(events)}, polls : Int, frames : Seq(Frames)],
           answer'.frames = known \o L!ReplaySince(answer.cursor),
           UNCHANGED <<events, client, savedCursor, timeline>>
    PROVE  LiveInv'
<1> DEFINE n == Len(known)
           m == Len(events) - answer.cursor
           more == L!ReplaySince(answer.cursor)
<1>1. n \in Nat /\ n > 0 /\ m \in Nat /\ client.cursor \in Nat /\ answer.cursor \in Nat /\ Len(events) \in Nat
  BY DEF LiveInv, LiveTyped
<1>2. /\ more \in Seq(Frames) /\ Len(more) = m
      /\ \A i \in 1..m : more[i] = [kind |-> "event", sequence |-> answer.cursor + i]
  BY ReplayIs DEF LiveInv
<1>sums. /\ Len(events) = client.cursor + (n + m) - 1
      /\ \A j \in 1..m : /\ answer.cursor + j = client.cursor + (n + j) - 1
                         /\ answer.cursor + j <= Len(events) /\ n + j > 1
  <2>1. answer.cursor = client.cursor + n - 1 /\ answer.cursor <= Len(events)
    OBVIOUS
  <2>2. Len(events) \in Nat /\ answer.cursor \in Nat /\ client.cursor \in Nat /\ n \in Nat /\ n > 0
    BY <1>1
  <2> DEFINE e == Len(events)
             a == answer.cursor
             c == client.cursor
  <2>3. a = c + n - 1 /\ a <= e /\ e \in Nat /\ a \in Nat /\ c \in Nat /\ n \in Nat /\ n > 0
    BY <2>1, <2>2, Zenon
  <2> HIDE DEF a, c, e, n
  <2>4. /\ e = c + (n + (e - a)) - 1
        /\ \A j \in 1..(e - a) : a + j = c + (n + j) - 1 /\ a + j <= e /\ n + j > 1
    BY ONLY <2>3, FramesAndEvents
  <2> QED
    BY ONLY <2>4 DEF a, c, e, m
<1> HIDE DEF more
<1>3. /\ Len(answer'.frames) = n + m
      /\ \A i \in 1..n : answer'.frames[i] = known[i]
      /\ \A i \in 1..m : answer'.frames[n + i] = more[i]
  BY <1>1, <1>2 DEF more
<1>4. \A i \in 1..(n + m) : FrameKnown(i)'
  <2> TAKE i \in 1..(n + m)
  <2>1. CASE i \in 1..n
    BY <1>3, <2>1 DEF FrameKnown, EventAt
  <2>2. CASE i \in (n + 1)..(n + m)
    <3>1. PICK j \in 1..m : i = n + j
      <4>1. i - n \in 1..m /\ i = n + (i - n)
        BY <1>1, <2>2
      <4> QED
        BY <4>1
    <3>2. /\ answer'.frames[i].kind = "event" /\ answer'.frames[i].sequence = answer.cursor + j
      BY <1>2, <1>3, <3>1
    <3>3. answer.cursor + j = client.cursor + i - 1 /\ answer.cursor + j <= Len(events) /\ i > 1
      BY <1>sums, <3>1, Zenon
    <3> QED
      BY <3>2, <3>3 DEF FrameKnown, EventAt
  <2> QED
    BY <1>1, <2>1, <2>2
<1>5. /\ answer'.step = "tail" /\ answer'.cursor = Len(events)
      /\ answer' \in [step : {"idle", "open", "replay", "tail", "answered", "cut", "cutWithError"},
                      cursor : Nat, polls : Int, frames : Seq(Frames)]
  BY <1>1
<1>6. answer'.frames # << >>
  BY <1>1, <1>3
<1>7. client'.step = "waiting" /\ client' = client /\ events' = events
  BY DEF LiveInv, AnswerKnown
<1>8. answer'.cursor = client.cursor + (n + m) - 1
  BY <1>5, <1>sums, Zenon
<1> HIDE DEF n, m
<1>9. AnswerKnown'
  <2>1. \A i \in 1..Len(answer'.frames) : FrameKnown(i)'
    BY <1>3, <1>4
  <2>2. answer'.cursor = client'.cursor + Len(answer'.frames) - 1 /\ answer'.cursor <= Len(events')
    BY <1>1, <1>3, <1>5, <1>7, <1>8
  <2> QED
    BY <1>5, <1>6, <1>7, <2>1, <2>2 DEF AnswerKnown
<1> QED
  BY <1>5, <1>9, AnswerGrows

LEMMA CheckCursorStep == LiveInv /\ L!CheckCursor => LiveInv'
<1> SUFFICES ASSUME LiveInv, L!CheckCursor PROVE LiveInv'
  OBVIOUS
<1> DEFINE Fails(last) == <<[kind |-> "opened", sequence |-> 0], [kind |-> "failed", sequence |-> last]>>
<1>1. /\ answer.step = "open" /\ UNCHANGED <<events, client, savedCursor, timeline>>
      /\ \/ \E last \in {Len(events), 0} :
               /\ answer.cursor > last
               /\ answer' = [answer EXCEPT !.step = "answered", !.frames = @ \o Fails(last)]
         \/ answer' = [answer EXCEPT !.step = "replay", !.frames = @ \o << >>]
  BY DEF L!CheckCursor, L!Answering, L!Frame
<1>2. /\ answer.frames = << >> /\ answer.cursor = client.cursor /\ client.step = "waiting"
      /\ answer.cursor \in Nat /\ client.cursor <= Len(timeline) /\ Len(timeline) <= Len(events)
      /\ Len(events) \in Nat /\ Len(timeline) \in Nat
  BY <1>1 DEF LiveInv, LiveTyped, AnswerKnown, CursorsBehind
<1>3. events' = events /\ client' = client
  BY <1>1
<1>4. CASE answer' = [answer EXCEPT !.step = "replay", !.frames = @ \o << >>]
  <2>1. << >> \o << >> = << >> /\ << >> \in Seq(Frames)
    OBVIOUS
  <2>2. /\ answer'.step = "replay" /\ answer'.frames = << >> /\ answer'.cursor = answer.cursor
        /\ answer' \in [step : {"idle", "open", "replay", "tail", "answered", "cut", "cutWithError"},
                        cursor : Nat, polls : Int, frames : Seq(Frames)]
    BY <1>2, <1>4, <2>1 DEF LiveInv, LiveTyped
  <2>3. AnswerKnown'
    BY <1>2, <1>3, <2>2 DEF AnswerKnown
  <2> QED
    BY <1>1, <2>2, <2>3, AnswerGrows
<1>5. ASSUME NEW last \in {Len(events), 0}, answer.cursor > last,
             answer' = [answer EXCEPT !.step = "answered", !.frames = @ \o Fails(last)]
      PROVE  LiveInv'
  <2>1. last = 0
    BY <1>2, <1>5
  <2>2. Fails(last) \in Seq(Frames) /\ << >> \o Fails(last) = Fails(last)
    BY <2>1 DEF Frames
  <2> HIDE DEF Fails
  <2>3. /\ answer'.step = "answered" /\ answer'.frames = Fails(last)
        /\ answer' \in [step : {"idle", "open", "replay", "tail", "answered", "cut", "cutWithError"},
                        cursor : Nat, polls : Int, frames : Seq(Frames)]
    BY <1>2, <1>5, <2>2 DEF LiveInv, LiveTyped
  <2>4. /\ Len(answer'.frames) = 2
        /\ answer'.frames[1].kind = "opened"
        /\ answer'.frames[2].kind = "failed" /\ answer'.frames[2].sequence = 0
    BY <2>1, <2>3 DEF Fails
  <2>5. \A i \in 1..2 : FrameKnown(i)'
    <3>1. FrameKnown(1)' /\ FrameKnown(2)'
      BY <2>3, <2>4 DEF FrameKnown, EndAt
    <3>2. 1..2 = {1, 2}
      OBVIOUS
    <3> QED
      BY <3>1, <3>2
  <2>6. AnswerKnown'
    BY <1>2, <1>3, <2>3, <2>4, <2>5 DEF AnswerKnown
  <2> QED
    BY <1>1, <2>3, <2>6, AnswerGrows
<1> QED
  BY <1>1, <1>4, <1>5

LEMMA ReplayStep == LiveInv /\ L!Replay => LiveInv'
<1> SUFFICES ASSUME LiveInv, L!Replay PROVE LiveInv'
  OBVIOUS
<1> DEFINE opened == <<[kind |-> "opened", sequence |-> 0]>>
<1>1. /\ answer.step = "replay" /\ UNCHANGED <<events, client, savedCursor, timeline>>
      /\ \/ answer' = [answer EXCEPT !.step = "tail", !.cursor = Len(events),
                                     !.frames = opened \o L!ReplaySince(answer.cursor)]
         \/ answer' = [answer EXCEPT !.step = "answered", !.frames = @ \o << >>]
  BY DEF L!Replay, L!Answering, L!Frame
<1>2. /\ answer.frames = << >> /\ answer.cursor = client.cursor /\ client.step = "waiting"
      /\ answer.cursor \in Nat /\ answer.cursor <= Len(events) /\ Len(events) \in Nat
  <2>1. Len(timeline) \in Nat /\ client.cursor \in Nat /\ Len(events) \in Nat
    BY DEF LiveInv, LiveTyped
  <2> QED
    BY <1>1, <2>1 DEF LiveInv, AnswerKnown, CursorsBehind
<1>3. events' = events /\ client' = client
  BY <1>1
<1>4. CASE answer' = [answer EXCEPT !.step = "answered", !.frames = @ \o << >>]
  <2>1. << >> \o << >> = << >> /\ << >> \in Seq(Frames)
    OBVIOUS
  <2>2. /\ answer'.step = "answered" /\ answer'.frames = << >>
        /\ answer' \in [step : {"idle", "open", "replay", "tail", "answered", "cut", "cutWithError"},
                        cursor : Nat, polls : Int, frames : Seq(Frames)]
    BY <1>2, <1>4, <2>1 DEF LiveInv, LiveTyped
  <2>3. AnswerKnown'
    BY <1>2, <1>3, <2>2 DEF AnswerKnown
  <2> QED
    BY <1>1, <2>2, <2>3, AnswerGrows
<1>5. CASE answer' = [answer EXCEPT !.step = "tail", !.cursor = Len(events),
                                    !.frames = opened \o L!ReplaySince(answer.cursor)]
  <2>1. /\ opened \in Seq(Frames) /\ opened # << >> /\ Len(opened) = 1
        /\ \A i \in 1..Len(opened) : i = 1 /\ opened[i].kind = "opened"
    BY DEF Frames
  <2>2. opened \o L!ReplaySince(answer.cursor) \in Seq(Frames)
    BY <1>2, <2>1, ReplayIs DEF LiveInv
  <2> HIDE DEF opened
  <2>3. /\ answer' \in [step : {"tail"}, cursor : {Len(events)}, polls : Int, frames : Seq(Frames)]
        /\ answer'.frames = opened \o L!ReplaySince(answer.cursor)
    BY <1>5, <2>2 DEF LiveInv, LiveTyped
  <2>4. answer.cursor = client.cursor + Len(opened) - 1
    BY <1>2, <2>1
  <2> QED
    BY <1>1, <1>2, <2>1, <2>3, <2>4, AnswerFollows
<1> QED
  BY <1>1, <1>4, <1>5

LEMMA PollStep == LiveInv /\ L!Poll => LiveInv'
<1> SUFFICES ASSUME LiveInv, L!Poll PROVE LiveInv'
  OBVIOUS
<1> DEFINE completed == [kind |-> "completed", sequence |-> 0]
           failed == [kind |-> "failed", sequence |-> -1]
<1>1. /\ answer.step = "tail" /\ UNCHANGED <<events, client, savedCursor, timeline>>
      /\ \/ answer' = [answer EXCEPT !.step = "answered", !.frames = @ \o <<completed>>]
         \/ answer' = [answer EXCEPT !.step = "answered", !.frames = @ \o <<failed>>]
         \/ answer' = [answer EXCEPT !.polls = @ - 1, !.cursor = Len(events),
                                     !.frames = @ \o L!ReplaySince(answer.cursor)]
  BY DEF L!Poll, L!Answering, L!Frame
<1>2. completed \in Frames /\ failed \in Frames
  BY DEF Frames
<1>3. CASE answer' = [answer EXCEPT !.step = "answered", !.frames = @ \o <<completed>>]
  BY <1>1, <1>2, <1>3, AnswerEnds
<1>4. CASE answer' = [answer EXCEPT !.step = "answered", !.frames = @ \o <<failed>>]
  BY <1>1, <1>2, <1>4, AnswerEnds
<1>5. CASE answer' = [answer EXCEPT !.polls = @ - 1, !.cursor = Len(events),
                                    !.frames = @ \o L!ReplaySince(answer.cursor)]
  <2>1. /\ answer.frames \in Seq(Frames) /\ answer.frames # << >>
        /\ answer.cursor = client.cursor + Len(answer.frames) - 1 /\ answer.cursor <= Len(events)
    BY <1>1 DEF LiveInv, LiveTyped, AnswerKnown
  <2>2. \A i \in 1..Len(answer.frames) :
            \/ i = 1 /\ answer.frames[i].kind = "opened"
            \/ /\ i > 1 /\ answer.frames[i].kind = "event"
               /\ answer.frames[i].sequence = client.cursor + i - 1
               /\ answer.frames[i].sequence <= Len(events)
    BY <1>1 DEF LiveInv, AnswerKnown, FrameKnown, EventAt, EndAt
  <2>3. answer.frames \o L!ReplaySince(answer.cursor) \in Seq(Frames)
    BY <2>1, ReplayIs DEF LiveInv
  <2>4. /\ answer' \in [step : {"tail"}, cursor : {Len(events)}, polls : Int, frames : Seq(Frames)]
        /\ answer'.frames = answer.frames \o L!ReplaySince(answer.cursor)
    <3> DEFINE more == answer.frames \o L!ReplaySince(answer.cursor)
    <3> HIDE DEF more
    <3>1. more \in Seq(Frames) /\ answer.polls - 1 \in Int
      BY <2>3 DEF LiveInv, LiveTyped, more
    <3>2. answer' = [answer EXCEPT !.polls = answer.polls - 1, !.cursor = Len(events), !.frames = more]
      BY <1>5 DEF more
    <3>3. /\ answer' \in [step : {"tail"}, cursor : {Len(events)}, polls : Int, frames : Seq(Frames)]
          /\ answer'.frames = more
      BY <1>1, <3>1, <3>2 DEF LiveInv, LiveTyped
    <3> QED
      BY <3>3 DEF more
  <2> QED
    BY <1>1, <2>1, <2>2, <2>4, AnswerFollows
<1> QED
  BY <1>1, <1>3, <1>4, <1>5

(* A cut leaves the beginning of an answer.                                 *)
LEMMA CutStep == LiveInv /\ L!DaemonEnds => LiveInv'
<1> SUFFICES ASSUME LiveInv, L!DaemonEnds PROVE LiveInv'
  OBVIOUS
<1>1. PICK n \in 0..Len(answer.frames), step \in {"cut", "cutWithError"} :
          answer' = [answer EXCEPT !.step = step, !.frames = SubSeq(@, 1, n)]
  BY DEF L!DaemonEnds
<1>2. /\ events' = events /\ client' = client
      /\ UNCHANGED <<events, client, savedCursor, timeline>>
      /\ answer.step \in {"open", "replay", "tail", "answered"}
  BY DEF L!DaemonEnds
<1>3. answer.frames \in Seq(Frames) /\ Len(answer.frames) \in Nat /\ n \in 0..Len(answer.frames) /\ n \in Nat
  BY DEF LiveInv, LiveTyped
<1>4. /\ SubSeq(answer.frames, 1, n) \in Seq(Frames) /\ Len(SubSeq(answer.frames, 1, n)) = n
      /\ \A i \in 1..n : SubSeq(answer.frames, 1, n)[i] = answer.frames[i]
  <2>1. \A i \in 1..n : answer.frames[i] \in Frames
    BY <1>3
  <2> QED
    BY <1>3, <2>1, SubSeqProperties
<1>5. /\ answer'.step = step /\ answer'.frames = SubSeq(answer.frames, 1, n)
      /\ answer' \in [step : {"idle", "open", "replay", "tail", "answered", "cut", "cutWithError"},
                      cursor : Nat, polls : Int, frames : Seq(Frames)]
  BY <1>1, <1>4 DEF LiveInv, LiveTyped
<1>6. \A i \in 1..n : FrameKnown(i)'
  <2> TAKE i \in 1..n
  <2>1. FrameKnown(i) /\ answer'.frames[i] = answer.frames[i] /\ Len(answer'.frames) = n
    BY <1>3, <1>4, <1>5 DEF LiveInv, AnswerKnown
  <2>2. CASE EndAt(i)
    BY <1>3, <1>5, <2>1, <2>2 DEF FrameKnown, EndAt
  <2>3. CASE ~EndAt(i)
    BY <1>2, <2>1, <2>3 DEF FrameKnown, EventAt
  <2> QED
    BY <2>2, <2>3
<1>7. AnswerKnown'
  <2>1. client.step = "waiting" /\ answer'.step \in {"cut", "cutWithError"}
    BY <1>2, <1>5 DEF LiveInv, AnswerKnown
  <2> QED
    BY <1>2, <1>4, <1>5, <1>6, <2>1 DEF AnswerKnown
<1> QED
  BY <1>2, <1>5, <1>7, AnswerGrows

(* The client's half.  Putting an interval in order counts it up.           *)
LEMMA IntervalInOrder ==
    ASSUME NEW lo \in Nat, NEW hi \in Nat, lo <= hi + 1
    PROVE  /\ L!InOrder(lo..hi) \in Seq(Nat) /\ Len(L!InOrder(lo..hi)) = hi + 1 - lo
           /\ \A n \in 1..(hi + 1 - lo) : L!InOrder(lo..hi)[n] = lo + n - 1
<1> DEFINE S == lo..hi
           m == hi + 1 - lo
           Nth(n) == CHOOSE x \in S : Cardinality({y \in S : y <= x}) = n
<1>1. m \in Nat /\ Cardinality(S) = m
  BY FS_Interval
<1>2. L!InOrder(S) = [n \in 1..m |-> Nth(n)]
  BY <1>1, Zenon DEF L!InOrder, L!Cardinality, Cardinality
<1>3. \A n \in 1..m : Nth(n) = lo + n - 1
  <2> TAKE n \in 1..m
  <2>1. \A x \in S : Cardinality({y \in S : y <= x}) = x + 1 - lo
    <3> TAKE x \in S
    <3>1. {y \in S : y <= x} = lo..x /\ x \in Int /\ lo <= x
      OBVIOUS
    <3>2. Cardinality(lo..x) = x - lo + 1
      BY <3>1, FS_Interval
    <3> HIDE DEF S
    <3>3. Cardinality({y \in S : y <= x}) = Cardinality(lo..x)
      BY <3>1, Zenon
    <3> QED
      BY <3>1, <3>2, <3>3
  <2>2. lo + n - 1 \in S /\ \A x \in S : x + 1 - lo = n <=> x = lo + n - 1
    BY <1>1
  <2> HIDE DEF S
  <2>3. \A x \in S : Cardinality({y \in S : y <= x}) = n <=> x = lo + n - 1
    BY <2>1, <2>2
  <2> QED
    BY <2>2, <2>3
<1> HIDE DEF Nth
<1> DEFINE g == [n \in 1..m |-> Nth(n)]
<1>4. g \in [1..m -> Nat]
  BY <1>1, <1>3
<1>5. g \in Seq(Nat)
  BY <1>1, <1>4, SeqDef
<1>6. DOMAIN g = 1..m /\ \A n \in 1..m : g[n] = lo + n - 1
  BY <1>3
<1> HIDE DEF g
<1>7. Len(g) = m
  <2>1. DOMAIN g = 1..Len(g) /\ Len(g) \in Nat
    BY <1>5, LenProperties
  <2> QED
    BY <1>1, <1>6, <2>1
<1> QED
  BY <1>2, <1>5, <1>6, <1>7 DEF g

(* What the client received are the events right after its cursor.          *)
LEMMA ReceivedIs ==
    ASSUME LiveInv
    PROVE  \E m \in Nat : /\ client.cursor + m <= Len(events)
                          /\ L!Received = (client.cursor + 1)..(client.cursor + m)
<1> DEFINE n == Len(answer.frames)
           c == client.cursor
           EventsAt == {i \in 1..n : EventAt(i)}
<1>1. /\ n \in Nat /\ c \in Nat /\ Len(events) \in Nat /\ answer.frames \in Seq(Frames)
      /\ c <= Len(events)
  <2>1. /\ n \in Nat /\ c \in Nat /\ Len(events) \in Nat /\ answer.frames \in Seq(Frames)
        /\ Len(timeline) \in Nat
    BY DEF LiveInv, LiveTyped
  <2> QED
    BY <2>1 DEF LiveInv, CursorsBehind
<1>2. \A i \in 1..n : FrameKnown(i)
  BY DEF LiveInv, AnswerKnown
<1>3. \A i \in 1..n : answer.frames[i].kind = "event" <=> EventAt(i)
  BY <1>2 DEF FrameKnown, EventAt, EndAt
<1>4. L!Received = {answer.frames[i].sequence : i \in EventsAt}
  <2>1. L!ToSet(answer.frames) = {answer.frames[i] : i \in 1..n}
    BY <1>1 DEF L!ToSet
  <2>2. L!Received = {f.sequence : f \in {g \in L!ToSet(answer.frames) : g.kind = "event"}}
    BY DEF L!Received
  <2> HIDE DEF n
  <2> QED
    BY <1>3, <2>1, <2>2
<1>5. L!Received = {c + i - 1 : i \in EventsAt}
  BY <1>4 DEF EventAt
<1>6. \A i \in 1..n : i > 1 /\ i # n => EventAt(i)
  BY <1>2 DEF FrameKnown, EndAt
<1>7. \A i \in EventsAt : i \in 1..n /\ i > 1
  BY DEF EventAt
<1>8. PICK m \in Nat : EventsAt = 2..(m + 1)
  <2>1. CASE n <= 1
    <3>1. EventsAt = 2..1
      BY <1>1, <1>7, <2>1
    <3> QED
      BY <3>1
  <2>2. CASE n > 1 /\ EventAt(n)
    <3>1. EventsAt = 2..n
      BY <1>1, <1>6, <1>7, <2>2
    <3>2. n - 1 \in Nat /\ n = (n - 1) + 1
      BY <1>1, <2>2
    <3> HIDE DEF EventsAt
    <3> QED
      BY <3>1, <3>2
  <2>3. CASE n > 1 /\ ~EventAt(n)
    <3>1. EventsAt = 2..(n - 1)
      BY <1>1, <1>6, <1>7, <2>3
    <3>2. n - 2 \in Nat /\ n - 1 = (n - 2) + 1
      BY <1>1, <2>3
    <3> HIDE DEF EventsAt
    <3> QED
      BY <3>1, <3>2
  <2> QED
    BY <1>1, <2>1, <2>2, <2>3
<1>9. c + m <= Len(events)
  <2>1. CASE m = 0
    BY <1>1, <2>1
  <2>2. CASE m # 0
    <3>1. m + 1 \in EventsAt
      BY <1>8, <2>2
    <3>2. EventAt(m + 1)
      BY <3>1
    <3> QED
      BY <1>1, <3>2 DEF EventAt
  <2> QED
    BY <2>1, <2>2
<1>10. {c + i - 1 : i \in 2..(m + 1)} = (c + 1)..(c + m)
  <2>1. \A k \in (c + 1)..(c + m) : k + 1 - c \in 2..(m + 1) /\ k = c + (k + 1 - c) - 1
    BY <1>1, <1>8
  <2>2. \A i \in 2..(m + 1) : c + i - 1 \in (c + 1)..(c + m)
    BY <1>1, <1>8
  <2> QED
    BY <2>1, <2>2
<1> HIDE DEF EventsAt
<1> QED
  BY <1>5, <1>8, <1>9, <1>10

(* The timeline is extended by what follows it.                             *)
LEMMA AppliedIs ==
    ASSUME LiveInv, NEW m \in Nat, client.cursor + m <= Len(events),
           L!Received = (client.cursor + 1)..(client.cursor + m)
    PROVE  /\ L!Applied \in Seq(Nat)
           /\ L!Applied = [i \in 1..Len(L!Applied) |-> i]
           /\ Len(timeline) <= Len(L!Applied) /\ client.cursor + m <= Len(L!Applied)
           /\ Len(L!Applied) <= Len(events)
<1> DEFINE t == Len(timeline)
           c == client.cursor
           hi == IF c + m <= t THEN t ELSE c + m
           more == L!InOrder((t + 1)..hi)
<1>1. /\ t \in Nat /\ c \in Nat /\ Len(events) \in Nat /\ timeline \in Seq(Nat)
      /\ c <= t /\ t <= Len(events) /\ hi \in Nat /\ t <= hi /\ c + m <= hi /\ hi <= Len(events)
  <2>1. /\ t \in Nat /\ c \in Nat /\ Len(events) \in Nat /\ timeline \in Seq(Nat)
    BY DEF LiveInv, LiveTyped
  <2>2. c <= t /\ t <= Len(events)
    BY DEF LiveInv, CursorsBehind
  <2> QED
    BY <2>1, <2>2
<1>2. \A i \in 1..t : timeline[i] = i
  BY <1>1 DEF LiveInv, CursorsBehind, TimelineIsPrefix, L!TimelineIsPrefix
<1>3. L!ToSet(timeline) = 1..t
  <2>1. L!ToSet(timeline) = {timeline[i] : i \in 1..t}
    BY <1>1 DEF L!ToSet
  <2> HIDE DEF t
  <2> QED
    BY <1>2, <2>1
<1>4. ((c + 1)..(c + m)) \ (1..t) = (t + 1)..hi
  BY <1>1
<1>5. L!Applied = timeline \o more
  BY <1>3, <1>4 DEF L!Applied
<1>6. /\ more \in Seq(Nat) /\ Len(more) = hi - t
      /\ \A n \in 1..(hi - t) : more[n] = t + n
  <2>1. t + 1 \in Nat /\ t + 1 <= hi + 1 /\ hi + 1 - (t + 1) = hi - t
    BY <1>1
  <2>2. \A n \in 1..(hi - t) : (t + 1) + n - 1 = t + n
    BY <1>1
  <2> HIDE DEF t, hi
  <2>3. /\ more \in Seq(Nat) /\ Len(more) = hi + 1 - (t + 1)
        /\ \A n \in 1..(hi + 1 - (t + 1)) : more[n] = (t + 1) + n - 1
    BY <1>1, <2>1, IntervalInOrder
  <2> QED
    BY <2>1, <2>2, <2>3
<1> HIDE DEF more, hi
<1>7. /\ timeline \o more \in Seq(Nat) /\ Len(timeline \o more) = hi
      /\ \A i \in 1..t : (timeline \o more)[i] = timeline[i]
      /\ \A n \in 1..(hi - t) : (timeline \o more)[t + n] = more[n]
  <2>1. /\ timeline \o more \in Seq(Nat) /\ Len(timeline \o more) = t + Len(more)
        /\ \A i \in 1..(t + Len(more)) :
               (timeline \o more)[i] = IF i <= t THEN timeline[i] ELSE more[i - t]
    BY <1>1, <1>6, ConcatProperties
  <2> DEFINE all == timeline \o more
  <2>2. all \in Seq(Nat) /\ Len(all) = hi
    BY <1>1, <1>6, <2>1
  <2>3. \A i \in 1..hi : all[i] = IF i <= t THEN timeline[i] ELSE more[i - t]
    BY <1>1, <1>6, <2>1
  <2> HIDE DEF all, t
  <2>4. \A n \in 1..(hi - t) : t + n \in 1..hi /\ ~(t + n <= t) /\ (t + n) - t = n
    BY <1>1
  <2>5. \A i \in 1..t : i \in 1..hi /\ i <= t
    BY <1>1
  <2> QED
    BY <2>2, <2>3, <2>4, <2>5 DEF all
<1>8. \A i \in 1..hi : (timeline \o more)[i] = i
  <2> TAKE i \in 1..hi
  <2>1. CASE i \in 1..t
    BY <1>2, <1>7, <2>1
  <2>2. CASE i \notin 1..t
    <3>1. i - t \in 1..(hi - t) /\ i = t + (i - t)
      BY <1>1, <2>2
    <3> QED
      BY <1>6, <1>7, <3>1
  <2> QED
    BY <2>1, <2>2
<1>9. timeline \o more = [i \in 1..Len(timeline \o more) |-> i]
  <2> DEFINE a == timeline \o more
  <2>1. a \in Seq(Nat) /\ Len(a) = hi /\ \A i \in 1..hi : a[i] = i
    BY <1>7, <1>8
  <2> HIDE DEF a
  <2>2. DOMAIN a = 1..hi /\ a = [i \in DOMAIN a |-> a[i]]
    BY <2>1, LenProperties
  <2>3. a = [i \in 1..Len(a) |-> i]
    BY <2>1, <2>2
  <2> QED
    BY <2>3 DEF a
<1> QED
  BY <1>1, <1>5, <1>7, <1>9

(* Two maxima. *)
LEMMA MaximumOfTwo ==
    ASSUME NEW a \in Nat, NEW b \in Nat
    PROVE  L!Max({a, b}) = IF a <= b THEN b ELSE a
<1> DEFINE x == IF a <= b THEN b ELSE a
<1>1. L!Max({a, b}) = CHOOSE z \in {a, b} : \A y \in {a, b} : z >= y
  BY Zenon DEF L!Max
<1>2. x \in {a, b} /\ \A y \in {a, b} : x >= y
  OBVIOUS
<1>3. \A z \in {a, b} : (\A y \in {a, b} : z >= y) => z = x
  OBVIOUS
<1> HIDE DEF x
<1>4. L!Max({a, b}) = x
  BY <1>1, <1>2, <1>3
<1> QED
  BY <1>4 DEF x

LEMMA AdvancedIs ==
    ASSUME LiveInv, NEW m \in Nat,
           L!Received = (client.cursor + 1)..(client.cursor + m)
    PROVE  L!Advanced = client.cursor + m
<1> DEFINE c == client.cursor
           S == ((c + 1)..(c + m)) \cup {c}
<1>1. c \in Nat
  BY DEF LiveInv, LiveTyped
<1>2. L!Advanced = CHOOSE z \in S : \A y \in S : z >= y
  BY Zenon DEF L!Advanced, L!Max
<1>3. c + m \in S /\ \A y \in S : c + m >= y /\ y \in Nat
  BY <1>1
<1>4. \A z \in S : (\A y \in S : z >= y) => z = c + m
  <2> HIDE DEF S
  <2> QED
    BY <1>1, <1>3
<1> HIDE DEF S
<1> QED
  BY <1>2, <1>3, <1>4

(* The task takes an answer: its cursor goes to what it received, back to   *)
(* what a gap names, or stays.                                              *)
LEMMA ReceiveStep == LiveInv /\ L!Receive => LiveInv'
<1> SUFFICES ASSUME LiveInv, L!Receive PROVE LiveInv'
  OBVIOUS
<1> DEFINE c == client.cursor
<1>1. PICK m \in Nat : /\ c + m <= Len(events) /\ L!Received = (c + 1)..(c + m)
  BY ReceivedIs
<1>2. /\ L!Applied \in Seq(Nat) /\ L!Applied = [i \in 1..Len(L!Applied) |-> i]
      /\ Len(timeline) <= Len(L!Applied) /\ c + m <= Len(L!Applied) /\ Len(L!Applied) <= Len(events)
  BY <1>1, AppliedIs
<1>3. L!Advanced = c + m
  BY <1>1, AdvancedIs
<1>4. /\ timeline \in Seq(Nat) /\ Len(timeline) \in Nat /\ c \in Nat /\ savedCursor \in Nat
      /\ c <= Len(timeline) /\ savedCursor <= Len(timeline) /\ Len(timeline) <= Len(events)
      /\ timeline = [i \in 1..Len(timeline) |-> i]
  BY DEF LiveInv, LiveTyped, CursorsBehind, TimelineIsPrefix, L!TimelineIsPrefix
<1>5. L!Failures # {} => L!GapAt \in {-1, 0}
  <2> SUFFICES ASSUME L!Failures # {} PROVE L!GapAt \in {-1, 0}
    OBVIOUS
  <2>1. L!Failures = {i \in 1..Len(answer.frames) : answer.frames[i].kind = "failed"}
    BY DEF L!Failures, LiveInv, LiveTyped
  <2>2. \A i \in L!Failures : i = Len(answer.frames) /\ answer.frames[i].sequence \in {-1, 0}
    BY <2>1 DEF LiveInv, AnswerKnown, FrameKnown, EventAt, EndAt
  <2>3. L!Failures = {Len(answer.frames)} /\ Len(answer.frames) \in Nat
    BY <2>2 DEF LiveInv, LiveTyped
  <2>4. L!Min(L!Failures) = CHOOSE x \in L!Failures : \A y \in L!Failures : x <= y
    BY Zenon DEF L!Min
  <2>5. L!Min(L!Failures) \in L!Failures
    <3>1. \E x \in L!Failures : \A y \in L!Failures : x <= y
      BY <2>3
    <3> QED
      BY <2>4, <3>1, Zenon
  <2> QED
    BY <2>2, <2>5 DEF L!GapAt
<1>6. L!Max({savedCursor, c + m}) = IF savedCursor <= c + m THEN c + m ELSE savedCursor
  BY <1>4, MaximumOfTwo
<1>7. /\ events' = events
      /\ answer' = [step |-> "idle", cursor |-> 0, polls |-> 0, frames |-> << >>]
      /\ \/ /\ timeline' = timeline /\ savedCursor' = savedCursor
            /\ client' = [step |-> "failed", cursor |-> c]
         \/ /\ timeline' = L!Applied /\ savedCursor' \in {savedCursor, c + m, 0}
            /\ client' \in [step : {"ready", "failed", "ended"}, cursor : {c + m, 0}]
  <2>1. CASE L!Refused
    BY <2>1 DEF L!Receive, L!Idle, L!Stop
  <2>2. CASE ~L!Refused /\ L!Failures # {}
    <3>1. L!Reconnect \in {0, c + m} /\ (L!GapAt >= 0 \/ L!Max({savedCursor, L!Advanced}) \in {savedCursor, c + m})
      BY <1>3, <1>5, <1>6, <2>2 DEF L!Reconnect
    <3> QED
      BY <1>3, <1>6, <2>2, <3>1 DEF L!Receive, L!Idle, L!Stop
  <2>3. CASE ~L!Refused /\ L!Failures = {}
    <3>1. client' = [step |-> IF L!Ends THEN "ended" ELSE "ready", cursor |-> c + m]
      BY <1>3, <2>3 DEF L!Receive, L!Stop
    <3> QED
      BY <1>3, <1>6, <2>3, <3>1 DEF L!Receive, L!Idle
  <2> QED
    BY <2>1, <2>2, <2>3
<1>8. LiveTyped'
  BY <1>2, <1>4, <1>7 DEF LiveInv, LiveTyped
<1>9. CursorsBehind'
  <2>1. CASE timeline' = timeline /\ savedCursor' = savedCursor /\ client'.cursor = c
    BY <1>4, <1>7, <2>1 DEF CursorsBehind, TimelineIsPrefix, L!TimelineIsPrefix
  <2>2. CASE /\ timeline' = L!Applied /\ savedCursor' \in {savedCursor, c + m, 0}
             /\ client'.cursor \in {c + m, 0}
    <3>1. Len(L!Applied) \in Nat /\ savedCursor <= Len(L!Applied)
      BY <1>2, <1>4
    <3>2. timeline' = [i \in 1..Len(timeline') |-> i]
      BY <1>2, <2>2
    <3> QED
      BY <1>2, <1>7, <2>2, <3>1, <3>2 DEF CursorsBehind, TimelineIsPrefix, L!TimelineIsPrefix
  <2> QED
    BY <1>7, <2>1, <2>2
<1>10. AnswerKnown'
  <2>1. answer'.step = "idle" /\ answer'.frames = << >> /\ Len(answer'.frames) = 0
    BY <1>7
  <2>2. client'.step # "waiting"
    BY <1>7
  <2> QED
    BY <2>1, <2>2 DEF AnswerKnown
<1> QED
  BY <1>8, <1>9, <1>10 DEF LiveInv

LEMMA ResubscribeStep == LiveInv /\ L!Resubscribe => LiveInv'
<1> SUFFICES ASSUME LiveInv, L!Resubscribe PROVE LiveInv'
  OBVIOUS
<1>1. /\ client.step = "failed" /\ client' = [step |-> "ready", cursor |-> savedCursor]
      /\ events' = events /\ answer' = answer /\ savedCursor' = savedCursor /\ timeline' = timeline
  BY DEF L!Resubscribe, L!Stop
<1>2. answer.step = "idle" /\ answer.frames = << >> /\ Len(answer.frames) = 0
  BY <1>1 DEF LiveInv, AnswerKnown
<1>3. LiveTyped'
  BY <1>1 DEF LiveInv, LiveTyped
<1>4. CursorsBehind'
  BY <1>1 DEF LiveInv, CursorsBehind, TimelineIsPrefix, L!TimelineIsPrefix
<1>5. AnswerKnown'
  BY <1>1, <1>2 DEF AnswerKnown
<1> QED
  BY <1>3, <1>4, <1>5 DEF LiveInv

LEMMA LiveInductive == LiveInv /\ [L!Next]_lVars => LiveInv'
<1> SUFFICES ASSUME LiveInv, [L!Next]_lVars PROVE LiveInv'
  OBVIOUS
<1>1. CASE UNCHANGED lVars
  <2>1. /\ events' = events /\ answer' = answer /\ client' = client
        /\ savedCursor' = savedCursor /\ timeline' = timeline
    BY <1>1 DEF lVars
  <2> QED
    BY <2>1 DEF LiveInv, LiveTyped, CursorsBehind, TimelineIsPrefix, L!TimelineIsPrefix,
                AnswerKnown, FrameKnown, EventAt, EndAt
<1>2. CASE \E terminal \in BOOLEAN : L!AppendEvent(terminal)
  BY <1>2, AppendStep
<1>3. CASE L!Serve
  BY <1>3, CheckCursorStep, ReplayStep, PollStep DEF L!Serve
<1> QED
  BY <1>1, <1>2, <1>3, CutStep, SubscribeStep, ReceiveStep, ResubscribeStep DEF L!Next

(* The timeline of a chat is its run's journal up to some event, for any    *)
(* number of events and polls, whatever breaks and whoever retries: nothing *)
(* is left out, repeated or out of order.                                   *)
THEOREM TimelineIsPrefixHolds == ServicesSpec => []TimelineIsPrefix
<1>1. ServicesInit => LiveInv
  BY LiveBegins DEF ServicesInit
<1>2. LiveInv /\ [ServicesNext]_allVars => LiveInv'
  <2>1. [ServicesNext]_allVars => [L!Next]_lVars
    BY DEF ServicesNext, InPush, InWorkspace, InIntegration, InAgent, InLive, InTerminal,
           InImport, InRevision, allVars, lVars
  <2> QED
    BY <2>1, LiveInductive
<1>3. LiveInv => TimelineIsPrefix
  BY DEF LiveInv, CursorsBehind
<1> QED
  BY <1>1, <1>2, <1>3, PTL DEF ServicesSpec

(* The cursor of an answer is in the journal, which keeps its bound.        *)
LiveBounded ==
    /\ Len(events) <= MaxEvents
    /\ answer.cursor <= Len(events)
    /\ breakages \in 0..Breakages

(* The journal begins empty.                                                *)
LEMMA LiveBoundsBegin == L!Init => LiveBounded
<1> SUFFICES ASSUME L!Init PROVE LiveBounded
  OBVIOUS
<1>1. Len(events) = 0 /\ answer.cursor = 0 /\ breakages = Breakages
  BY DEF L!Init, L!Idle
<1> QED
  BY <1>1, LiveAssumption DEF LiveBounded

(* No cursor of an answer runs ahead of the journal.                        *)
LEMMA LiveBounds == LiveInv /\ LiveBounded /\ [L!Next]_lVars => LiveBounded'
<1> SUFFICES ASSUME LiveInv, LiveBounded, [L!Next]_lVars PROVE LiveBounded'
  OBVIOUS
<1> DEFINE n == Len(events)
<1>1. /\ events \in Seq(BOOLEAN) /\ n \in Nat /\ answer.cursor \in Nat /\ client.cursor \in Nat
      /\ n <= MaxEvents /\ answer.cursor <= n /\ client.cursor <= n
      /\ DOMAIN answer = {"step", "cursor", "polls", "frames"}
  <2>1. Len(timeline) \in Nat /\ n \in Nat /\ client.cursor \in Nat
    BY DEF LiveInv, LiveTyped
  <2>2. client.cursor <= n
    BY <2>1 DEF LiveInv, CursorsBehind
  <2> QED
    BY <2>1, <2>2 DEF LiveInv, LiveTyped, LiveBounded
<1>2. breakages' \in 0..Breakages
  <2>1. breakages' = breakages \/ L!Breaks
    BY DEF L!Next, lVars, L!AppendEvent, L!Subscribe, L!Serve, L!CheckCursor, L!Replay, L!Poll,
           L!DaemonEnds, L!Receive, L!Resubscribe
  <2>2. CASE L!Breaks
    BY <2>2, LiveAssumption DEF L!Breaks, LiveBounded
  <2> QED
    BY <2>1, <2>2 DEF LiveBounded
<1> SUFFICES Len(events') <= MaxEvents /\ answer'.cursor <= Len(events')
  BY <1>2 DEF LiveBounded
<1>3. ASSUME NEW terminal \in BOOLEAN, L!AppendEvent(terminal)
      PROVE  Len(events') <= MaxEvents /\ answer'.cursor <= Len(events')
  <2>1. events' = Append(events, terminal) /\ n < MaxEvents /\ answer' = answer
    BY <1>3 DEF L!AppendEvent
  <2>2. Len(events') = n + 1
    BY <1>1, <2>1
  <2> QED
    BY <1>1, <2>1, <2>2, LiveAssumption
<1>4. ASSUME events' = events, answer'.cursor \in {0, n, answer.cursor, client.cursor}
      PROVE  Len(events') <= MaxEvents /\ answer'.cursor <= Len(events')
  BY <1>1, <1>4
<1>5. CASE L!Subscribe
  BY <1>4, <1>5 DEF L!Subscribe
<1>6. CASE L!CheckCursor
  <2>1. \E frames, step : L!Answering(frames, step)
    BY <1>6 DEF L!CheckCursor
  <2> QED
    BY <1>1, <1>4, <1>6, <2>1 DEF L!CheckCursor, L!Answering
<1>7. CASE L!Replay
  <2>1. answer'.cursor \in {n, answer.cursor}
    BY <1>1, <1>7 DEF L!Replay, L!Answering
  <2> QED
    BY <1>4, <1>7, <2>1 DEF L!Replay
<1>8. CASE L!Poll
  <2>1. answer'.cursor \in {n, answer.cursor}
    BY <1>1, <1>8 DEF L!Poll, L!Answering
  <2> QED
    BY <1>4, <1>8, <2>1 DEF L!Poll
<1>9. CASE L!DaemonEnds
  <2>1. answer'.cursor = answer.cursor
    BY <1>1, <1>9 DEF L!DaemonEnds
  <2> QED
    BY <1>4, <1>9, <2>1 DEF L!DaemonEnds
<1>10. CASE L!Receive
  <2>1. answer'.cursor = 0 /\ events' = events
    BY <1>10 DEF L!Receive, L!Idle
  <2> QED
    BY <1>4, <2>1
<1>11. CASE L!Resubscribe \/ UNCHANGED lVars
  <2>1. answer' = answer /\ events' = events
    BY <1>11 DEF L!Resubscribe, lVars
  <2> QED
    BY <1>4, <2>1
<1> QED
  BY <1>3, <1>5, <1>6, <1>7, <1>8, <1>9, <1>10, <1>11 DEF L!Next, L!Serve

(* The types of subscriptions: all cursors are in the journal.              *)
LEMMA LiveIsTyped == LiveInv /\ LiveBounded => L!TypeOK
<1> SUFFICES ASSUME LiveInv, LiveBounded PROVE L!TypeOK
  OBVIOUS
<1> DEFINE n == Len(events)
           t == Len(timeline)
<1>1. n \in Nat /\ t \in Nat /\ answer.cursor \in Nat /\ client.cursor \in Nat /\ savedCursor \in Nat
  BY DEF LiveInv, LiveTyped
<1>2. t <= n /\ client.cursor <= t /\ savedCursor <= t /\ answer.cursor <= n
  BY DEF LiveInv, CursorsBehind, LiveBounded
<1> HIDE DEF n, t
<1>3. client.cursor \in 0..n /\ savedCursor \in 0..n /\ answer.cursor \in 0..n
  BY <1>1, <1>2
<1> QED
  BY <1>3 DEF LiveInv, AnswerKnown, LiveBounded, L!TypeOK, n
==============================================================================
