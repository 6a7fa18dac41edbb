----------------------------- MODULE FencedLease -----------------------------
(***************************************************************************)
(* What the lease columns of crates/opensks-conversation promise, whatever *)
(* runs, journals and read models are about: a run is granted to a worker  *)
(* when its previous grant is over, every grant has a fencing token of its *)
(* own, a grant is renewed and returned by the worker that has its token   *)
(* alone, and what a worker believes to hold is what it was granted or     *)
(* renewed last, however long ago.                                         *)
(***************************************************************************)
EXTENDS Integers

CONSTANTS
    Runs,           \* what is leased
    Workers,        \* who asks for leases
    NameOf,         \* the owner string of each worker, which several may share
    Nobody,         \* the owner of a run that is free
    TTL             \* how long a grant lasts

Never == -1         \* the expiry of a run that is free

VARIABLES
    time,
    grant,          \* owner, expiry and fencing token of each run
    belief          \* what each worker believes to hold: one record or none

vars == <<time, grant, belief>>

Init ==
    /\ time = 0
    /\ grant = [r \in Runs |-> [owner |-> Nobody, expires |-> Never, fence |-> 0]]
    /\ belief = [w \in Workers |-> {}]

Believed(r, fence, until) == [run |-> r, fence |-> fence, until |-> until]

(* A worker may look at a clock it read some time ago.                     *)
OverAt(r, t) == grant[r].expires = Never \/ grant[r].expires <= t

Acquire(w, r, t) ==
    /\ belief[w] = {}
    /\ OverAt(r, t)
    /\ grant' = [grant EXCEPT ![r] = [owner |-> NameOf[w], expires |-> t + TTL,
                                      fence |-> @.fence + 1]]
    /\ belief' = [belief EXCEPT ![w] = {Believed(r, grant[r].fence + 1, t + TTL)}]
    /\ UNCHANGED time

(* The grant is still the one the worker believes in.                      *)
Current(w, b) == grant[b.run].owner = NameOf[w] /\ grant[b.run].fence = b.fence

Renew(w, b) ==
    /\ Current(w, b)
    /\ grant' = [grant EXCEPT ![b.run].expires = time + TTL]
    /\ belief' = [belief EXCEPT ![w] = {Believed(b.run, b.fence, time + TTL)}]
    /\ UNCHANGED time

Free(r) == [grant[r] EXCEPT !.owner = Nobody, !.expires = Never]

Return(w, b) ==
    /\ Current(w, b)
    /\ grant' = [grant EXCEPT ![b.run] = Free(b.run)]
    /\ belief' = [belief EXCEPT ![w] = {}]
    /\ UNCHANGED time

(* A worker that stops, or dies, tells nobody.                             *)
Forget(w) ==
    /\ belief' = [belief EXCEPT ![w] = {}]
    /\ UNCHANGED <<time, grant>>

(* Anybody may free runs whose grants are over.                            *)
Reap(over) ==
    /\ \A r \in over : grant[r].expires # Never /\ grant[r].expires <= time
    /\ grant' = [r \in Runs |-> IF r \in over THEN Free(r) ELSE grant[r]]
    /\ UNCHANGED <<time, belief>>

Pass == time' = time + 1 /\ UNCHANGED <<grant, belief>>

Next ==
    \/ \E w \in Workers, r \in Runs, t \in 0..time : Acquire(w, r, t)
    \/ \E w \in Workers : Forget(w) \/ \E b \in belief[w] : Renew(w, b) \/ Return(w, b)
    \/ \E over \in SUBSET Runs : Reap(over)
    \/ Pass

Spec == Init /\ [][Next]_vars
==============================================================================
