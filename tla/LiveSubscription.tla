--------------------------- MODULE LiveSubscription ----------------------------
(***************************************************************************)
(* How a run's events reach the chat.  The client (swift/Sources) asks for *)
(* the events after its cursor, again and again, until it has seen a       *)
(* terminal one; the daemon (crates/opensks-daemon, subscription_lines)    *)
(* replays the journal, tails it for a while, and frames what it sends     *)
(* (crates/opensks-stream).  Any query of the daemon may fail, and the     *)
(* daemon may end while its answer is being written.                       *)
(***************************************************************************)
EXTENDS Integers, SequencesExt

CONSTANTS
    MaxEvents,      \* bound on the run's journal
    Polls,          \* polls of one tail: tail_ms / poll_interval_ms
    Breakages       \* bound on failing queries and on ends of the daemon

VARIABLES
    events,         \* the run's journal: TRUE where an event is terminal
    answer,         \* the subscribe_events request being served
    client,         \* the subscription task
    savedCursor,    \* runEventCursors of the run
    timeline,       \* sequences of the events in the timeline, as they came
    breakages       \* breakages still to come

vars == <<events, answer, client, savedCursor, timeline, breakages>>

Idle == [step |-> "idle", cursor |-> 0, polls |-> 0, frames |-> <<>>]

Init ==
    /\ events = <<>>
    /\ answer = Idle
    /\ client = [step |-> "ready", cursor |-> 0]
    /\ savedCursor = 0
    /\ timeline = <<>>
    /\ breakages = Breakages

Breaks == breakages > 0 /\ breakages' = breakages - 1

(* The run appends to its journal; what comes after a terminal event is    *)
(* kept too.                                                               *)
AppendEvent(terminal) ==
    /\ Len(events) < MaxEvents
    /\ events' = Append(events, terminal)
    /\ UNCHANGED <<answer, client, savedCursor, timeline, breakages>>

------------------------------------------------------------------------------
(* The daemon.  The framer numbers the frames of one answer, so a frame's  *)
(* cursor is its place in the answer.                                      *)
Frame(kind, sequence) == [kind |-> kind, sequence |-> sequence]

(* replay_since: the committed events after a cursor, by sequence.         *)
ReplaySince(cursor) == [i \in 1..(Len(events) - cursor) |-> Frame("event", cursor + i)]

Answering(frames, step) ==
    answer' = [answer EXCEPT !.step = step, !.frames = @ \o frames]

Subscribe ==
    /\ client.step = "ready"
    /\ client' = [client EXCEPT !.step = "waiting"]
    /\ answer' = [step |-> "open", cursor |-> client.cursor, polls |-> Polls, frames |-> <<>>]
    /\ UNCHANGED <<events, savedCursor, timeline, breakages>>

(* A last sequence that cannot be read counts as 0.                        *)
CheckCursor ==
    /\ answer.step = "open"
    /\ \E last \in {Len(events), 0} :
           /\ IF last = Len(events) THEN UNCHANGED breakages ELSE Breaks
           /\ IF answer.cursor > last
              THEN Answering(<<Frame("opened", 0), Frame("failed", last)>>, "answered")
              ELSE Answering(<<>>, "replay")
    /\ UNCHANGED <<events, client, savedCursor, timeline>>

Replay ==
    /\ answer.step = "replay"
    /\ \/ /\ answer' = [answer EXCEPT !.step = "tail", !.cursor = Len(events),
                                      !.frames = <<Frame("opened", 0)>> \o ReplaySince(answer.cursor)]
          /\ UNCHANGED breakages
       \/ Breaks /\ Answering(<<>>, "answered")
    /\ UNCHANGED <<events, client, savedCursor, timeline>>

Poll ==
    /\ answer.step = "tail"
    /\ IF answer.polls = 0
       THEN Answering(<<Frame("completed", 0)>>, "answered") /\ UNCHANGED breakages
       ELSE \/ /\ answer' = [answer EXCEPT !.polls = @ - 1, !.cursor = Len(events),
                                           !.frames = @ \o ReplaySince(answer.cursor)]
               /\ UNCHANGED breakages
            \/ Breaks /\ Answering(<<Frame("failed", -1)>>, "answered")
    /\ UNCHANGED <<events, client, savedCursor, timeline>>

Serve == CheckCursor \/ Replay \/ Poll

(* The lines are written when all are there, and the daemon may end, with  *)
(* exit code 0 or another, after any of them.                              *)
DaemonEnds ==
    /\ answer.step \in {"open", "replay", "tail", "answered"}
    /\ Breaks
    /\ \E n \in 0..Len(answer.frames), step \in {"cut", "cutWithError"} :
           /\ answer.step = "answered" \/ n = 0
           /\ answer' = [answer EXCEPT !.step = step, !.frames = SubSeq(@, 1, n)]
    /\ UNCHANGED <<events, client, savedCursor, timeline>>

------------------------------------------------------------------------------
(* The client.  decodeRunStream and the test of the exit code: an answer   *)
(* without its first line, or with an error event or exit code and no      *)
(* failed frame, is thrown away.  The events are taken in the order of     *)
(* their sequences.                                                        *)
Failures == {i \in DOMAIN answer.frames : answer.frames[i].kind = "failed"}
Received == {f.sequence : f \in {g \in ToSet(answer.frames) : g.kind = "event"}}

Refused ==
    /\ Failures = {}
    /\ \/ answer.frames = <<>>
       \/ answer.step = "cutWithError"

InOrder(S) ==
    [n \in 1..Cardinality(S) |-> CHOOSE x \in S : Cardinality({y \in S : y <= x}) = n]

(* applyLiveExecutionEvents keeps one item for each event id.              *)
Applied == timeline \o InOrder(Received \ ToSet(timeline))

Advanced == Max(Received \cup {client.cursor})

(* A cursor gap names the sequence to reconnect from.                      *)
GapAt == answer.frames[Min(Failures)].sequence
Reconnect == IF GapAt >= 0 THEN GapAt ELSE Advanced

Ends == \E n \in Received : events[n]
Stop(step, cursor) == client' = [step |-> step, cursor |-> cursor]

(* Mutant: the cursor follows what was received, also when it is refused.  *)
ReceiveAdvancesFirst ==
    /\ answer.step \in {"answered", "cut", "cutWithError"}
    /\ answer' = Idle
    /\ savedCursor' = Max({savedCursor, Advanced})
    /\ timeline' = IF Refused THEN timeline ELSE Applied
    /\ Stop(IF Refused \/ Failures # {} THEN "failed"
            ELSE IF Ends THEN "ended" ELSE "ready", Advanced)
    /\ UNCHANGED <<events, breakages>>

(* Mutant: an answer that is thrown away leaves the task waiting.          *)
ReceiveWaitsOn ==
    /\ answer.step \in {"answered", "cut", "cutWithError"}
    /\ answer' = Idle
    /\ IF Refused
       THEN UNCHANGED <<client, savedCursor, timeline>>
       ELSE /\ timeline' = Applied
            /\ IF Failures # {}
               THEN Stop("failed", Reconnect) /\ savedCursor' = Reconnect
               ELSE /\ savedCursor' = Max({savedCursor, Advanced})
                    /\ Stop(IF Ends THEN "ended" ELSE "ready", Advanced)
    /\ UNCHANGED <<events, breakages>>

(* One turn of the loop of startRunEventSubscription: an error or a failed *)
(* frame ends it, and so does a terminal event.                            *)
Receive ==
    /\ answer.step \in {"answered", "cut", "cutWithError"}
    /\ answer' = Idle
    /\ IF Refused
       THEN Stop("failed", client.cursor) /\ UNCHANGED <<savedCursor, timeline>>
       ELSE /\ timeline' = Applied
            /\ IF Failures # {}
               THEN /\ Stop("failed", Reconnect)
                    /\ savedCursor' = IF GapAt >= 0 THEN Reconnect
                                      ELSE Max({savedCursor, Advanced})
               ELSE /\ savedCursor' = Max({savedCursor, Advanced})
                    /\ Stop(IF Ends THEN "ended" ELSE "ready", Advanced)
    /\ UNCHANGED <<events, breakages>>

(* A retried send of the same turn starts a new task for the run.          *)
Resubscribe ==
    /\ client.step = "failed"
    /\ Stop("ready", savedCursor)
    /\ UNCHANGED <<events, answer, savedCursor, timeline, breakages>>

Next ==
    \/ \E terminal \in BOOLEAN : AppendEvent(terminal)
    \/ Serve \/ DaemonEnds
    \/ Subscribe \/ Receive \/ Resubscribe

(* The daemon answers its requests and the client's task runs; nobody has  *)
(* to retry.                                                               *)
Fairness == WF_vars(Serve) /\ WF_vars(Subscribe) /\ WF_vars(Receive)

Spec == Init /\ [][Next]_vars /\ Fairness

------------------------------------------------------------------------------
(* Properties                                                              *)

TypeOK ==
    /\ Len(events) <= MaxEvents
    /\ client.cursor \in 0..Len(events)
    /\ savedCursor \in 0..Len(events)
    /\ answer.cursor \in 0..Len(events)
    /\ (client.step = "waiting") = (answer.step # "idle")
    /\ breakages \in 0..Breakages

(* The timeline is the journal up to some event: none twice, none out of   *)
(* order, none left out, through retries and through a gap that was only a *)
(* failing query.                                                          *)
TimelineIsPrefix == timeline = [i \in 1..Len(timeline) |-> i]

(* A run that ended is seen to end, or the user sees that the subscription *)
(* failed: the chat does not wait in silence.                              *)
EndIsSeen ==
    (\E i \in DOMAIN events : events[i]) ~>
        \/ \E i \in DOMAIN timeline : events[timeline[i]]
        \/ client.step = "failed"
=============================================================================
