------------------------------ MODULE Approvals ------------------------------
(***************************************************************************)
(* The request monitor's approval gate and the life cycle of its records   *)
(* (crates/sordino-proxy/src/monitor/store.rs, called by the intake        *)
(* handlers of routes.rs and by the operator's approve and reject routes   *)
(* of monitor/http.rs).                                                    *)
(*                                                                         *)
(* A request that must be held parks a one-shot sender in `waiters`; its   *)
(* handler waits for the operator, or for the timeout.  The monitor's      *)
(* mutex is taken separately for each access: `decide` takes the waiter,   *)
(* sends, and then stamps the record; the timeout gives the receiver up,   *)
(* removes the waiter, and then stamps the record.  Each of these is a     *)
(* step of its own here.                                                   *)
(*                                                                         *)
(* Abstracted: what a record shows beyond its decision and how much of the *)
(* reply it holds, the tags, and the broadcast of events (fire and forget).*)
(***************************************************************************)
EXTENDS Naturals, Sequences, FiniteSets

CONSTANTS
    NReqs,        \* requests that come in, numbered by next_seq
    Callers,      \* operator calls of approve or reject that may overlap
    MaxRecords,   \* MAX_RECORDS, the ring's size
    Limits        \* the values of max_pending_approvals that are set

ASSUME ApprovalsAssumption ==
    /\ NReqs \in Nat \ {0}
    /\ MaxRecords \in Nat \ {0}
    /\ Limits \subseteq Nat /\ Limits # {}

Reqs == 1..NReqs

Modes == {"Off", "ManualAllLlm", "ManualOnDetection"}

Decisions == {"AutoAccepted", "Pending", "Approved", "InFlight", "Rejected",
              "BackpressureRejected", "TimedOut", "UpstreamError", "Aborted",
              "Completed"}

\* RequestDecision::is_terminal.
IsTerminal(d) ==
    d \in {"Rejected", "BackpressureRejected", "TimedOut", "UpstreamError",
           "Aborted", "Completed"}

VARIABLES
    mode, maxPending,
    nextSeq,      \* the next request's number
    ring,         \* ids of the live records, newest first
    decision,     \* the record's decision; "None" before it is recorded
    reply,        \* the response captured in the record: "none", "part", "all"
    waiters,      \* ids whose sender is parked
    chan,         \* the one-shot channel: "empty", "Approve", "Reject", "dropped"
    handler,      \* the intake handler's place
    op,           \* the operator calls in progress
    held, taken   \* history: was held; the decision `decide` took for it

monVars == <<mode, maxPending, nextSeq, ring, decision, reply, waiters, chan,
             handler, op, held, taken>>

Verdicts == {"Approve", "Reject"}

NoCall == [pc |-> "idle", id |-> 0, verdict |-> "Reject"]

ApprovalsTypeOK ==
    /\ mode \in Modes /\ maxPending \in Limits
    /\ nextSeq \in 1..(NReqs + 1)
    /\ ring \in Seq(Reqs) /\ Len(ring) <= MaxRecords
    /\ decision \in [Reqs -> Decisions \cup {"None"}]
    /\ reply \in [Reqs -> {"none", "part", "all"}]
    /\ waiters \subseteq Reqs /\ held \subseteq Reqs
    /\ chan \in [Reqs -> Verdicts \cup {"empty", "dropped"}]
    /\ handler \in [Reqs -> {"none", "waiting", "expired", "unparked",
                             "cleared", "sent", "streaming", "done"}]
    /\ op \in [Callers -> [pc : {"idle", "send", "record"}, id : 0..NReqs,
                           verdict : Verdicts]]
    /\ taken \in [Reqs -> Verdicts \cup {"None"}]

ApprovalsInit ==
    /\ mode = "Off" /\ maxPending \in Limits
    /\ nextSeq = 1 /\ ring = <<>>
    /\ decision = [r \in Reqs |-> "None"]
    /\ reply = [r \in Reqs |-> "none"]
    /\ waiters = {} /\ held = {}
    /\ chan = [r \in Reqs |-> "empty"]
    /\ handler = [r \in Reqs |-> "none"]
    /\ op = [c \in Callers |-> NoCall]
    /\ taken = [r \in Reqs |-> "None"]

\* update_record: the write reaches the record only while the ring holds it.
Listed(r) == \E i \in DOMAIN ring : ring[i] = r

Stamp(r, d) ==
    decision' = IF Listed(r) THEN [decision EXCEPT ![r] = d] ELSE decision

\* The life-cycle writes leave a terminal record alone.
Settle(r, d) ==
    decision' = IF Listed(r) /\ ~IsTerminal(decision[r])
                THEN [decision EXCEPT ![r] = d] ELSE decision

Capture(r, much) ==
    reply' = IF Listed(r) /\ ~IsTerminal(decision[r])
             THEN [reply EXCEPT ![r] = much] ELSE reply

----------------------------------------------------------------------------
(* The control plane and the arrival of a request.                         *)

SetMode ==
    \E m \in Modes, n \in Limits :
        /\ <<m, n>> # <<mode, maxPending>>
        /\ mode' = m /\ maxPending' = n
        /\ UNCHANGED <<nextSeq, ring, decision, reply, waiters, chan, handler,
                       op, held, taken>>

ShouldHold(live, found) ==
    live /\ (mode = "ManualAllLlm" \/ (mode = "ManualOnDetection" /\ found))

\* Deviation: one waiter more than the limit.
PendingFullOffByOne == Cardinality(waiters) > maxPending

PendingFull == Cardinality(waiters) >= maxPending

\* push_record: newest first, the oldest falls off.
PushRecord(r) ==
    SubSeq(<<r>> \o ring, 1, IF Len(ring) < MaxRecords THEN Len(ring) + 1
                             ELSE MaxRecords)

(* record_llm_request under the lock, and the start of wait_for_approval:  *)
(* a ticket without a receiver is answered at once.                        *)
RecordLlmRequest ==
    /\ nextSeq \in Reqs
    /\ \E live, found \in BOOLEAN :
         LET id   == nextSeq
             hold == ShouldHold(live, found)
             full == hold /\ PendingFull
             park == hold /\ ~full
         IN /\ decision' = [decision EXCEPT ![id] =
                                IF full THEN "BackpressureRejected"
                                ELSE IF park THEN "Pending" ELSE "AutoAccepted"]
            /\ handler' = [handler EXCEPT ![id] =
                                IF full THEN "done"
                                ELSE IF park THEN "waiting" ELSE "cleared"]
            /\ waiters' = IF park THEN waiters \cup {id} ELSE waiters
            /\ held' = IF hold THEN held \cup {id} ELSE held
            /\ ring' = PushRecord(id)
            /\ nextSeq' = nextSeq + 1
    /\ UNCHANGED <<mode, maxPending, reply, chan, op, taken>>

----------------------------------------------------------------------------
(* wait_for_approval.                                                      *)

\* Ok(Ok(decision)): the verdict was sent before the deadline was polled.
Receive(r) ==
    /\ handler[r] = "waiting" /\ chan[r] \in Verdicts
    /\ handler' = [handler EXCEPT ![r] =
                       IF chan[r] = "Approve" THEN "cleared" ELSE "done"]
    /\ UNCHANGED <<mode, maxPending, nextSeq, ring, decision, reply, waiters,
                   chan, op, held, taken>>

\* Deviation: the handler waits without a timeout.
ExpireNever(r) ==
    /\ FALSE
    /\ UNCHANGED monVars

\* Err(_): nothing was sent; the receiver is dropped with the timeout future.
Expire(r) ==
    /\ handler[r] = "waiting" /\ chan[r] = "empty"
    /\ handler' = [handler EXCEPT ![r] = "expired"]
    /\ chan' = [chan EXCEPT ![r] = "dropped"]
    /\ UNCHANGED <<mode, maxPending, nextSeq, ring, decision, reply, waiters,
                   op, held, taken>>

ExpireUnpark(r) ==
    /\ handler[r] = "expired"
    /\ waiters' = waiters \ {r}
    /\ handler' = [handler EXCEPT ![r] = "unparked"]
    /\ UNCHANGED <<mode, maxPending, nextSeq, ring, decision, reply, chan, op,
                   held, taken>>

ExpireRecord(r) ==
    /\ handler[r] = "unparked"
    /\ Stamp(r, "TimedOut")
    /\ handler' = [handler EXCEPT ![r] = "done"]
    /\ UNCHANGED <<mode, maxPending, nextSeq, ring, reply, waiters, chan, op,
                   held, taken>>

\* The client goes away while the handler awaits: the future is dropped, its
\* receiver with it, and nobody tells the monitor.  Only a started stream has
\* a CompletionGuard.
Abandon(r) ==
    /\ handler[r] \in {"waiting", "sent"}
    /\ handler' = [handler EXCEPT ![r] = "done"]
    /\ chan' = [chan EXCEPT ![r] = "dropped"]
    /\ UNCHANGED <<mode, maxPending, nextSeq, ring, decision, reply, waiters,
                   op, held, taken>>

----------------------------------------------------------------------------
(* decide: three accesses.  An id without a waiter is answered 404.        *)

\* Deviation: the waiter is looked up and not removed.
DecideTakeKeeps(c) ==
    /\ op[c].pc = "idle"
    /\ \E r \in waiters, v \in Verdicts :
         /\ op' = [op EXCEPT ![c] = [pc |-> "send", id |-> r, verdict |-> v]]
         /\ taken' = [taken EXCEPT ![r] = v]
    /\ UNCHANGED <<mode, maxPending, nextSeq, ring, decision, reply, waiters,
                   chan, handler, held>>

DecideTake(c) ==
    /\ op[c].pc = "idle"
    /\ \E r \in waiters, v \in Verdicts :
         /\ waiters' = waiters \ {r}
         /\ op' = [op EXCEPT ![c] = [pc |-> "send", id |-> r, verdict |-> v]]
         /\ taken' = [taken EXCEPT ![r] = v]
    /\ UNCHANGED <<mode, maxPending, nextSeq, ring, decision, reply, chan,
                   handler, held>>

\* The result of send is ignored: a dropped receiver loses the verdict.
DecideSend(c) ==
    /\ op[c].pc = "send"
    /\ chan' = IF chan[op[c].id] = "empty"
               THEN [chan EXCEPT ![op[c].id] = op[c].verdict] ELSE chan
    /\ op' = [op EXCEPT ![c].pc = "record"]
    /\ UNCHANGED <<mode, maxPending, nextSeq, ring, decision, reply, waiters,
                   handler, held, taken>>

DecideRecord(c) ==
    /\ op[c].pc = "record"
    /\ Stamp(op[c].id, IF op[c].verdict = "Approve" THEN "Approved" ELSE "Rejected")
    /\ op' = [op EXCEPT ![c] = NoCall]
    /\ UNCHANGED <<mode, maxPending, nextSeq, ring, reply, waiters, chan,
                   handler, held, taken>>

----------------------------------------------------------------------------
(* The handler after the gate: record_dispatched and the upstream call.    *)

Dispatch(r) ==
    /\ handler[r] = "cleared"
    /\ decision' = IF Listed(r) /\ decision[r] \in {"AutoAccepted", "Approved"}
                   THEN [decision EXCEPT ![r] = "InFlight"] ELSE decision
    /\ handler' = [handler EXCEPT ![r] = "sent"]
    /\ UNCHANGED <<mode, maxPending, nextSeq, ring, reply, waiters, chan, op,
                   held, taken>>

\* record_upstream_error: the call or its body failed.
UpstreamFails(r) ==
    /\ handler[r] = "sent"
    /\ Settle(r, "UpstreamError")
    /\ handler' = [handler EXCEPT ![r] = "done"]
    /\ UNCHANGED <<mode, maxPending, nextSeq, ring, reply, waiters, chan, op,
                   held, taken>>

\* record_response: a JSON reply, recorded whole.
RecordResponse(r) ==
    /\ handler[r] = "sent"
    /\ Capture(r, "all") /\ Settle(r, "Completed")
    /\ handler' = [handler EXCEPT ![r] = "done"]
    /\ UNCHANGED <<mode, maxPending, nextSeq, ring, waiters, chan, op, held,
                   taken>>

StreamStarts(r) ==
    /\ handler[r] = "sent"
    /\ handler' = [handler EXCEPT ![r] = "streaming"]
    /\ UNCHANGED <<mode, maxPending, nextSeq, ring, decision, reply, waiters,
                   chan, op, held, taken>>

\* record_response_progress, once PROGRESS_FLUSH_BYTES have been captured.
FlushProgress(r) ==
    /\ handler[r] = "streaming" /\ reply[r] = "none"
    /\ Capture(r, "part")
    /\ UNCHANGED <<mode, maxPending, nextSeq, ring, decision, waiters, chan,
                   handler, op, held, taken>>

\* CompletionGuard::complete, ::upstream_error and Drop: exactly one of them
\* acts, because the first disarms the guard.
StreamEnds(r) ==
    /\ handler[r] = "streaming"
    /\ \/ /\ Capture(r, "all")
          /\ Settle(r, "Completed")
       \/ \E d \in {"UpstreamError", "Aborted"} :
             /\ Capture(r, "part")
             /\ Settle(r, d)
    /\ handler' = [handler EXCEPT ![r] = "done"]
    /\ UNCHANGED <<mode, maxPending, nextSeq, ring, waiters, chan, op, held,
                   taken>>

ApprovalsNext ==
    \/ SetMode
    \/ RecordLlmRequest
    \/ \E r \in Reqs : \/ Receive(r) \/ Expire(r) \/ ExpireUnpark(r)
                       \/ ExpireRecord(r) \/ Abandon(r)
                       \/ Dispatch(r) \/ UpstreamFails(r) \/ RecordResponse(r)
                       \/ StreamStarts(r) \/ FlushProgress(r) \/ StreamEnds(r)
    \/ \E c \in Callers : DecideTake(c) \/ DecideSend(c) \/ DecideRecord(c)

(* The handler's own steps are scheduled by the runtime and its timer      *)
(* fires; an operator's call, once begun, runs to its end.  No client need *)
(* leave, and no operator need decide.                                     *)
ApprovalsFairness ==
    /\ \A r \in Reqs : WF_monVars(\/ Receive(r) \/ Expire(r) \/ ExpireUnpark(r)
                                  \/ ExpireRecord(r) \/ Dispatch(r))
    /\ \A c \in Callers : WF_monVars(DecideSend(c) \/ DecideRecord(c))

ApprovalsSpec == ApprovalsInit /\ [][ApprovalsNext]_monVars /\ ApprovalsFairness

----------------------------------------------------------------------------
(* Properties.                                                             *)

\* A held request goes upstream only if the operator's call that took its
\* waiter approved it (wait_for_approval, decide): whatever the timeout, a
\* lost send or a second caller does, a rejected or undecided request never
\* leaves the machine.
HeldGoesOnlyIfApproved ==
    \A r \in held : handler[r] \in {"cleared", "sent", "streaming"}
                        => taken[r] = "Approve"

\* A record shown as Pending can still be settled: its waiter is parked, or
\* the call that took it, or the timeout, has yet to stamp it (decide,
\* wait_for_approval).
PendingIsAnswerable ==
    \A r \in Reqs :
        Listed(r) /\ decision[r] = "Pending" =>
            \/ r \in waiters
            \/ \E c \in Callers : op[c].pc # "idle" /\ op[c].id = r
            \/ handler[r] = "unparked"

\* No arrival parks a waiter beyond the limit in force (record_llm_request,
\* pending_full), and a full gate refuses rather than releases.
GateIsBounded ==
    [][Cardinality(waiters') > Cardinality(waiters) =>
         Cardinality(waiters') <= maxPending]_monVars

\* One waiter is taken once: two overlapping calls never decide the same
\* request (decide removes the waiter under the lock).
OneDecision ==
    \A c, d \in Callers :
        c # d /\ op[c].pc # "idle" /\ op[d].pc # "idle" => op[c].id # op[d].id

\* Only an approved request leaves, a held one can still be decided, and one
\* decision wins (await_decision, decide, the timeout).
ApprovalsSound ==
    /\ ApprovalsTypeOK
    /\ HeldGoesOnlyIfApproved
    /\ PendingIsAnswerable
    /\ OneDecision

\* A held request's handler does not wait forever: the operator or the
\* approval timeout ends it (APPROVAL_TIMEOUT).
HoldEnds == \A r \in Reqs : handler[r] = "waiting" ~> handler[r] # "waiting"
=============================================================================
