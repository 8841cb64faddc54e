------------------------------ MODULE BuzzRelay ------------------------------
(* The private conversation of two owners on the Buzz relay.  Messages their *)
(* turns exchanged are mirrored to it (buzz/runtime-outbound.ts, with the    *)
(* receipts of buzz/messaging.ts and buzz/index.ts); what the relay carries  *)
(* is polled into the archive and wakes the other owner (buzz/listener.ts,   *)
(* buzz/archive.ts), except for the mirrored messages, whose recipient was   *)
(* woken when they were sent.                                                *)
EXTENDS Integers, Sequences, SequencesExt, FiniteSets

CONSTANTS Mirrored,     \* messages of turns
          Native,       \* events posted by somebody else
          Listeners,    \* identities that poll the conversation, the senders of messages included
          PageSize,     \* 200: a full page is a gap
          CommitFails,  \* whether the commit that lets the conversation go may fail
          MaxFailures   \* bound on crashes, failed reads and lost answers

VARIABLES relay,      \* events in the order the relay carries them
          late,       \* sends nobody waits for any more
          mirror,     \* message -> status of its row in buzz_runtime_outbound
          slip,       \* message -> status of the receipt of its send
          sending,    \* what the dispatcher that holds the pair's lock 200 does
          locked,     \* whether it holds the conversation's row
          archive,    \* events on record
          held,       \* of these, events not yet delivered because a send is in doubt
          woken,      \* events that woke their recipient
          since,      \* listener -> position its cursor is at
          page,       \* listener -> what its poll has read, not yet ingested
          failures

relayVars == <<relay, late, mirror, slip, sending, locked, archive, held, woken, since, page, failures>>

Doubt == {"prepared", "unknown"}
Quiet == [at |-> "idle", msg |-> "none", outcome |-> "none"]
NoPage == [from |-> 0, to |-> 0]

RelayInit ==
    /\ relay = <<>> /\ late = {}
    /\ mirror = [m \in Mirrored |-> "none"]
    /\ slip = [m \in Mirrored |-> "none"]
    /\ sending = Quiet /\ locked = FALSE
    /\ archive = {} /\ held = {} /\ woken = {}
    /\ since = [l \in Listeners |-> 1]
    /\ page = [l \in Listeners |-> NoPage]
    /\ failures = 0

inbound == <<archive, held, woken, since, page>>
Fails == failures < MaxFailures /\ failures' = failures + 1
Proceeds(at) == sending' = [sending EXCEPT !.at = at]
Yields == sending' = Quiet
Marks(m, status) == mirror' = [mirror EXCEPT ![m] = status]

-----------------------------------------------------------------------------
(* Ingest of a page, under the lock of the conversation *)

\* Mutant: only a send known to be unknown holds events back.
HoldUnknown == \E m \in Mirrored : mirror[m] = "unknown"

\* mirrorHold: some event of the conversation may be a send nobody confirmed.
MirrorHold == \E m \in Mirrored : mirror[m] \in Doubt

\* Our own messages are recognised by the event id of an accepted send.
IsMirror(e) == e \in Mirrored /\ mirror[e] = "accepted"

\* The events of a page; one that was held is looked at again.
Read(p) == {relay[i] : i \in p.from..p.to}
Pending(p) == {e \in Read(p) : e \notin archive \/ e \in held}

\* Events wake their recipients, unless a send of ours is in doubt: then they are held.
Delivers(p) ==
    LET now == {e \in Pending(p) : ~IsMirror(e)}
    IN  IF MirrorHold
        THEN held' = (held \ Pending(p)) \cup now /\ UNCHANGED woken
        ELSE held' = held \ Pending(p) /\ woken' = woken \cup now

Ingest(l, p, complete) ==
    /\ ~locked
    /\ archive' = archive \cup Read(p)
    /\ Delivers(p)
    /\ since' = IF complete /\ ~MirrorHold /\ p.to > since[l] THEN [since EXCEPT ![l] = p.to] ELSE since

\* A read from the cursor: an overlap is read again, and a full page is a gap.
PageFrom(l) == LET last == since[l] + PageSize - 1
               IN  [from |-> since[l], to |-> IF last < Len(relay) THEN last ELSE Len(relay)]
Complete(p) == p.to - p.from + 1 < PageSize

\* pollBuzzOnce reads the relay first and ingests later.
PollRead(l) ==
    /\ page[l] = NoPage /\ Len(relay) >= since[l]
    /\ page' = [page EXCEPT ![l] = PageFrom(l)]
    /\ UNCHANGED <<relay, late, mirror, slip, sending, locked, archive, held, woken, since, failures>>

PollIngest(l) ==
    /\ page[l] # NoPage
    /\ Ingest(l, page[l], Complete(page[l]))
    /\ page' = [page EXCEPT ![l] = NoPage]
    /\ UNCHANGED <<relay, late, mirror, slip, sending, locked, failures>>

PollFails(l) ==
    /\ page[l] # NoPage
    /\ Fails
    /\ page' = [page EXCEPT ![l] = NoPage]
    /\ UNCHANGED <<relay, late, mirror, slip, sending, locked, archive, held, woken, since>>

PostNative(e) ==
    /\ \A i \in DOMAIN relay : relay[i] # e
    /\ relay' = Append(relay, e)
    /\ UNCHANGED <<late, mirror, slip, sending, locked, inbound, failures>>

-----------------------------------------------------------------------------
(* dispatchMessage *)

EnqueueCommitted(m) ==
    /\ mirror[m] = "none"
    /\ Marks(m, "pending")
    /\ UNCHANGED <<relay, late, slip, sending, locked, inbound, failures>>

\* One message of the pair at a time, and none while an earlier one is in doubt.
Dispatch(m) ==
    /\ sending = Quiet
    /\ mirror[m] \in {"pending", "blocked"}
    /\ ~MirrorHold
    /\ sending' = [Quiet EXCEPT !.at = "reading", !.msg = m]
    /\ UNCHANGED <<relay, late, mirror, slip, locked, inbound, failures>>

\* Bindings, members, reply target or the read itself stand in the way.
Block ==
    /\ sending.at \in {"reading", "observed"}
    /\ Fails
    /\ Marks(sending.msg, "blocked")
    /\ Yields
    /\ UNCHANGED <<relay, late, slip, locked, inbound>>

\* The sender's own listener reads and ingests the history first.
Observe(l) ==
    LET p == PageFrom(l)
    IN  /\ sending.at = "reading"
        /\ Complete(p)
        /\ Ingest(l, p, TRUE)
        /\ Proceeds("observed")
        /\ UNCHANGED <<relay, late, mirror, slip, locked, page, failures>>

Prepare ==
    /\ sending.at = "observed"
    /\ Marks(sending.msg, "prepared")
    /\ Proceeds("prepared")
    /\ UNCHANGED <<relay, late, slip, locked, inbound, failures>>

\* A send that has a receipt is not repeated.
TakeReceipt ==
    LET m == sending.msg
    IN  /\ sending.at = "prepared"
        /\ ~locked
        /\ locked' = TRUE
        /\ IF slip[m] = "none"
           THEN slip' = [slip EXCEPT ![m] = "prepared"] /\ Proceeds("sending")
           ELSE sending' = [sending EXCEPT !.at = "returned", !.outcome = slip[m]] /\ UNCHANGED slip
        /\ UNCHANGED <<relay, late, mirror, inbound, failures>>

\* The sender's observation is no longer fresh: no receipt is ever written.
RefuseStale ==
    /\ sending.at = "prepared"
    /\ Fails
    /\ Marks(sending.msg, "unknown")
    /\ Yields
    /\ UNCHANGED <<relay, late, slip, locked, inbound>>

Send ==
    LET m == sending.msg
        Answered(outcome) == sending' = [sending EXCEPT !.at = "answered", !.outcome = outcome]
        Carried == relay' = Append(relay, m)
    IN  /\ sending.at = "sending"
        /\ \/ Answered("accepted") /\ Carried /\ UNCHANGED <<late, failures>>
           \/ Answered("rejected") /\ UNCHANGED <<relay, late, failures>>
           \/ /\ Answered("unknown") /\ Fails
              /\ \/ Carried /\ UNCHANGED late
                 \/ late' = late \cup {m} /\ UNCHANGED relay
                 \/ UNCHANGED <<relay, late>>
        /\ UNCHANGED <<mirror, slip, locked, inbound>>

BookSend ==
    /\ sending.at = "answered"
    /\ slip' = [slip EXCEPT ![sending.msg] = sending.outcome]
    /\ Proceeds("returned")
    /\ UNCHANGED <<relay, late, mirror, locked, inbound, failures>>

\* update commits on a connection of its own, before the conversation is let go.
UpdateMirror ==
    LET outcome == sending.outcome
    IN  /\ sending.at = "returned"
        /\ Marks(sending.msg, IF outcome \in {"accepted", "rejected"} THEN outcome ELSE "unknown")
        /\ Proceeds("updated")
        /\ UNCHANGED <<relay, late, slip, locked, inbound, failures>>

\* If this commit fails the row is unknown again; with the connection gone a settled row is
\* thrown back to blocked.
ReleaseConversation ==
    /\ sending.at = "updated"
    /\ locked' = FALSE
    /\ Yields
    /\ \/ UNCHANGED <<mirror, failures>>
       \/ /\ CommitFails /\ Fails
          /\ \/ Marks(sending.msg, "unknown")
             \/ mirror[sending.msg] \notin Doubt /\ Marks(sending.msg, "blocked")
    /\ UNCHANGED <<relay, late, slip, inbound>>

\* The send or its bookkeeping fails for want of the database.
SendAborts ==
    /\ sending.at \in {"sending", "answered", "returned"}
    /\ Fails
    /\ Marks(sending.msg, "unknown")
    /\ locked' = FALSE
    /\ Yields
    /\ late' \in {late} \cup (IF sending.at = "sending" THEN {late \cup {sending.msg}} ELSE {})
    /\ UNCHANGED <<relay, slip, inbound>>

DispatcherCrash ==
    /\ sending # Quiet
    /\ Fails
    /\ locked' = FALSE
    /\ Yields
    /\ late' \in {late} \cup (IF sending.at = "sending" THEN {late \cup {sending.msg}} ELSE {})
    /\ UNCHANGED <<relay, mirror, slip, inbound>>

CarriedLate(m) ==
    /\ m \in late
    /\ late' = late \ {m}
    /\ relay' = Append(relay, m)
    /\ UNCHANGED <<mirror, slip, sending, locked, inbound, failures>>

\* reconcile: only the receipt of the send settles a message in doubt.
ReconcileMirror(m) ==
    /\ mirror[m] \notin {"none", "accepted"}
    /\ \/ slip[m] = "accepted" /\ ~locked /\ Marks(m, "accepted")
       \/ slip[m] = "rejected" /\ Marks(m, "rejected")
    /\ UNCHANGED <<relay, late, slip, sending, locked, inbound, failures>>

DispatchNext ==
    \/ \E m \in Mirrored : EnqueueCommitted(m) \/ Dispatch(m) \/ CarriedLate(m) \/ ReconcileMirror(m)
    \/ \E l \in Listeners : Observe(l)
    \/ Block \/ Prepare \/ TakeReceipt \/ RefuseStale \/ Send \/ BookSend \/ UpdateMirror
    \/ ReleaseConversation \/ SendAborts \/ DispatcherCrash

RelayNext ==
    \/ DispatchNext
    \/ \E l \in Listeners : PollRead(l) \/ PollIngest(l) \/ PollFails(l)
    \/ \E e \in Native : PostNative(e)

-----------------------------------------------------------------------------
(* Nothing is lost: what lies behind a cursor has woken its recipient, or is *)
(* one of our messages.                                                      *)
NothingMissed ==
    \A l \in Listeners : \A i \in 1..(since[l] - 1) : i \in DOMAIN relay => relay[i] \in woken \cup Mirrored

\* One conversation, read once: a mirrored message never wakes its recipient again when it
\* comes back from the relay.
ReadOnce == woken \cap Mirrored = {} /\ NothingMissed

\* Also when a commit failed: a message of ours wakes its recipient again, if ever, only
\* after the relay has confirmed it, and never while its send is in doubt.
EchoesWait == (\A m \in woken \cap Mirrored : slip[m] = "accepted") /\ NothingMissed

\* At most one send of the pair is in doubt at a time.
PairHeld == \A m, n \in Mirrored : mirror[m] \in Doubt /\ mirror[n] \in Doubt => m = n
=============================================================================
