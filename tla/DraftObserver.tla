--------------------------- MODULE DraftObserver ---------------------------
(* The commissioner's observer of the live draft on MFL                      *)
(* (runtime/mfl-draft-observer.ts): polls read the board outside of any       *)
(* transaction and commit under a fence, what changed becomes notices, and    *)
(* the notices go out one by one (runtime/native-draft-notifications.ts).     *)
(* Without notices to a channel the observer wakes the owner on the clock.    *)
EXTENDS Integers, Sequences, FiniteSets, SequencesExt

CONSTANTS Slots,      \* picks of the draft
          Selected,   \* what may be picked
          Modes,      \* deliveryMode: "native-buzz", "runtime"
          Pollers, Posters,   \* processes that poll and that deliver
          MaxEpochs, MaxResumes, MaxFence, MaxHosts, MaxFaults   \* bounds

VARIABLES board,     \* the draft on MFL: [made: picks so far, paused]
          host,      \* version of the league's host
          observer,  \* runtime_mfl_draft_observers
          pollers,   \* poller -> [at, fence, seen]
          notices,   \* notice -> "woken", "pending", "sending", "sent", "uncertain", "superseded"
          posters,   \* deliverer -> notice it is sending, or NoNotice
          wire,      \* notices a dead deliverer's client may still send
          posted,    \* notice -> how often it appeared in the channel
          first,     \* picks on the board when the epoch was first observed
          lapses

observerVars == <<board, host, observer, pollers, notices, posters, wire, posted, first, lapses>>

NoBoard == [made |-> <<>>, paused |-> TRUE, none |-> TRUE]
NoNotice == <<>>
Idle == [at |-> "idle", fence |-> 0, seen |-> NoBoard]

ObserverInit ==
    /\ board = [made |-> <<>>, paused |-> FALSE]
    /\ host = 1
    /\ observer = [status |-> "none", manual |-> FALSE, epoch |-> 0, mode |-> "runtime",
                   host |-> 0, fence |-> 0, live |-> FALSE,
                   last |-> NoBoard, fresh |-> FALSE, resume |-> 0]
    /\ pollers = [p \in Pollers |-> Idle]
    /\ notices = <<>> /\ posted = <<>>
    /\ posters = [d \in Posters |-> NoNotice]
    /\ wire = {} /\ first = 0 /\ lapses = 0

Slip == lapses < MaxFaults /\ lapses' = lapses + 1

\* Lock 7044 of the league: a deliverer keeps it while its message is under way.
LeagueFree == \A d \in Posters : posters[d] = NoNotice

-----------------------------------------------------------------------------
(* The draft on MFL and the league's host *)

PickMade ==
    /\ ~board.paused /\ Len(board.made) < Slots
    /\ \E x \in Selected : board' = [board EXCEPT !.made = Append(@, x)]
    /\ UNCHANGED <<host, observer, pollers, notices, posters, wire, posted, first, lapses>>

PauseOrGoOn ==
    /\ Slip
    /\ board' = [board EXCEPT !.paused = ~@]
    /\ UNCHANGED <<host, observer, pollers, notices, posters, wire, posted, first>>

\* The commissioner of the site undoes or corrects the last pick.
Correct ==
    /\ Slip
    /\ board.made # <<>>
    /\ \E rest \in {<<>>} \cup {<<x>> : x \in Selected} :
          board' = [board EXCEPT !.made = Front(@) \o rest]
    /\ UNCHANGED <<host, observer, pollers, notices, posters, wire, posted, first>>

HostReplaced ==
    /\ LeagueFree
    /\ host < MaxHosts
    /\ host' = host + 1
    /\ UNCHANGED <<board, observer, pollers, notices, posters, wire, posted, first, lapses>>

-----------------------------------------------------------------------------
(* The commissioner *)

\* A new epoch forgets what was observed; it may begin only over a held observer.
Configure(mode) ==
    /\ LeagueFree
    /\ observer.status \in {"none", "held"} /\ ~observer.live /\ observer.epoch < MaxEpochs
    /\ observer' = [status |-> "active", manual |-> FALSE, epoch |-> observer.epoch + 1,
                    mode |-> mode, host |-> host, fence |-> observer.fence + 1, live |-> FALSE,
                    last |-> NoBoard, fresh |-> FALSE, resume |-> 0]
    /\ UNCHANGED <<board, host, pollers, notices, posters, wire, posted, first, lapses>>

Held(manual) == [observer EXCEPT !.status = "held", !.manual = manual, !.live = FALSE]

PauseObserver ==
    /\ LeagueFree
    /\ observer.status # "none" /\ observer.mode = "native-buzz"
    /\ observer' = Held(TRUE)
    /\ UNCHANGED <<board, host, pollers, notices, posters, wire, posted, first, lapses>>

\* Mutant: what was observed before the pause still counts as observed.
ResumedUnread == [observer EXCEPT !.status = "active", !.manual = FALSE, !.resume = @ + 1,
                                  !.live = FALSE, !.fence = @ + 1]

\* Whatever a poll has read before is worth nothing now.
Resumed == [observer EXCEPT !.status = "active", !.manual = FALSE, !.resume = @ + 1,
                            !.fresh = FALSE, !.live = FALSE, !.fence = @ + 1]

ResumeObserver ==
    /\ LeagueFree
    /\ observer.status = "held" /\ observer.manual /\ observer.mode = "native-buzz"
    /\ observer.resume < MaxResumes
    /\ observer' = Resumed
    /\ UNCHANGED <<board, host, pollers, notices, posters, wire, posted, first, lapses>>

-----------------------------------------------------------------------------
(* Polls *)

ClaimPoll(p) ==
    /\ pollers[p] = Idle /\ LeagueFree
    /\ observer.status = "active" /\ ~observer.live /\ observer.fence < MaxFence
    /\ IF observer.host # host
       THEN observer' = Held(FALSE) /\ UNCHANGED pollers
       ELSE /\ observer' = [observer EXCEPT !.fence = @ + 1, !.live = TRUE]
            /\ pollers' = [pollers EXCEPT ![p] = [at |-> "claimed", fence |-> observer.fence + 1,
                                                 seen |-> NoBoard]]
    /\ UNCHANGED <<board, host, notices, posters, wire, posted, first, lapses>>

ReadBoard(p) ==
    /\ pollers[p].at = "claimed"
    /\ pollers' = [pollers EXCEPT ![p].at = "read",
                                   ![p].seen = [made |-> board.made, paused |-> board.paused,
                                                none |-> FALSE]]
    /\ UNCHANGED <<board, host, observer, notices, posters, wire, posted, first, lapses>>

Mine(p) == observer.fence = pollers[p].fence /\ observer.live /\ observer.status = "active"

OnClock(s) == ~s.paused /\ Len(s.made) < Slots

\* A pause on the site that ended between two observations begins the turn anew.
ResumeAfter(s) ==
    observer.resume + IF ~observer.last.none /\ observer.last.paused /\ OnClock(s) THEN 1 ELSE 0

Clock(s) == [kind |-> "on-clock", epoch |-> observer.epoch, slot |-> Len(s.made) + 1,
             resume |-> ResumeAfter(s)]
Picked(s, i) == [kind |-> "pick-confirmed", epoch |-> observer.epoch, slot |-> i,
                 player |-> s.made[i]]

\* What the board shows for the first time; the picks of the first observation are not news.
News(s) == (IF OnClock(s) THEN {Clock(s)} ELSE {})
           \cup IF observer.mode = "runtime" \/ observer.last.none THEN {}
                ELSE {Picked(s, i) : i \in (Len(observer.last.made) + 1)..Len(s.made)}

With(f, S, v) == [x \in DOMAIN f \cup S |-> IF x \in S THEN v ELSE f[x]]

CommitPoll(p) ==
    LET s == pollers[p].seen
        New == News(s) \ DOMAIN notices
    IN  /\ pollers[p].at = "read" /\ LeagueFree
        /\ pollers' = [pollers EXCEPT ![p] = Idle]
        /\ \/ ~Mine(p) /\ UNCHANGED <<observer, notices, posted, first>>
           \/ /\ Mine(p)
              /\ observer.host # host \/ ~IsPrefix(observer.last.made, s.made)
              /\ observer' = Held(FALSE)
              /\ UNCHANGED <<notices, posted, first>>
           \/ /\ Mine(p)
              /\ observer.host = host /\ IsPrefix(observer.last.made, s.made)
              /\ notices' = With(notices, New, IF observer.mode = "runtime" THEN "woken" ELSE "pending")
              /\ posted' = With(posted, New, 0)
              /\ observer' = [observer EXCEPT !.last = s, !.fresh = TRUE, !.live = FALSE,
                                              !.resume = ResumeAfter(s)]
              /\ first' = IF observer.last.none THEN Len(s.made) ELSE first
        /\ UNCHANGED <<board, host, posters, wire, lapses>>

\* The site cannot be read, or not as configured; a poller that dies leaves its lease.
FailPoll(p) ==
    /\ pollers[p] # Idle /\ Slip
    /\ pollers' = [pollers EXCEPT ![p] = Idle]
    /\ \/ UNCHANGED observer
       \/ observer.fence = pollers[p].fence /\ observer' = [observer EXCEPT !.live = FALSE]
       \/ /\ LeagueFree /\ observer.fence = pollers[p].fence /\ observer.status = "active"
          /\ observer' = Held(FALSE)
    /\ UNCHANGED <<board, host, notices, posters, wire, posted, first>>

LeaseRunsOut ==
    /\ observer.live
    /\ observer' = [observer EXCEPT !.live = FALSE]
    /\ UNCHANGED <<board, host, pollers, notices, posters, wire, posted, first, lapses>>

-----------------------------------------------------------------------------
(* Delivery *)

Delivering == /\ observer.mode = "native-buzz" /\ observer.status = "active" /\ observer.fresh
              /\ observer.last.paused => Len(observer.last.made) = Slots
              /\ observer.host = host

Doubtful == {n \in DOMAIN notices : notices[n] \in {"sending", "uncertain"}}
Waiting == {n \in DOMAIN notices : notices[n] = "pending"}

\* Picks go first; which of them, and which turn, is left open.
Foremost(n) == n.kind = "pick-confirmed" \/ \A m \in Waiting : m.kind = "on-clock"

Current(n) == n.epoch = observer.epoch
              /\ n.kind = "on-clock" => /\ n.slot = Len(observer.last.made) + 1
                                        /\ n.slot <= Slots /\ n.resume = observer.resume

\* The attempt is on record before the message goes out; an unknown one stops all others.
Deliver(d) ==
    /\ LeagueFree
    /\ Delivering /\ Doubtful = {}
    /\ \E n \in Waiting :
          /\ Foremost(n)
          /\ notices' = [notices EXCEPT ![n] = IF Current(n) THEN "sending" ELSE "superseded"]
          /\ posters' = IF Current(n) THEN [posters EXCEPT ![d] = n] ELSE posters
    /\ UNCHANGED <<board, host, observer, pollers, wire, posted, first, lapses>>

Post(d) ==
    LET n == posters[d]
    IN  /\ n # NoNotice
        /\ posters' = [posters EXCEPT ![d] = NoNotice]
        /\ \/ /\ notices' = [notices EXCEPT ![n] = "sent"]
              /\ posted' = [posted EXCEPT ![n] = @ + 1]
              /\ UNCHANGED <<wire, lapses>>
           \/ /\ Slip
              /\ notices' = [notices EXCEPT ![n] = "uncertain"]
              /\ \/ posted' = [posted EXCEPT ![n] = @ + 1] /\ UNCHANGED wire
                 \/ wire' = wire \cup {n} /\ UNCHANGED posted
                 \/ UNCHANGED <<wire, posted>>
        /\ UNCHANGED <<board, host, observer, pollers, first>>

\* The deliverer dies: its lock goes with it, the attempt stays.
PosterDies(d) ==
    /\ posters[d] # NoNotice /\ Slip
    /\ posters' = [posters EXCEPT ![d] = NoNotice]
    /\ wire' \in {wire, wire \cup {posters[d]}}
    /\ UNCHANGED <<board, host, observer, pollers, notices, posted, first>>

PostedLate(n) ==
    /\ wire' = wire \ {n}
    /\ posted' = [posted EXCEPT ![n] = @ + 1]
    /\ UNCHANGED <<board, host, observer, pollers, notices, posters, first, lapses>>

ObserverNext ==
    \/ PickMade \/ PauseOrGoOn \/ Correct \/ HostReplaced
    \/ \E mode \in Modes : Configure(mode)
    \/ PauseObserver \/ ResumeObserver \/ LeaseRunsOut
    \/ \E p \in Pollers : ClaimPoll(p) \/ ReadBoard(p) \/ CommitPoll(p) \/ FailPoll(p)
    \/ \E d \in Posters : Deliver(d) \/ Post(d) \/ PosterDies(d)
    \/ \E n \in wire : PostedLate(n)

-----------------------------------------------------------------------------
\* A notice appears at most once, one that was put away never, and while one is in doubt no
\* other is under way.
NoticesInTurn ==
    /\ \A n \in DOMAIN notices :
          /\ posted[n] <= 1
          /\ notices[n] = "sent" => posted[n] = 1
          /\ notices[n] \in {"pending", "superseded"} => posted[n] = 0
    /\ Cardinality(Doubtful) <= 1

\* What is being sent is what the observer stands for at that moment: not held, and of the
\* turn it saw last, after the last pause.
NoticesAreCurrent ==
    \A d \in Posters : posters[d] # NoNotice => Delivering /\ Current(posters[d])

\* Of the board as it was last observed everything is told: every pick made since the epoch
\* was first observed, no other, and the turn it is on.
EverythingIsTold ==
    observer.fresh =>
        /\ OnClock(observer.last) =>
              [kind |-> "on-clock", epoch |-> observer.epoch, slot |-> Len(observer.last.made) + 1,
               resume |-> observer.resume] \in DOMAIN notices
        /\ observer.mode = "native-buzz" =>
              {n \in DOMAIN notices : n.kind = "pick-confirmed" /\ n.epoch = observer.epoch}
                  = {Picked(observer.last, i) : i \in (first + 1)..Len(observer.last.made)}
=============================================================================
