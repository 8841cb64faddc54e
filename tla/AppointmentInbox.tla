--------------------------- MODULE AppointmentInbox ---------------------------
(***************************************************************************)
(* What the season dispatcher promises an owner, without saying how: one   *)
(* appointment at a time is in the owner's hands, each message arrives     *)
(* while its appointment is, arrives once, and nothing that was closed     *)
(* comes back.  NativeScheduleDispatch implements it.                      *)
(***************************************************************************)
EXTENDS Integers, Sequences

CONSTANTS Owners, Nothing

VARIABLES
    held,      \* owner -> the appointment handed to its inboxes, or Nothing
    mail,      \* owner -> appointments whose message arrived, in order
    closed     \* appointments that are over

inboxVars == <<held, mail, closed>>

Arrived(t) == {mail[t][i] : i \in 1..Len(mail[t])}

InboxInit == /\ held = [t \in Owners |-> Nothing]
             /\ mail = [t \in Owners |-> <<>>]
             /\ closed = {}

\* Dispatch hands over an appointment that is neither closed nor known.
HandOver(t) ==
    /\ held[t] = Nothing
    /\ \E w \in {held'[t]} : /\ w # Nothing
                             /\ w \notin closed \cup Arrived(t)
                             /\ held' = [held EXCEPT ![t] = w]
    /\ UNCHANGED <<mail, closed>>

\* Only an appointment whose message never arrived is taken back.
TakeBack(t) ==
    /\ held[t] # Nothing
    /\ held[t] \notin Arrived(t)
    /\ held' = [held EXCEPT ![t] = Nothing]
    /\ UNCHANGED <<mail, closed>>

MessageArrives(t) ==
    /\ held[t] # Nothing
    /\ held[t] \notin Arrived(t)
    /\ mail' = [mail EXCEPT ![t] = Append(@, held[t])]
    /\ UNCHANGED <<held, closed>>

\* The owner finishes, or the commissioner closes, what the owner was given.
CloseHeld(t) ==
    /\ held[t] \in Arrived(t)
    /\ held' = [held EXCEPT ![t] = Nothing]
    /\ closed' = closed \cup {held[t]}
    /\ UNCHANGED mail

\* Undelivered appointments are withdrawn.
CloseUnsent ==
    /\ closed \subseteq closed'
    /\ \A t \in Owners : (closed' \ closed) \cap (Arrived(t) \cup {held[t]}) = {}
    /\ UNCHANGED <<held, mail>>

InboxNext ==
    \/ \E t \in Owners : HandOver(t) \/ TakeBack(t) \/ MessageArrives(t) \/ CloseHeld(t)
    \/ CloseUnsent

InboxSpec == InboxInit /\ [][InboxNext]_inboxVars
=============================================================================
