---------------------------- MODULE Publication ----------------------------
(* What the franchises publish on X: drafts in versions, batches of drafts   *)
(* the commissioner approves (franchise/service.ts), and the publisher that  *)
(* posts an approved batch item by item, never twice, while the approval     *)
(* still stands (publication/x-publisher.ts).                                *)
EXTENDS Integers, Sequences, FiniteSets

CONSTANTS Drafts,       \* numbers: the order of the items of a batch
          MaxVersions,  \* bound on the versions of a draft
          Contents,     \* the batches the commissioner may put together
          Publishers,   \* processes that tick
          OutliveCheck, \* whether a tick may pause for two minutes before it marks its row as sending
          MaxFaults     \* bound on crashes and lost answers

VARIABLES version,   \* draft -> its latest version
          batches,   \* contents of a batch -> "none", "prepared", "approved", "revoked"
          posts,     \* scheduled items <<contents, draft>> -> status
          lapsed,    \* items claimed more than two minutes ago
          press,     \* publisher -> where its tick is
          wire,      \* posts nobody waits for any more
          posted,    \* item -> how often X carries it
          told,      \* item -> result the owner's wake carried
          slips

pubVars == <<version, batches, posts, lapsed, press, wire, posted, told, slips>>

\* A batch is known by its contents, a version for each draft it holds: draft -> version or 0.
Items == {i \in Contents \X Drafts : i[1][i[2]] > 0}
Batch(i) == i[1]
Claimed == {"checking", "sending"}
Final == {"published", "rejected", "cancelled", "uncertain"}

NoItem == <<>>
AtRest == [at |-> "idle", item |-> NoItem, seen |-> {}, outcome |-> "none"]

PublicationInit ==
    /\ version = [d \in Drafts |-> 1]
    /\ batches = [c \in Contents |-> "none"]
    /\ posts = [i \in Items |-> "none"]
    /\ lapsed = {} /\ wire = {}
    /\ press = [p \in Publishers |-> AtRest]
    /\ posted = [i \in Items |-> 0]
    /\ told = [i \in Items |-> "none"]
    /\ slips = 0

\* Mutant: the lock is let go before the post.
DeskOpen == TRUE

\* The league's lock 7131: held by a publisher while its post is in flight.
DeskFree == ~\E p \in Publishers : press[p].at = "posting"

-----------------------------------------------------------------------------
(* Drafts and batches *)

Contains(c, d) == c[d] > 0

\* A new version takes back every batch that holds the draft.
TakesBack(d, c) == batches[c] \in {"prepared", "approved"} /\ Contains(c, d)

SaveDraft(d) ==
    /\ DeskFree
    /\ version[d] < MaxVersions
    /\ version' = [version EXCEPT ![d] = @ + 1]
    /\ batches' = [c \in Contents |-> IF TakesBack(d, c) THEN "revoked" ELSE batches[c]]
    /\ UNCHANGED <<posts, lapsed, press, wire, posted, told, slips>>

Latest(c) == \A d \in Drafts : Contains(c, d) => c[d] = version[d]

PrepareBatch(c) ==
    /\ DeskFree
    /\ Latest(c)
    /\ batches[c] = "none"
    /\ batches' = [batches EXCEPT ![c] = "prepared"]
    /\ UNCHANGED <<version, posts, lapsed, press, wire, posted, told, slips>>

ApproveBatch(c) ==
    /\ DeskFree
    /\ batches[c] = "prepared"
    /\ batches' = [batches EXCEPT ![c] = "approved"]
    /\ UNCHANGED <<version, posts, lapsed, press, wire, posted, told, slips>>

RevokeBatch(c) ==
    /\ DeskFree
    /\ batches[c] \in {"prepared", "approved"}
    /\ batches' = [batches EXCEPT ![c] = "revoked"]
    /\ UNCHANGED <<version, posts, lapsed, press, wire, posted, told, slips>>

\* approved: the approval stands and every draft of the batch is still the latest.
Approved(c) == batches[c] = "approved" /\ Latest(c)

EnqueueX(c) ==
    /\ DeskFree
    /\ Approved(c)
    /\ \A d \in Drafts : Contains(c, d) => posts[<<c, d>>] = "none"
    /\ posts' = [i \in Items |-> IF Batch(i) = c THEN "pending" ELSE posts[i]]
    /\ UNCHANGED <<version, batches, lapsed, press, wire, posted, told, slips>>

-----------------------------------------------------------------------------
(* A tick: recover, claim one item, check, send, finish. *)

newsroom == <<version, batches>>
Turns(p, at) == press' = [press EXCEPT ![p].at = at]
Ends(p) == press' = [press EXCEPT ![p] = AtRest]

\* A row is claimed once, so its attempt id is the row.
RecoverRead(p) ==
    /\ press[p].at = "idle"
    /\ press' = [press EXCEPT ![p].at = "recovering",
                              ![p].seen = {<<i, posts[i]>> : i \in {j \in lapsed : posts[j] \in Claimed}}]
    /\ UNCHANGED <<newsroom, posts, lapsed, wire, posted, told, slips>>

\* finish: the first result of a claimed item is its last; a post in flight holds its row.
Finishes(i, status) == posts' = IF posts[i] \in Claimed THEN [posts EXCEPT ![i] = status] ELSE posts
RowFree(i) == ~\E p \in Publishers : press[p].at = "posting" /\ press[p].item = i

\* An interrupted post is uncertain, an interrupted check is not sent.
RecoverOne(p) ==
    \E s \in press[p].seen :
       /\ press[p].at = "recovering"
       /\ RowFree(s[1])
       /\ Finishes(s[1], IF s[2] = "sending" THEN "uncertain" ELSE "rejected")
       /\ press' = [press EXCEPT ![p].seen = @ \ {s}]
       /\ UNCHANGED <<newsroom, lapsed, wire, posted, told, slips>>

\* An item waits for every earlier one of its batch.
InTurn(i) == \A d \in Drafts : d < i[2] /\ Contains(Batch(i), d) => posts[<<Batch(i), d>>] = "published"

ClaimItem(p) ==
    /\ press[p].at = "recovering" /\ press[p].seen = {}
    /\ \/ \E i \in Items : /\ posts[i] = "pending" /\ InTurn(i)
                           /\ posts' = [posts EXCEPT ![i] = "checking"]
                           /\ press' = [press EXCEPT ![p].at = "claimed", ![p].item = i]
       \/ Ends(p) /\ UNCHANGED posts
    /\ UNCHANGED <<newsroom, lapsed, wire, posted, told, slips>>

\* Without approval the account is not even looked up; a wrong account ends the item.
CheckItem(p) ==
    LET i == press[p].item
    IN  /\ press[p].at = "claimed"
        /\ DeskFree
        /\ \/ Approved(Batch(i)) /\ Turns(p, "checked") /\ UNCHANGED posts
           \/ ~Approved(Batch(i)) /\ Finishes(i, "cancelled") /\ Ends(p)
           \/ Approved(Batch(i)) /\ Finishes(i, "rejected") /\ Ends(p)
        /\ UNCHANGED <<newsroom, lapsed, wire, posted, told, slips>>

\* Marked before the post, so that a crash from here on leaves the item in doubt.
MarkSending(p) ==
    LET i == press[p].item
    IN  /\ press[p].at = "checked"
        /\ posts' = IF posts[i] = "checking" THEN [posts EXCEPT ![i] = "sending"] ELSE posts
        /\ Turns(p, "marked")
        /\ UNCHANGED <<newsroom, lapsed, wire, posted, told, slips>>

Ready(i) == posts[i] = "sending" /\ Approved(Batch(i))

BeginPost(p) ==
    /\ press[p].at = "marked"
    /\ DeskFree
    /\ press' = IF Ready(press[p].item)
                THEN [press EXCEPT ![p].at = "posting"]
                ELSE [press EXCEPT ![p].at = "decided", ![p].outcome = "cancelled"]
    /\ UNCHANGED <<newsroom, posts, lapsed, wire, posted, told, slips>>

\* Carried, refused, or no usable answer: carried, still under way, or neither.
PostItem(p) ==
    LET i == press[p].item
        Decides(outcome) == press' = [press EXCEPT ![p].at = "decided", ![p].outcome = outcome]
        Carried == posted' = [posted EXCEPT ![i] = @ + 1]
    IN  /\ press[p].at = "posting"
        /\ \/ Decides("published") /\ Carried /\ UNCHANGED <<wire, slips>>
           \/ Decides("rejected") /\ UNCHANGED <<wire, posted, slips>>
           \/ /\ slips < MaxFaults /\ slips' = slips + 1
              /\ Decides("uncertain")
              /\ \/ Carried /\ UNCHANGED wire
                 \/ wire' = wire \cup {i} /\ UNCHANGED posted
                 \/ UNCHANGED <<wire, posted>>
        /\ UNCHANGED <<newsroom, posts, lapsed, told>>

Finish(p) ==
    /\ press[p].at = "decided"
    /\ RowFree(press[p].item)
    /\ Finishes(press[p].item, press[p].outcome)
    /\ Ends(p)
    /\ UNCHANGED <<newsroom, lapsed, wire, posted, told, slips>>

\* deliverReceipts: the result is on record before the owner is woken with it.
DeliverReceipt(i) ==
    /\ posts[i] \in Final /\ told[i] = "none"
    /\ told' = [told EXCEPT ![i] = posts[i]]
    /\ UNCHANGED <<newsroom, posts, lapsed, press, wire, posted, slips>>

LateCarried(i) ==
    /\ i \in wire
    /\ wire' = wire \ {i}
    /\ posted' = [posted EXCEPT ![i] = @ + 1]
    /\ UNCHANGED <<newsroom, posts, lapsed, press, told, slips>>

\* Two minutes pass since the claim.
Lapse(i) ==
    /\ posts[i] \in Claimed /\ i \notin lapsed
    /\ OutliveCheck \/ posts[i] = "sending" \/ ~\E p \in Publishers : press[p].item = i
    /\ lapsed' = lapsed \cup {i}
    /\ UNCHANGED <<newsroom, posts, press, wire, posted, told, slips>>

PublisherCrash(p) ==
    /\ press[p] # AtRest
    /\ slips < MaxFaults /\ slips' = slips + 1
    /\ Ends(p)
    /\ wire' \in {wire} \cup (IF press[p].at = "posting" THEN {wire \cup {press[p].item}} ELSE {})
    /\ UNCHANGED <<newsroom, posts, lapsed, posted, told>>

Tick(p) == \/ RecoverRead(p) \/ RecoverOne(p) \/ ClaimItem(p) \/ CheckItem(p) \/ MarkSending(p)
           \/ BeginPost(p) \/ PostItem(p) \/ Finish(p)

PublicationNext ==
    \/ \E d \in Drafts : SaveDraft(d)
    \/ \E c \in Contents : PrepareBatch(c) \/ ApproveBatch(c) \/ RevokeBatch(c) \/ EnqueueX(c)
    \/ \E p \in Publishers : Tick(p) \/ PublisherCrash(p)
    \/ \E i \in Items : DeliverReceipt(i) \/ LateCarried(i) \/ Lapse(i)

-----------------------------------------------------------------------------
(* Whatever is being posted is what the commissioner approved: its batch is  *)
(* still approved, the draft has not been changed since, and every earlier   *)
(* item of the batch is public already, once.                                *)
PostsAsApproved ==
    \A p \in Publishers : press[p].at = "posting" =>
        LET i == press[p].item
        IN  /\ batches[Batch(i)] = "approved" /\ i[1][i[2]] = version[i[2]]
            /\ \A d \in Drafts : d < i[2] /\ Contains(Batch(i), d) => posted[<<Batch(i), d>>] = 1
=============================================================================
