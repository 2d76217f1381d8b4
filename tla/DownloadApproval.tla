--------------------------- MODULE DownloadApproval --------------------------
(***************************************************************************)
(* How the replicators of a download channel get one approval transaction  *)
(* published (Replicator::addOpinion and its neighbours).  An event of the *)
(* chain (a request of the client, or the closing of the drive) makes      *)
(* every replicator create its opinion of who sent how much, share it      *)
(* again and again, and collect those of the others.  Some time after      *)
(* enough have come it sends the transaction.                              *)
(*                                                                         *)
(* Opinions travel in datagrams: what was shared once may arrive at any    *)
(* time and any number of times, or never.  The chain's extension checks   *)
(* every opinion before the replicator gets it (processDownloadOpinion).   *)
(***************************************************************************)
EXTENDS Integers, FiniteSets, Sequences

CONSTANTS
    Replicators,    \* all replicators that are ever in the shard
    Members,        \* the ones in the shard at the beginning
    MinReplicators, \* getMinReplicatorsNumber()
    MaxChanges,     \* bound on the changes of the shard
    MaxFaults       \* bound on restarts and on hours that pass

ASSUME DownloadApprovalAssumption ==
    /\ IsFiniteSet(Replicators)
    /\ Members \subseteq Replicators /\ Members # {}
    /\ MinReplicators \in Nat
    /\ MaxChanges \in Nat /\ MaxFaults \in Nat

VARIABLES
    entry,      \* m_downloadOpinionMap[event] of every replicator
    shard,      \* its m_dnReplicatorShard
    posted,     \* the opinions it has passed to the extension itself
    inbox,      \* what the chain has told it and it has not handled yet
    shared,     \* the replicators whose opinion is on its way
    pool,       \* the transactions sent and not yet looked at
    members,    \* the chain's list
    published,  \* the opinions of the published transaction, {} if there is none
    changes, faults

vars == <<entry, shard, posted, inbox, shared, pool, members, published,
          changes, faults>>

Entries ==
    [state    : {"none", "open", "erased"},     \* "erased": so is the channel
     opinions : SUBSET Replicators,             \* m_opinions, by author
     timer    : {"off", "running", "expired"},  \* m_timer
     share    : BOOLEAN,                        \* m_opinionShareTimer
     sent     : BOOLEAN,                        \* m_modifyApproveTransactionSent
     received : BOOLEAN,                        \* m_approveTransactionReceived
     outdated : BOOLEAN]                        \* m_creationTime is an hour ago

NoEntry == [state |-> "none", opinions |-> {}, timer |-> "off", share |-> FALSE,
            sent |-> FALSE, received |-> FALSE, outdated |-> FALSE]

Erased == [NoEntry EXCEPT !.state = "erased"]

Transactions == [from : Replicators, opinions : SUBSET Replicators]

Messages == [what : {"initiate", "failed", "published", "closed"}, list : {{}}]
                \cup [what : {"shard"}, list : SUBSET Replicators]

Message(what) == [what |-> what, list |-> {}]

\* A mutant: one opinion less.
ReplicatorNumberOneShort(list) ==
    LET n == Cardinality(list)
    IN  ((IF n > MinReplicators THEN n ELSE MinReplicators) * 2) \div 3

\* replicatorNumber, the opinions to wait for, with the own one.
ReplicatorNumber(list) ==
    LET n == Cardinality(list)
    IN  ((IF n > MinReplicators THEN n ELSE MinReplicators) * 2) \div 3 + 1

\* addOpinion, for the opinion of o and the entry e: an outdated entry is
\* erased with its timers before.  A timer that has expired counts as started.
AddOpinion(r, o, e) ==
    IF e.state = "erased" THEN e
    ELSE LET old   == IF e.outdated THEN NoEntry ELSE e
             added == [old EXCEPT !.state = "open", !.opinions = @ \cup {o}]
         IN  IF /\ Cardinality(added.opinions) >= ReplicatorNumber(shard[r])
                /\ added.timer = "off"
             THEN [added EXCEPT !.timer = "running"] ELSE added

------------------------------------------------------------------------------
(* A replicator *)

\* The next message of the chain for r is m.
Handles(r, what) ==
    /\ inbox[r] # <<>>
    /\ Head(inbox[r]).what = what
    /\ inbox' = [inbox EXCEPT ![r] = Tail(@)]

\* A mutant: the opinion is shared once, without a timer.
InitiateDownloadApprovalSharesOnce(r) ==
    /\ Handles(r, "initiate")
    /\ IF entry[r].state = "erased"
       THEN UNCHANGED <<entry, shared>>
       ELSE /\ entry' = [entry EXCEPT ![r] = AddOpinion(r, r, entry[r])]
            /\ shared' = shared \cup {r}
    /\ UNCHANGED <<shard, posted, pool, members, published, changes, faults>>

\* doInitiateDownloadApprovalTransactionInfo: createMyOpinion, addOpinion and
\* shareDownloadOpinion, which starts its own timer.
InitiateDownloadApproval(r) ==
    /\ Handles(r, "initiate")
    /\ IF entry[r].state = "erased"
       THEN UNCHANGED <<entry, shared>>
       ELSE /\ entry' = [entry EXCEPT ![r] =
                            [AddOpinion(r, r, entry[r]) EXCEPT !.share = TRUE]]
            /\ shared' = shared \cup {r}
    /\ UNCHANGED <<shard, posted, pool, members, published, changes, faults>>

\* asyncOnDownloadOpinionReceived, for an opinion of the network; the
\* extension accepts only those of replicators of the shard.
OnDownloadOpinionReceived(r, o) ==
    /\ o \in (shared \cap members) \ {r}
    /\ r \in members
    /\ entry' = [entry EXCEPT ![r] = AddOpinion(r, o, entry[r])]
    /\ UNCHANGED <<shard, posted, inbox, shared, pool, members, published,
                   changes, faults>>

\* The same, for an opinion the replicator has passed to the extension when
\* its transaction failed, its own among them.
OnDownloadOpinionAgain(r, o) ==
    /\ o \in posted[r]
    /\ posted' = [posted EXCEPT ![r] = @ \ {o}]
    /\ entry' = [entry EXCEPT ![r] =
                    IF o \in members THEN AddOpinion(r, o, @) ELSE @]
    /\ UNCHANGED <<shard, inbox, shared, pool, members, published, changes, faults>>

\* onDownloadApprovalTimeExpired
OnDownloadApprovalTimeExpired(r) ==
    /\ entry[r].timer = "running"
    /\ LET e == [entry[r] EXCEPT !.timer = "expired"]
       IN  IF e.sent \/ e.received
           THEN /\ entry' = [entry EXCEPT ![r] = e]
                /\ UNCHANGED pool
           ELSE /\ entry' = [entry EXCEPT ![r] = [e EXCEPT !.sent = TRUE]]
                /\ pool' = pool \cup {[from |-> r, opinions |-> e.opinions]}
    /\ UNCHANGED <<shard, posted, inbox, shared, members, published, changes, faults>>

\* A mutant: the own opinion is not passed on.
ApprovalHasFailedDropsOwn(r) ==
    /\ Handles(r, "failed")
    /\ IF entry[r].state # "open" \/ entry[r].received
       THEN UNCHANGED <<entry, posted>>
       ELSE /\ entry' = [entry EXCEPT ![r].timer = "off", ![r].opinions = {},
                                      ![r].sent = FALSE]
            /\ posted' = [posted EXCEPT ![r] = @ \cup (entry[r].opinions \ {r})]
    /\ UNCHANGED <<shard, shared, pool, members, published, changes, faults>>

\* asyncDownloadApprovalTransactionHasFailedInvalidOpinions: every opinion,
\* also the own one, is checked again by the extension.  The opinion share
\* timer goes on.
ApprovalHasFailed(r) ==
    /\ Handles(r, "failed")
    /\ IF entry[r].state # "open" \/ entry[r].received
       THEN UNCHANGED <<entry, posted>>
       ELSE /\ entry' = [entry EXCEPT ![r].timer = "off", ![r].opinions = {},
                                      ![r].sent = FALSE]
            /\ posted' = [posted EXCEPT ![r] = @ \cup entry[r].opinions]
    /\ UNCHANGED <<shard, shared, pool, members, published, changes, faults>>

\* asyncDownloadApprovalTransactionHasBeenPublished: the entry is done with ...
ApprovalHasBeenPublished(r) ==
    /\ Handles(r, "published")
    /\ entry' = [entry EXCEPT ![r] =
          IF @.state = "open"
          THEN [@ EXCEPT !.timer = "off", !.share = FALSE, !.received = TRUE] ELSE @]
    /\ UNCHANGED <<shard, posted, shared, pool, members, published, changes, faults>>

\* ... or, with channelMustBeClosed, the channel is erased.
ChannelIsClosed(r) ==
    /\ Handles(r, "closed")
    /\ entry' = [entry EXCEPT ![r] = Erased]
    /\ UNCHANGED <<shard, posted, shared, pool, members, published, changes, faults>>

\* asyncSetChanelShard
SetChanelShard(r) ==
    /\ Handles(r, "shard")
    /\ shard' = [shard EXCEPT ![r] = IF entry[r].state = "erased" THEN @
                                     ELSE Head(inbox[r]).list]
    /\ UNCHANGED <<entry, posted, shared, pool, members, published, changes, faults>>

\* m_creationTime gets older than an hour.
Outdate(r) ==
    /\ faults < MaxFaults
    /\ entry[r].state = "open" /\ ~entry[r].outdated
    /\ faults' = faults + 1
    /\ entry' = [entry EXCEPT ![r].outdated = TRUE]
    /\ UNCHANGED <<shard, posted, inbox, shared, pool, members, published, changes>>

\* stopReplicator and start: the map of opinions is saved and, by
\* addChannelInfo, restored, without timers and with a new creation time; the
\* extension gives the channel the current shard.  A crash leaves the map of an
\* earlier stop, which does not know of the event.
Restart(r) ==
    /\ faults < MaxFaults
    /\ r \in members /\ entry[r].state = "open"
    /\ faults' = faults + 1
    /\ \E e \in {NoEntry, [entry[r] EXCEPT !.timer = "off", !.share = FALSE,
                                           !.outdated = FALSE]} :
          entry' = [entry EXCEPT ![r] = e]
    /\ posted' = [posted EXCEPT ![r] = {}]
    /\ inbox' = [inbox EXCEPT ![r] = <<>>]
    /\ shard' = [shard EXCEPT ![r] = members]
    /\ UNCHANGED <<shared, pool, members, published, changes>>

------------------------------------------------------------------------------
(* The chain *)

\* All replicators of the list learn of it.
Tell(list, m) == [r \in Replicators |-> IF r \in list THEN Append(inbox[r], m)
                                        ELSE inbox[r]]

\* The rules of the chain for a download approval transaction.
Valid(tx) ==
    /\ tx.opinions \subseteq members
    /\ Cardinality(tx.opinions) > (2 * Cardinality(members)) \div 3

\* A transaction that comes after the published one is dropped, an invalid
\* one is reported to its sender.
ProcessTransaction(tx) ==
    /\ tx \in pool
    /\ pool' = pool \ {tx}
    /\ CASE published # {} -> UNCHANGED <<inbox, published>>
         [] published = {} /\ Valid(tx) ->
                /\ published' = tx.opinions
                /\ \E what \in {"published", "closed"} :
                        inbox' = Tell(members, Message(what))
         [] published = {} /\ ~Valid(tx) ->
                /\ inbox' = Tell({tx.from} \cap members, Message("failed"))
                /\ UNCHANGED published
    /\ UNCHANGED <<entry, shard, posted, shared, members, changes, faults>>

\* One replicator of the shard is replaced by another.  The one that leaves
\* loses the channel (asyncRemoveDownloadChannelInfo), the other one gets it and
\* learns of the event.
Replace(r, s) ==
    /\ changes < MaxChanges
    /\ r \in members /\ s \in Replicators \ members
    /\ entry[s].state # "erased" /\ published = {}
    /\ changes' = changes + 1
    /\ members' = (members \ {r}) \cup {s}
    /\ shard' = [shard EXCEPT ![s] = members']
    /\ entry' = [entry EXCEPT ![r] = Erased]
    /\ posted' = [posted EXCEPT ![r] = {}]
    /\ inbox' = [Tell(members' \ {s}, [what |-> "shard", list |-> members'])
                    EXCEPT ![s] = <<Message("initiate")>>, ![r] = <<>>]
    /\ UNCHANGED <<shared, pool, published, faults>>

------------------------------------------------------------------------------
Init == /\ entry = [r \in Replicators |-> NoEntry]
        /\ shard = [r \in Replicators |-> Members]
        /\ posted = [r \in Replicators |-> {}]
        /\ inbox = [r \in Replicators |->
                        IF r \in Members THEN <<Message("initiate")>> ELSE <<>>]
        /\ shared = {} /\ pool = {}
        /\ members = Members
        /\ published = {}
        /\ changes = 0 /\ faults = 0

\* What the session thread of a replicator does by itself.
Step(r) == \/ InitiateDownloadApproval(r) \/ ApprovalHasFailed(r)
           \/ ApprovalHasBeenPublished(r) \/ ChannelIsClosed(r) \/ SetChanelShard(r)
           \/ OnDownloadApprovalTimeExpired(r)
           \/ \E o \in Replicators : OnDownloadOpinionAgain(r, o)

Next == \/ \E r \in Replicators : Step(r) \/ Outdate(r) \/ Restart(r)
        \/ \E r \in Replicators, o \in Replicators : OnDownloadOpinionReceived(r, o)
        \/ \E tx \in pool : ProcessTransaction(tx)
        \/ \E r \in Replicators, s \in Replicators : Replace(r, s)

Spec == Init /\ [][Next]_vars

\* The opinion of a replicator is sent until it arrives, as long as its share
\* timer runs; the session thread runs what is posted and the timers; the
\* chain looks at every transaction.
Fairness ==
    /\ \A r \in Replicators : WF_vars(Step(r))
    /\ \A r \in Replicators, o \in Replicators :
            WF_vars(entry[o].share /\ OnDownloadOpinionReceived(r, o))
    /\ WF_vars(\E tx \in pool : ProcessTransaction(tx))

FairSpec == Spec /\ Fairness

------------------------------------------------------------------------------
(* Properties *)

\* Types; an entry that is not there has no timers, opinions or flags.
TypeOK == /\ entry \in [Replicators -> Entries]
          /\ \A r \in Replicators : entry[r].state = "open" \/ entry[r] \in {NoEntry, Erased}
          /\ shard \in [Replicators -> SUBSET Replicators]
          /\ posted \in [Replicators -> SUBSET Replicators]
          /\ inbox \in [Replicators -> Seq(Messages)]
          /\ shared \subseteq Replicators
          /\ pool \subseteq Transactions
          /\ members \subseteq Replicators
          /\ published \subseteq Replicators
          /\ changes \in 0..MaxChanges
          /\ faults \in 0..MaxFaults

\* A transaction is only sent with more than two thirds of the opinions, each
\* of a replicator that has given it (addOpinion), although a failure or an
\* outdated entry takes opinions away while the timer or the transaction is on
\* its way.
TransactionsAreQuorums ==
    \A tx \in pool : /\ 3 * Cardinality(tx.opinions) > 2 * Cardinality(Members)
                     /\ 3 * Cardinality(tx.opinions) > 2 * MinReplicators
                     /\ tx.opinions \subseteq shared

\* A replicator that goes on sharing has its own opinion, or the extension is
\* about to give it back, or it is no longer in the shard
\* (asyncDownloadApprovalTransactionHasFailedInvalidOpinions).
OwnOpinionComesBack ==
    /\ TypeOK
    /\ \A r \in members : entry[r].share => r \in entry[r].opinions \cup posted[r]

\* If no replicator restarts and no entry gets too old, a transaction is
\* published, although the shard changes and transactions fail
\* (onDownloadApprovalTimeExpired and what starts its timer again).
EventuallyPublished == [](faults = 0) => <>(published # {})

==============================================================================
