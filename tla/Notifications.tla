--------------------------- MODULE Notifications ---------------------------
(***************************************************************************)
(* The notification dispatcher of one core process: it takes published     *)
(* events from its bounded subscription one at a time, loads the channels  *)
(* (through a cache that this core's edits drop and that ages), and starts *)
(* one delivery per channel that accepts the event, with retries, as far   *)
(* as the semaphore allows. What an acknowledgement keeps back is in       *)
(* module Acknowledgements; topics and severities are folded into enabled. *)
(***************************************************************************)
EXTENDS Integers, Sequences, FiniteSets, Common

CONSTANTS
    Notices,        \* events that are published, each once
    Channels,       \* notification channels
    NoticeBuffer,   \* depth of the dispatcher's subscription
    MaxInFlight,    \* concurrency: deliveries at once
    Attempts,       \* tries per delivery
    MaxEdits        \* bound: changes of channels

ASSUME NotificationsAssumption ==
    /\ NoticeBuffer \in Nat \ {0} /\ MaxInFlight \in Nat \ {0} /\ Attempts \in Nat \ {0}
    /\ MaxEdits \in Nat /\ Nil \notin Notices

VARIABLES
    unpublished,    \* notices to come
    notices,        \* Seq(Notices): the subscription's queue
    enabled,        \* channels that exist, are enabled and accept the events
    edits,          \* changes of channels so far
    invalidating,   \* number of requests that have written and not yet invalidated
    cached,         \* [fresh, list]: Dispatcher.cached
    run,            \* [at, notice, list]: the dispatcher's goroutine
    delivery,       \* [Notices \X Channels -> DeliveryState]
    stopping,       \* stopCh is closed
    cacheRaced,     \* history: the list being cached was read before an invalidation
    distant         \* history: channels edited through another core since the list was read

notifyVars == <<unpublished, notices, enabled, edits, invalidating, cached, run, delivery, stopping, cacheRaced, distant>>

RunState == [at : {"idle", "load", "cache", "fan", "ended"}, notice : Notices \cup {Nil}, list : SUBSET Channels]
DeliveryState == [at : {"none", "send", "wait", "sent", "failed"}, attempt : 0..Attempts]

NotifyInit ==
    /\ unpublished = Notices /\ notices = <<>>
    /\ enabled = {} /\ edits = 0 /\ invalidating = 0
    /\ cached = [fresh |-> FALSE, list |-> {}]
    /\ run = [at |-> "idle", notice |-> Nil, list |-> {}]
    /\ delivery = [d \in Notices \X Channels |-> [at |-> "none", attempt |-> 0]]
    /\ stopping = FALSE /\ cacheRaced = FALSE /\ distant = {}

InFlight == {d \in DOMAIN delivery : delivery[d].at \in {"send", "wait"}}

\* A full queue loses its oldest event.
Notify(n) ==
    /\ n \in unpublished
    /\ unpublished' = unpublished \ {n}
    /\ notices' = IF Len(notices) < NoticeBuffer THEN Append(notices, n) ELSE Append(Tail(notices), n)
    /\ UNCHANGED <<enabled, edits, invalidating, cached, run, delivery, stopping, cacheRaced, distant>>

-----------------------------------------------------------------------------
(* Channels are edited: the row, then the cache.                           *)

\* Create, Update and Delete of a channel, through this core.
EditChannel(ch) ==
    /\ edits < MaxEdits
    /\ edits' = edits + 1
    /\ enabled' = IF ch \in enabled THEN enabled \ {ch} ELSE enabled \cup {ch}
    /\ invalidating' = invalidating + 1
    /\ UNCHANGED <<unpublished, notices, cached, run, delivery, stopping, cacheRaced, distant>>

\* The same through another core, which drops the cache of its own process only.
EditChannelElsewhere(ch) ==
    /\ edits < MaxEdits
    /\ edits' = edits + 1
    /\ enabled' = IF ch \in enabled THEN enabled \ {ch} ELSE enabled \cup {ch}
    /\ distant' = distant \cup {ch}
    /\ UNCHANGED <<unpublished, notices, invalidating, cached, run, delivery, stopping, cacheRaced>>

\* Mutant of InvalidateChannels: the cache is left to age.
InvalidateLater ==
    /\ invalidating > 0
    /\ invalidating' = invalidating - 1
    /\ UNCHANGED <<unpublished, notices, enabled, edits, cached, run, delivery, stopping, cacheRaced, distant>>

InvalidateChannels ==
    /\ invalidating > 0
    /\ invalidating' = invalidating - 1
    /\ cached' = [fresh |-> FALSE, list |-> {}]
    /\ cacheRaced' = (cacheRaced \/ run.at = "cache")
    /\ UNCHANGED <<unpublished, notices, enabled, edits, run, delivery, stopping, distant>>

CacheAges ==
    /\ cached.fresh
    /\ cached' = [fresh |-> FALSE, list |-> {}]
    /\ cacheRaced' = (cacheRaced /\ run.at = "cache")
    /\ UNCHANGED <<unpublished, notices, enabled, edits, invalidating, run, delivery, stopping, distant>>

-----------------------------------------------------------------------------
(* The dispatcher's goroutine.                                             *)

\* run and the start of handle: from the cache while it is fresh.
TakeNotice ==
    /\ run.at = "idle" /\ notices # <<>>
    /\ notices' = Tail(notices)
    /\ run' = IF cached.fresh THEN [at |-> "fan", notice |-> Head(notices), list |-> cached.list]
              ELSE [at |-> "load", notice |-> Head(notices), list |-> {}]
    /\ UNCHANGED <<unpublished, enabled, edits, invalidating, cached, delivery, stopping, cacheRaced, distant>>

ListChannels ==
    /\ run.at = "load"
    /\ run' = [run EXCEPT !.at = "cache", !.list = enabled]
    /\ cacheRaced' = FALSE /\ distant' = {}
    /\ UNCHANGED <<unpublished, notices, enabled, edits, invalidating, cached, delivery, stopping>>

\* The store does not answer: the alert is given up and the error recorded.
ListFails ==
    /\ run.at = "load"
    /\ run' = [at |-> "idle", notice |-> Nil, list |-> {}]
    /\ UNCHANGED <<unpublished, notices, enabled, edits, invalidating, cached, delivery, stopping, cacheRaced, distant>>

CacheList ==
    /\ run.at = "cache"
    /\ cached' = [fresh |-> TRUE, list |-> run.list]
    /\ run' = [run EXCEPT !.at = "fan"]
    /\ UNCHANGED <<unpublished, notices, enabled, edits, invalidating, delivery, stopping, cacheRaced, distant>>

\* One delivery per channel, when the semaphore has room.
StartDelivery(ch) ==
    /\ run.at = "fan" /\ ch \in run.list
    /\ Cardinality(InFlight) < MaxInFlight
    /\ run' = [run EXCEPT !.list = @ \ {ch}]
    /\ delivery' = [delivery EXCEPT ![<<run.notice, ch>>] = [at |-> "send", attempt |-> 1]]
    /\ UNCHANGED <<unpublished, notices, enabled, edits, invalidating, cached, stopping, cacheRaced, distant>>

Handled ==
    /\ run.at = "fan" /\ run.list = {}
    /\ run' = [at |-> "idle", notice |-> Nil, list |-> {}]
    /\ UNCHANGED <<unpublished, notices, enabled, edits, invalidating, cached, delivery, stopping, cacheRaced, distant>>

StopDispatcher ==
    /\ ~stopping
    /\ stopping' = TRUE
    /\ UNCHANGED <<unpublished, notices, enabled, edits, invalidating, cached, run, delivery, cacheRaced, distant>>

\* Between events, or while waiting for the semaphore.
RunEnds ==
    /\ stopping /\ run.at \in {"idle", "fan"}
    /\ run' = [at |-> "ended", notice |-> Nil, list |-> {}]
    /\ UNCHANGED <<unpublished, notices, enabled, edits, invalidating, cached, delivery, stopping, cacheRaced, distant>>

-----------------------------------------------------------------------------
(* A delivery.                                                             *)

SetDelivery(d, state) ==
    /\ delivery' = [delivery EXCEPT ![d] = state]
    /\ UNCHANGED <<unpublished, notices, enabled, edits, invalidating, cached, run, stopping, cacheRaced, distant>>

SendSucceeds(d) == delivery[d].at = "send" /\ SetDelivery(d, [delivery[d] EXCEPT !.at = "sent"])

\* Mutant of AfterFailure: the last attempt waits for one more.
AfterFailureAgain(attempt) == "wait"

AfterFailure(attempt) == IF attempt < Attempts THEN "wait" ELSE "failed"

SendFails(d) ==
    delivery[d].at = "send" /\ SetDelivery(d, [delivery[d] EXCEPT !.at = AfterFailure(delivery[d].attempt)])

RetryDelivery(d) ==
    /\ delivery[d].at = "wait" /\ delivery[d].attempt < Attempts
    /\ SetDelivery(d, [at |-> "send", attempt |-> delivery[d].attempt + 1])

GiveUpAtShutdown(d) == delivery[d].at = "wait" /\ stopping /\ SetDelivery(d, [delivery[d] EXCEPT !.at = "failed"])

DeliveryStep(d) == SendSucceeds(d) \/ SendFails(d) \/ RetryDelivery(d) \/ GiveUpAtShutdown(d)
RunStep == ListChannels \/ ListFails \/ CacheList \/ Handled \/ \E ch \in Channels : StartDelivery(ch)

NotifyNext ==
    \/ \E n \in Notices : Notify(n)
    \/ \E ch \in Channels : EditChannel(ch) \/ EditChannelElsewhere(ch)
    \/ InvalidateChannels \/ CacheAges \/ TakeNotice \/ RunStep \/ StopDispatcher \/ RunEnds
    \/ \E d \in DOMAIN delivery : DeliveryStep(d)

\* The goroutines run; a send ends at its timeout.
NotifyFairness ==
    /\ WF_notifyVars(TakeNotice \/ RunStep) /\ WF_notifyVars(RunEnds)
    /\ \A d \in Notices \X Channels : WF_notifyVars(DeliveryStep(d))

-----------------------------------------------------------------------------
NotifyTypeOK ==
    /\ unpublished \subseteq Notices /\ notices \in Seq(Notices) /\ Len(notices) <= NoticeBuffer
    /\ enabled \subseteq Channels /\ edits \in 0..MaxEdits /\ invalidating \in 0..edits
    /\ cached \in [fresh : BOOLEAN, list : SUBSET Channels]
    /\ run \in RunState
    /\ delivery \in [Notices \X Channels -> DeliveryState]
    /\ stopping \in BOOLEAN /\ cacheRaced \in BOOLEAN /\ distant \subseteq Channels

\* A channel that was switched off, or added, counts from the moment the
\* request that did it returns: the cache never holds an older list, unless
\* the list was being read while the request invalidated the cache. Excluded is a
\* channel that was edited through another core since this one read its list: it
\* counts here only when the list ages.
CacheFollowsEdits ==
    cached.fresh /\ invalidating = 0 /\ ~cacheRaced
       => \A ch \in Channels \ distant : ch \in cached.list <=> ch \in enabled

\* A slow or dead destination never holds the dispatcher up for good: a
\* delivery that started ends as sent or failed, also across a shutdown, and so
\* the semaphore always has room again.
DeliverySettles ==
    \A d \in Notices \X Channels :
        (delivery[d].at # "none") ~> (delivery[d].at \in {"sent", "failed"})
=============================================================================
