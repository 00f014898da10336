----------------------------- MODULE StateChain -----------------------------
(***************************************************************************)
(* An actor's event chain and its subscribers (crates/theater/src/chain).  *)
(*                                                                         *)
(* The chain sits behind a write lock.  It is written by the actor's       *)
(* operation loop (ActorStore::record_event) and by the theater command    *)
(* loop, which subscribes, unsubscribes and, in stop_actor, records the    *)
(* "shutdown" event before it drops its reference.  A writer keeps the     *)
(* lock while it hands its event to every subscriber's bounded channel.    *)
(* Hashes are abstracted to positions: event n is the one whose parent     *)
(* hash is that of event n - 1, so a subscriber that sees every number in  *)
(* order is one for which the hash links verify.                           *)
(***************************************************************************)
EXTENDS Integers, Sequences

CONSTANTS
    Subs,           \* subscribers: one channel each, all its senders alike
    Cap,            \* capacity of a subscriber's channel
    MaxEvents,      \* bound: events on the chain when the actor records one
    MaxSubscribes,  \* how often one subscriber may be registered
    Nobody          \* lock free; no subscriber

ASSUME ChainAssumption ==
    /\ Cap \in Nat \ {0}
    /\ MaxEvents \in Nat
    /\ MaxSubscribes \in Nat
    /\ Nobody \notin Subs \cup {"actor", "loop"}

VARIABLES
    kinds,   \* the events recorded so far: "wasm" or "shutdown" (current_hash = Len)
    subs,    \* the chain's Vec of senders
    buf,     \* each subscriber's channel
    got,     \* what each subscriber has received
    open,    \* subscribers whose receiver is alive
    lock,    \* who holds the chain's write lock
    idx,     \* dispatch: position in subs
    closed,  \* dispatch: closed_indices
    actor,   \* the operation loop: running, over, or aborted in a dispatch
    loop,    \* what the command loop is doing with this chain
    target,  \* the subscriber its command is about
    since,   \* history: events on the chain when a subscriber was last added
    times    \* history: how often each subscriber was added

vars == <<kinds, subs, buf, got, open, lock, idx, closed, actor, loop, target, since, times>>

Loops == {"idle", "subscribe", "unsubscribe", "stop", "stopped"}

TypeOK ==
    /\ kinds \in Seq({"wasm", "shutdown"})
    /\ subs \in Seq(Subs)
    /\ buf \in [Subs -> Seq(Nat)]
    /\ \A s \in Subs : Len(buf[s]) <= Cap
    /\ got \in [Subs -> Seq(Nat)]
    /\ open \subseteq Subs
    /\ lock \in {"actor", "loop", Nobody}
    /\ idx \in Nat
    /\ closed \in Seq(Nat)
    /\ lock # Nobody =>
           /\ idx \in 1 .. Len(subs) + 1
           /\ \A i \in DOMAIN closed : closed[i] \in 1 .. idx - 1
    /\ actor \in {"running", "over", "aborted"}
    /\ loop \in Loops
    /\ target \in Subs \cup {Nobody}
    /\ since \in [Subs -> Nat]
    /\ times \in [Subs -> Nat]

Init ==
    /\ kinds = <<>>
    /\ subs = <<>>
    /\ buf = [s \in Subs |-> <<>>]
    /\ got = [s \in Subs |-> <<>>]
    /\ open = Subs
    /\ lock = Nobody
    /\ idx = 0
    /\ closed = <<>>
    /\ actor = "running"
    /\ loop = "idle"
    /\ target = Nobody
    /\ since = [s \in Subs |-> 0]
    /\ times = [s \in Subs |-> 0]

-----------------------------------------------------------------------------
(* add_typed_event.                                                        *)

\* Mutant of Append1: the dispatch passes over the first subscriber.
AppendSkipping(w, kind) ==
    /\ lock = Nobody
    /\ lock' = w
    /\ kinds' = Append(kinds, kind)
    /\ idx' = IF subs = <<>> THEN 1 ELSE 2
    /\ closed' = <<>>

\* Hash the event on top of the head, advance the head, start dispatching.
Append1(w, kind) ==
    /\ lock = Nobody
    /\ lock' = w
    /\ kinds' = Append(kinds, kind)
    /\ idx' = 1
    /\ closed' = <<>>

ActorEvent ==
    /\ actor = "running"
    /\ Len(kinds) < MaxEvents
    /\ Append1("actor", "wasm")
    /\ UNCHANGED <<subs, buf, got, open, actor, loop, target, since, times>>

\* stop_actor's event.
LoopEvent ==
    /\ loop = "stop"
    /\ Append1("loop", "shutdown")
    /\ UNCHANGED <<subs, buf, got, open, actor, loop, target, since, times>>

\* Mutant: try_send, which drops the event when the channel is full.
TrySend ==
    /\ lock # Nobody
    /\ idx <= Len(subs)
    /\ subs[idx] \in open
    /\ buf' = [buf EXCEPT ![subs[idx]] = IF Len(@) < Cap THEN Append(@, Len(kinds)) ELSE @]
    /\ idx' = idx + 1
    /\ UNCHANGED <<kinds, subs, got, open, lock, closed, actor, loop, target, since, times>>

\* send().await on the next subscriber: it waits while the channel is full ...
Dispatch ==
    /\ lock # Nobody
    /\ idx <= Len(subs)
    /\ subs[idx] \in open
    /\ Len(buf[subs[idx]]) < Cap
    /\ buf' = [buf EXCEPT ![subs[idx]] = Append(@, Len(kinds))]
    /\ idx' = idx + 1
    /\ UNCHANGED <<kinds, subs, got, open, lock, closed, actor, loop, target, since, times>>

\* Mutant: a closed receiver is waited for like a full one.
WaitOnClosed ==
    /\ lock # Nobody
    /\ idx <= Len(subs)
    /\ subs[idx] \notin open
    /\ UNCHANGED vars

\* ... and fails when the receiver is gone.
DispatchClosed ==
    /\ lock # Nobody
    /\ idx <= Len(subs)
    /\ subs[idx] \notin open
    /\ closed' = Append(closed, idx)
    /\ idx' = idx + 1
    /\ UNCHANGED <<kinds, subs, buf, got, open, lock, actor, loop, target, since, times>>

\* Vec::swap_remove: the last element takes the removed one's place.
SwapRemove(q, i) == [j \in 1..(Len(q) - 1) |-> IF j = i THEN q[Len(q)] ELSE q[j]]

\* Mutant: lowest index first, so that the later indices have moved.
EvictForwards(q, c) ==
    LET left[k \in 0..Len(c)] == IF k = 0 THEN q ELSE SwapRemove(left[k - 1], c[k])
    IN  left[Len(c)]

\* The closed senders are evicted from the highest index down: left[k] is what
\* is left after k of them.
Evict(q, c) ==
    LET left[k \in 0..Len(c)] ==
            IF k = 0 THEN q ELSE SwapRemove(left[k - 1], c[Len(c) + 1 - k])
    IN  left[Len(c)]

\* End of add_typed_event.  For stop_actor the chain is then removed from the
\* runtime's map.
Dispatched ==
    /\ lock # Nobody
    /\ idx > Len(subs)
    /\ subs' = Evict(subs, closed)
    /\ lock' = Nobody
    /\ loop' = IF lock = "loop" THEN "stopped" ELSE loop
    /\ UNCHANGED <<kinds, buf, got, open, idx, closed, actor, target, since, times>>

-----------------------------------------------------------------------------
(* The command loop's other uses of the chain: SubscribeToActor and        *)
(* UnsubscribeFromActor.  Each waits for the lock with the loop.           *)

LoopCommand(c, s) ==
    /\ loop = "idle"
    /\ c = "subscribe" => times[s] < MaxSubscribes /\ s \in open
    /\ loop' = c
    /\ target' = IF c = "stop" THEN Nobody ELSE s
    /\ UNCHANGED <<kinds, subs, buf, got, open, lock, idx, closed, actor, since, times>>

\* add_subscriber.
AddSubscriber ==
    /\ loop = "subscribe"
    /\ lock = Nobody
    /\ subs' = Append(subs, target)
    /\ since' = [since EXCEPT ![target] = Len(kinds)]
    /\ times' = [times EXCEPT ![target] = @ + 1]
    /\ loop' = "idle"
    /\ target' = Nobody
    /\ UNCHANGED <<kinds, buf, got, open, lock, idx, closed, actor>>

\* remove_subscriber: the first sender of the same channel, if there is one.
RemoveSubscriber ==
    /\ loop = "unsubscribe"
    /\ lock = Nobody
    /\ \/ \E i \in DOMAIN subs :
             /\ subs[i] = target /\ \A j \in 1..(i - 1) : subs[j] # target
             /\ subs' = SwapRemove(subs, i)
       \/ /\ \A i \in DOMAIN subs : subs[i] # target
          /\ subs' = subs
    /\ loop' = "idle"
    /\ target' = Nobody
    /\ UNCHANGED <<kinds, buf, got, open, lock, idx, closed, actor, since, times>>

-----------------------------------------------------------------------------
(* The operation loop's end, and the subscribers.                          *)

\* The control loop's five seconds are over: the task is dropped where it
\* waits, and its guard with it.
ActorAbort ==
    /\ actor = "running"
    /\ lock = "actor"
    /\ idx <= Len(subs)
    /\ actor' = "aborted"
    /\ lock' = Nobody
    /\ UNCHANGED <<kinds, subs, buf, got, open, idx, closed, loop, target, since, times>>

ActorEnds ==
    /\ actor = "running"
    /\ lock # "actor"
    /\ actor' = "over"
    /\ UNCHANGED <<kinds, subs, buf, got, open, lock, idx, closed, loop, target, since, times>>

Receive(s) ==
    /\ s \in open
    /\ buf[s] # <<>>
    /\ got' = [got EXCEPT ![s] = Append(@, Head(buf[s]))]
    /\ buf' = [buf EXCEPT ![s] = Tail(@)]
    /\ UNCHANGED <<kinds, subs, open, lock, idx, closed, actor, loop, target, since, times>>

CloseReceiver(s) ==
    /\ s \in open
    /\ open' = open \ {s}
    /\ buf' = [buf EXCEPT ![s] = <<>>]
    /\ UNCHANGED <<kinds, subs, got, lock, idx, closed, actor, loop, target, since, times>>

ChainStep == Dispatch \/ DispatchClosed \/ Dispatched

LoopStep == LoopEvent \/ AddSubscriber \/ RemoveSubscriber

Next ==
    \/ ChainStep \/ LoopStep \/ ActorEvent \/ ActorAbort \/ ActorEnds
    \/ \E c \in {"subscribe", "unsubscribe", "stop"}, s \in Subs : LoopCommand(c, s)
    \/ \E s \in Subs : Receive(s) \/ CloseReceiver(s)

Spec == Init /\ [][Next]_vars

\* Tokio runs the writer that holds the lock, and its RwLock is first come first
\* served, so the command loop is not passed over for ever.  Nothing obliges a
\* subscriber to read.
Fairness == WF_vars(ChainStep) /\ SF_vars(LoopStep)

\* Subscribers that drain their channels.
LiveSpec == Spec /\ Fairness /\ \A s \in Subs : WF_vars(Receive(s))

-----------------------------------------------------------------------------
(* Properties.                                                             *)

\* What has been handed to a subscriber, read or not.
Stream(s) == got[s] \o buf[s]

Subscribed(s) == s \in open /\ \E i \in DOMAIN subs : subs[i] = s

\* add_subscriber does not look for the channel among those it has: one that is
\* registered twice is sent every event twice.  The theater server makes a channel
\* for each subscription, a supervisor has one for all its children.
Once(s) == times[s] <= 1

\* "A subscriber can verify the chain as it streams": what a subscriber gets
\* are consecutive events from its registration on, so that each one's parent
\* hash is the hash of the one before it.
HashLinksVerify ==
    \A s \in Subs : Once(s) => \A i \in DOMAIN Stream(s) : Stream(s)[i] = since[s] + i

\* "Chain completeness is preserved": a live subscriber gets every event after
\* its registration once and in order, and has them all when nobody dispatches.
\* Eviction of closed senders, other subscribers coming and going, and full
\* channels never make it miss one; only an abort in a dispatch does.  No channel
\* holds more than its capacity (TypeOK).  This is what send().await in
\* add_typed_event makes of it; the comments of add_subscriber and of
\* add_global_subscription say try_send, with events dropped for a subscriber
\* that lags, and do not describe this code.
Completeness ==
    /\ TypeOK
    /\ actor # "aborted" =>
        /\ HashLinksVerify
        /\ \A s \in Subs :
               Once(s) /\ Subscribed(s) /\ lock = Nobody => Len(Stream(s)) = Len(kinds) - since[s]

\* An abort in a dispatch, after which the head hash is that of an event which
\* not every subscriber was sent, costs a subscriber that one event at most: it
\* is sent the shutdown event after it, and sees no event twice or out of order.
AbortLosesOne ==
    \A s \in Subs : Once(s) =>
        /\ \A i \in DOMAIN Stream(s) : Stream(s)[i] \in since[s] + 1 .. Len(kinds)
        /\ \A i, j \in DOMAIN Stream(s) : i < j => Stream(s)[i] < Stream(s)[j]
        /\ Subscribed(s) /\ lock = Nobody => Len(Stream(s)) >= Len(kinds) - since[s] - 1

\* A receiver that has been closed is evicted by the next event: after a
\* dispatch no sender is left that had been found closed, and no other is lost.
EvictionExact ==
    [][(lock # Nobody /\ lock' = Nobody /\ idx > Len(subs)) =>
          \A s \in Subs :
              (\E i \in DOMAIN subs' : subs'[i] = s)
                <=> (\E i \in DOMAIN subs : subs[i] = s /\ \A k \in DOMAIN closed : closed[k] # i)]_vars

\* With subscribers that read, whatever the theater command loop starts on a
\* chain ends: to subscribe, to unsubscribe, to record the shutdown event.
LoopReturns == (loop \in {"subscribe", "unsubscribe", "stop"}) ~> (loop \in {"idle", "stopped"})

\* With subscribers that read or close, a dispatch always ends, whoever made it,
\* and the command loop is never left waiting for the chain.  It is left waiting
\* by one that does neither, although the comment of StateChain says that a slow
\* subscriber cannot stall it.
LockReleased == LoopReturns /\ ((lock # Nobody) ~> (lock = Nobody))

=============================================================================
