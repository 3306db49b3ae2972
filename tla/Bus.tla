------------------------------ MODULE Bus ------------------------------
(***************************************************************************)
(* proxy.PacketBus with the ForwardingSinks that publish on it.  Each      *)
(* interface has a pipeline that publishes the packets that arrive on it,  *)
(* and a goroutine that subscribes, unsubscribes and receives.             *)
(*                                                                         *)
(* Publish iterates over the map under the read lock, a send at a time;    *)
(* Subscribe and Unsubscribe change the map under the write lock.  A       *)
(* sync.RWMutex lets no new reader in while a writer is waiting, and the   *)
(* readers that waited for a writer before the next writer.                *)
(***************************************************************************)
EXTENDS Integers, Sequences, Functions

CONSTANTS
    Interfaces,
    Generations,    \* names of the channels an interface subscribes in turn
    None,           \* the interface is not in the map
    Cap,            \* capacity of a channel
    MaxPublished    \* bound of the model: packets that are published

ASSUME BusAssumption ==
    /\ Cap \in Nat \ {0} /\ MaxPublished \in Nat
    /\ None \notin Interfaces \cup Generations

VARIABLES
    senders,    \* b.senders: the channel of each interface, or None
    publish,    \* each interface's Publish: its point, the channels left
    change,     \* each interface's Subscribe or Unsubscribe
    pending,    \* the interface whose Lock is announced to readers, or None
    queue,      \* the messages in each channel
    published   \* history: packets published by each interface

vars == <<senders, publish, change, pending, queue, published>>

Channels == Interfaces \X Generations
Messages == [from : Interfaces, seq : Nat]

\* The channels that a packet of interface i may go to.
Others(i) == {ch \in Channels : ch[1] # i}

TypeOK ==
    /\ senders \in [Interfaces -> Generations \cup {None}]
    /\ publish \in [Interfaces -> [at : {"idle", "blocked", "sending"}, rest : SUBSET Channels]]
    /\ \A i \in Interfaces : publish[i].rest \subseteq Others(i)
    /\ change \in [Interfaces -> [at : {"idle", "asking"}, to : Generations \cup {None}]]
    /\ pending \in Interfaces \cup {None}
    /\ queue \in [Channels -> Seq(Messages)]
    /\ \A ch \in Channels : /\ Len(queue[ch]) <= Cap
                            /\ \A n \in 1..Len(queue[ch]) : ch \in Others(queue[ch][n].from)
    /\ published \in [Interfaces -> Nat]

Init ==
    /\ senders = [i \in Interfaces |-> None]
    /\ publish = [i \in Interfaces |-> [at |-> "idle", rest |-> {}]]
    /\ change = [i \in Interfaces |-> [at |-> "idle", to |-> None]]
    /\ pending = None
    /\ queue = [ch \in Channels |-> <<>>]
    /\ published = [i \in Interfaces |-> 0]

Subscribed(map) == {ch \in Channels : map[ch[1]] = ch[2]}

\* Faulty variant: an interface gets its own packets back.
SendingToAll(i, map) == [at |-> "sending", rest |-> Subscribed(map)]

\* Publish holds the read lock and has the other interfaces' channels to do.
Sending(i, map) ==
    [at |-> "sending", rest |-> Subscribed(map) \cap Others(i)]

\* What MaxPublished bounds.
PublishedInAll == FoldFunction(+, 0, published)

-----------------------------------------------------------------------------
(* Publish *)

\* ForwardingSink.Write calls Publish, which asks for the read lock.
PublishBegin(i) ==
    /\ publish[i].at = "idle"
    /\ PublishedInAll < MaxPublished
    /\ published' = [published EXCEPT ![i] = @ + 1]
    /\ publish' = [publish EXCEPT ![i] =
           IF pending = None THEN Sending(i, senders)
                             ELSE [at |-> "blocked", rest |-> {}]]
    /\ UNCHANGED <<senders, change, pending, queue>>

\* Faulty variant: the send waits for room in the channel.
PublishOneWaiting(i) ==
    /\ publish[i].at = "sending"
    /\ \E ch \in publish[i].rest :
         /\ Len(queue[ch]) < Cap
         /\ publish' = [publish EXCEPT ![i].rest = @ \ {ch}]
         /\ queue' = [queue EXCEPT ![ch] = Append(@, [from |-> i, seq |-> published[i]])]
    /\ UNCHANGED <<senders, change, pending, published>>

\* Faulty variant: a message that found room is offered again.
PublishOneAgain(i) ==
    /\ publish[i].at = "sending"
    /\ \E ch \in publish[i].rest :
         /\ publish' = [publish EXCEPT ![i].rest = IF Len(queue[ch]) < Cap THEN @ ELSE @ \ {ch}]
         /\ queue' = IF Len(queue[ch]) < Cap
                     THEN [queue EXCEPT ![ch] = Append(@, [from |-> i, seq |-> published[i]])]
                     ELSE queue
    /\ UNCHANGED <<senders, change, pending, published>>

\* One channel of the map, in any order: the send is dropped when it is full.
PublishOne(i) ==
    /\ publish[i].at = "sending"
    /\ \E ch \in publish[i].rest :
         /\ publish' = [publish EXCEPT ![i].rest = @ \ {ch}]
         /\ queue' = IF Len(queue[ch]) < Cap
                     THEN [queue EXCEPT ![ch] = Append(@, [from |-> i, seq |-> published[i]])]
                     ELSE queue
    /\ UNCHANGED <<senders, change, pending, published>>

\* All channels done: the read lock is released.
PublishEnd(i) ==
    /\ publish[i].at = "sending" /\ publish[i].rest = {}
    /\ publish' = [publish EXCEPT ![i].at = "idle"]
    /\ UNCHANGED <<senders, change, pending, queue, published>>

-----------------------------------------------------------------------------
(* Subscribe and Unsubscribe *)

\* Subscribe(i, channel) and, with None, Unsubscribe(i) are called.
Ask(i, to) ==
    /\ change[i].at = "idle"
    /\ change' = [change EXCEPT ![i] = [at |-> "asking", to |-> to]]
    /\ UNCHANGED <<senders, publish, pending, queue, published>>

\* Lock: the first of the writers makes the readers that come later wait.
Announce(i) ==
    /\ change[i].at = "asking" /\ pending = None
    /\ pending' = i
    /\ UNCHANGED <<senders, publish, change, queue, published>>

\* Faulty variant: the map is changed while it is being iterated over.
ChangeUnlocked(i) ==
    /\ pending = i
    /\ senders' = [senders EXCEPT ![i] = change[i].to]
    /\ change' = [change EXCEPT ![i].at = "idle"]
    /\ pending' = None
    /\ publish' = [j \in Interfaces |->
           IF publish[j].at = "blocked" THEN Sending(j, senders') ELSE publish[j]]
    /\ UNCHANGED <<queue, published>>

\* The readers before it are gone: the map is changed, and Unlock lets the
\* readers that wait go on.
Change(i) ==
    /\ pending = i
    /\ \A j \in Interfaces : publish[j].at # "sending"
    /\ senders' = [senders EXCEPT ![i] = change[i].to]
    /\ change' = [change EXCEPT ![i].at = "idle"]
    /\ pending' = None
    /\ publish' = [j \in Interfaces |->
           IF publish[j].at = "blocked" THEN Sending(j, senders') ELSE publish[j]]
    /\ UNCHANGED <<queue, published>>

\* The goroutine of an interface receives from a channel.
Receive(ch) ==
    /\ queue[ch] # <<>>
    /\ queue' = [queue EXCEPT ![ch] = Tail(@)]
    /\ UNCHANGED <<senders, publish, change, pending, published>>

Next ==
    \/ \E i \in Interfaces :
         \/ PublishBegin(i) \/ PublishOne(i) \/ PublishEnd(i)
         \/ \E to \in Generations \cup {None} : Ask(i, to)
         \/ Announce(i) \/ Change(i)
    \/ \E ch \in Channels : Receive(ch)

Spec == Init /\ [][Next]_vars

(***************************************************************************)
(* Fairness.  A goroutine that can go on does (WF); sync.Mutex, which      *)
(* orders the writers, starves nobody (SF).  Nobody has to receive.        *)
(***************************************************************************)
Fairness ==
    \A i \in Interfaces :
        /\ WF_vars(PublishOne(i)) /\ WF_vars(PublishEnd(i))
        /\ SF_vars(Announce(i))
        /\ WF_vars(Change(i))

FairSpec == Spec /\ Fairness

-----------------------------------------------------------------------------
(* Properties *)

\* A message only goes to a channel that is subscribed at that moment: once
\* Unsubscribe or a new Subscribe has returned, the old channel is quiet and
\* its owner may drop or close it, whatever Publish was under way.
QuietAfterUnsubscribe ==
    [][\A ch \in Channels :
           Len(queue'[ch]) > Len(queue[ch]) => ch \in Subscribed(senders)]_vars

\* Messages of one interface arrive in the order of their publication and
\* never twice, with those in between dropped when the channel was full.
InOrder ==
    \A ch \in Channels : \A m, n \in 1..Len(queue[ch]) :
        m < n /\ queue[ch][m].from = queue[ch][n].from =>
            queue[ch][m].seq < queue[ch][n].seq

\* Publish, Subscribe and Unsubscribe return even if nobody ever receives:
\* a full channel delays neither the publisher nor who waits for the lock.
CallsReturn ==
    \A i \in Interfaces :
        /\ publish[i].at # "idle" ~> publish[i].at = "idle"
        /\ change[i].at # "idle" ~> change[i].at = "idle"
=============================================================================
