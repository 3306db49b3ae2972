--------------------------- MODULE BusProofs ---------------------------
(***************************************************************************)
(* The safety of PacketBus for any interfaces, channels and capacity.      *)
(***************************************************************************)
EXTENDS Bus, TLAPS

-----------------------------------------------------------------------------
(* The inductive invariant, by parts. *)

\* While a Publish holds the read lock, the channels it has left to do are
\* the ones in the map.
RestInv ==
    \A i \in Interfaces : publish[i].at = "sending" =>
        publish[i].rest \subseteq Subscribed(senders)

\* No channel has a message that its interface has yet to publish.
SeqInv ==
    \A ch \in Channels : \A n \in 1..Len(queue[ch]) :
        queue[ch][n].seq <= published[queue[ch][n].from]

\* The packet i publishes has yet to be offered to channel ch.
ToCome(i, ch) ==
    \/ publish[i].at = "blocked"
    \/ publish[i].at = "sending" /\ ch \in publish[i].rest

\* The message that is being published is in no channel that has not had
\* its turn.
TurnInv ==
    \A ch \in Channels : \A n \in 1..Len(queue[ch]) :
        ToCome(queue[ch][n].from, ch) =>
            queue[ch][n].seq < published[queue[ch][n].from]

IInv == TypeOK /\ RestInv /\ SeqInv /\ TurnInv /\ InOrder

-----------------------------------------------------------------------------

LEMMA InitIInv == Init => IInv
<1> SUFFICES ASSUME Init PROVE IInv
  OBVIOUS
<1> USE BusAssumption DEF Init
<1>1. TypeOK
  BY DEF TypeOK, Channels, Messages, Others
<1>2. RestInv
  BY DEF RestInv
<1>3. SeqInv /\ TurnInv /\ InOrder
  BY DEF SeqInv, TurnInv, InOrder
<1> QED
  BY <1>1, <1>2, <1>3 DEF IInv

\* The channels a Publish starts with are channels of the map.
LEMMA SendingType ==
    ASSUME NEW i \in Interfaces, NEW map
    PROVE  /\ Sending(i, map) \in [at : {"idle", "blocked", "sending"}, rest : SUBSET Channels]
           /\ Sending(i, map).at = "sending"
           /\ Sending(i, map).rest \subseteq Subscribed(map)
           /\ Sending(i, map).rest \subseteq Others(i)
  BY DEF Sending, Subscribed, Others

LEMMA TypeStep == TypeOK /\ [Next]_vars => TypeOK'
<1> SUFFICES ASSUME TypeOK, [Next]_vars PROVE TypeOK'
  OBVIOUS
<1> USE BusAssumption
<1>1. ASSUME NEW i \in Interfaces, PublishBegin(i) PROVE TypeOK'
  <2>1. publish' \in [Interfaces -> [at : {"idle", "blocked", "sending"}, rest : SUBSET Channels]]
    BY <1>1, SendingType DEF TypeOK, PublishBegin
  <2>2. \A j \in Interfaces : publish'[j].rest \subseteq Others(j)
    BY <1>1, SendingType DEF TypeOK, PublishBegin
  <2>3. published' \in [Interfaces -> Nat] /\ UNCHANGED <<senders, change, pending, queue>>
    BY <1>1 DEF TypeOK, PublishBegin
  <2> QED
    BY <2>1, <2>2, <2>3 DEF TypeOK
<1>2. ASSUME NEW i \in Interfaces, PublishOne(i) PROVE TypeOK'
  <2>1. PICK ch \in publish[i].rest :
          /\ publish' = [publish EXCEPT ![i].rest = @ \ {ch}]
          /\ queue' = IF Len(queue[ch]) < Cap
                      THEN [queue EXCEPT ![ch] = Append(@, [from |-> i, seq |-> published[i]])]
                      ELSE queue
    BY <1>2 DEF PublishOne
  <2>2. ch \in Channels /\ [from |-> i, seq |-> published[i]] \in Messages
    BY DEF TypeOK, Messages
  <2>3. publish' \in [Interfaces -> [at : {"idle", "blocked", "sending"}, rest : SUBSET Channels]]
    <3> DEFINE Calls == [at : {"idle", "blocked", "sending"}, rest : SUBSET Channels]
    <3>1. publish[i] \in Calls /\ publish \in [Interfaces -> Calls]
      BY DEF TypeOK
    <3>2. [publish[i] EXCEPT !.rest = @ \ {ch}] \in Calls
      BY <3>1
    <3>3. publish' = [publish EXCEPT ![i] = [publish[i] EXCEPT !.rest = @ \ {ch}]]
      BY <2>1
    <3> QED
      BY <3>1, <3>2, <3>3
  <2>4. queue' \in [Channels -> Seq(Messages)] /\ \A c \in Channels : Len(queue'[c]) <= Cap
    BY <2>1, <2>2 DEF TypeOK
  <2> QED
    BY <1>2, <2>3, <2>4 DEF TypeOK, PublishOne
<1>3. ASSUME NEW i \in Interfaces, PublishEnd(i) PROVE TypeOK'
  <2> DEFINE Calls == [at : {"idle", "blocked", "sending"}, rest : SUBSET Channels]
  <2>1. publish[i] \in Calls /\ publish \in [Interfaces -> Calls]
    BY DEF TypeOK
  <2>2. [publish[i] EXCEPT !.at = "idle"] \in Calls
    BY <2>1
  <2>3. publish' = [publish EXCEPT ![i] = [publish[i] EXCEPT !.at = "idle"]]
    BY <1>3 DEF PublishEnd
  <2>4. publish' \in [Interfaces -> Calls]
    BY <2>1, <2>2, <2>3
  <2> QED
    BY <1>3, <2>4 DEF TypeOK, PublishEnd
<1>4. ASSUME NEW i \in Interfaces, NEW to \in Generations \cup {None}, Ask(i, to) PROVE TypeOK'
  BY <1>4 DEF TypeOK, Ask
<1>5. ASSUME NEW i \in Interfaces, Announce(i) PROVE TypeOK'
  BY <1>5 DEF TypeOK, Announce
<1>6. ASSUME NEW i \in Interfaces, Change(i) PROVE TypeOK'
  <2>1. publish' \in [Interfaces -> [at : {"idle", "blocked", "sending"}, rest : SUBSET Channels]]
    BY <1>6, SendingType DEF TypeOK, Change
  <2>2. senders' \in [Interfaces -> Generations \cup {None}]
    BY <1>6 DEF TypeOK, Change
  <2>3. change' \in [Interfaces -> [at : {"idle", "asking"}, to : Generations \cup {None}]]
    BY <1>6 DEF TypeOK, Change
  <2>4. pending' = None /\ UNCHANGED <<queue, published>>
    BY <1>6 DEF Change
  <2>5. \A j \in Interfaces : publish'[j].rest \subseteq Others(j)
    BY <1>6, SendingType DEF TypeOK, Change
  <2> QED
    BY <2>1, <2>2, <2>3, <2>4, <2>5 DEF TypeOK
<1>7. ASSUME NEW ch \in Channels, Receive(ch) PROVE TypeOK'
  <2>1. queue' \in [Channels -> Seq(Messages)] /\ \A c \in Channels : Len(queue'[c]) <= Cap
    BY <1>7 DEF TypeOK, Receive
  <2> QED
    BY <1>7, <2>1 DEF TypeOK, Receive
<1>8. CASE UNCHANGED vars
  BY <1>8 DEF TypeOK, vars
<1> QED
  BY <1>1, <1>2, <1>3, <1>4, <1>5, <1>6, <1>7, <1>8 DEF Next

\* The channels left to do stay those of the map: it only changes when no
\* Publish holds the read lock.
LEMMA RestStep == TypeOK /\ RestInv /\ [Next]_vars => RestInv'
<1> SUFFICES ASSUME TypeOK, RestInv, [Next]_vars PROVE RestInv'
  OBVIOUS
<1>1. ASSUME NEW i \in Interfaces, PublishBegin(i) PROVE RestInv'
  BY <1>1, SendingType DEF TypeOK, RestInv, PublishBegin, Subscribed
<1>2. ASSUME NEW i \in Interfaces, PublishOne(i) PROVE RestInv'
  BY <1>2 DEF TypeOK, RestInv, PublishOne, Subscribed
<1>3. ASSUME NEW i \in Interfaces, PublishEnd(i) PROVE RestInv'
  BY <1>3 DEF TypeOK, RestInv, PublishEnd, Subscribed
<1>4. ASSUME NEW i \in Interfaces, Change(i) PROVE RestInv'
  <2>1. ASSUME NEW j \in Interfaces, publish'[j].at = "sending"
        PROVE  publish'[j] = Sending(j, senders')
    BY <1>4, <2>1 DEF Change
  <2>2. ASSUME NEW j \in Interfaces PROVE Sending(j, senders').rest \subseteq Subscribed(senders)'
    BY SendingType DEF Sending, Subscribed
  <2> QED
    BY <2>1, <2>2 DEF RestInv
<1>5. ASSUME UNCHANGED <<senders, publish>> PROVE RestInv'
  BY <1>5 DEF RestInv, Subscribed
<1> QED
  BY <1>1, <1>2, <1>3, <1>4, <1>5 DEF Next, Ask, Announce, Receive, vars

-----------------------------------------------------------------------------

\* The elements of the tail of a sequence.
LEMMA TailElements ==
    ASSUME NEW S, NEW s \in Seq(S), s # <<>>
    PROVE  /\ Len(s) \in Nat
           /\ Len(Tail(s)) = Len(s) - 1
           /\ \A n \in 1..Len(Tail(s)) : n + 1 \in 1..Len(s) /\ Tail(s)[n] = s[n + 1]
<1>1. Len(s) \in Nat /\ Len(s) # 0 /\ Len(Tail(s)) = Len(s) - 1
  OBVIOUS
<1>2. ASSUME NEW n \in 1..Len(Tail(s)) PROVE n + 1 \in 1..Len(s) /\ Tail(s)[n] = s[n + 1]
  BY <1>1
<1> QED
  BY <1>1, <1>2

(* What a step does to the messages of a channel. *)

\* The message i publishes is put at the end of one of the channels left.
LEMMA PublishOneStep ==
    ASSUME TypeOK, NEW i \in Interfaces, PublishOne(i)
    PROVE  \E ch \in publish[i].rest :
             /\ ch \in Channels
             /\ publish'[i] = [at |-> "sending", rest |-> publish[i].rest \ {ch}]
             /\ \A j \in Interfaces \ {i} : publish'[j] = publish[j]
             /\ \A c \in Channels \ {ch} : queue'[c] = queue[c]
             /\ \/ queue'[ch] = queue[ch]
                \/ queue'[ch] = Append(queue[ch], [from |-> i, seq |-> published[i]])
<1>1. PICK ch \in publish[i].rest :
        /\ publish' = [publish EXCEPT ![i].rest = @ \ {ch}]
        /\ queue' = IF Len(queue[ch]) < Cap
                    THEN [queue EXCEPT ![ch] = Append(@, [from |-> i, seq |-> published[i]])]
                    ELSE queue
  BY DEF PublishOne
<1>2. ch \in Channels /\ publish[i].at = "sending"
  BY DEF TypeOK, PublishOne
<1>3. /\ publish'[i] = [at |-> "sending", rest |-> publish[i].rest \ {ch}]
      /\ \A j \in Interfaces \ {i} : publish'[j] = publish[j]
  BY <1>1, <1>2 DEF TypeOK
<1>4. /\ \A c \in Channels \ {ch} : queue'[c] = queue[c]
      /\ \/ queue'[ch] = queue[ch]
         \/ queue'[ch] = Append(queue[ch], [from |-> i, seq |-> published[i]])
  BY <1>1, <1>2 DEF TypeOK
<1> QED
  BY <1>1, <1>2, <1>3, <1>4

\* A Subscribe or Unsubscribe lets a Publish that waits begin, and begins none
\* of its own.
LEMMA ChangeStep ==
    ASSUME TypeOK, NEW i \in Interfaces, Change(i), NEW j \in Interfaces, NEW ch, ToCome(j, ch)'
    PROVE  ToCome(j, ch)
<1>1. CASE publish[j].at = "blocked"
  BY <1>1 DEF ToCome
<1>2. CASE publish[j].at # "blocked"
  <2>1. publish'[j] = publish[j]
    BY <1>2 DEF Change, TypeOK
  <2> QED
    BY <2>1 DEF ToCome
<1> QED
  BY <1>1, <1>2

\* Order is kept, and with it what is known about the messages of a Publish
\* under way.
LEMMA OrderStep ==
    TypeOK /\ SeqInv /\ TurnInv /\ InOrder /\ [Next]_vars => (SeqInv /\ TurnInv /\ InOrder)'
<1> SUFFICES ASSUME TypeOK, SeqInv, TurnInv, InOrder, [Next]_vars
             PROVE  (SeqInv /\ TurnInv /\ InOrder)'
  OBVIOUS
<1>0. /\ \A ch \in Channels : queue[ch] \in Seq(Messages)
      /\ \A ch \in Channels : \A n \in 1..Len(queue[ch]) :
           queue[ch][n].from \in Interfaces /\ queue[ch][n].seq \in Nat
      /\ \A j \in Interfaces : published[j] \in Nat
  <2>1. \A ch \in Channels : queue[ch] \in Seq(Messages)
    BY DEF TypeOK
  <2>2. \A ch \in Channels : \A n \in 1..Len(queue[ch]) : queue[ch][n] \in Messages
    BY <2>1
  <2> QED
    BY <2>1, <2>2 DEF TypeOK, Messages
<1>1. ASSUME NEW i \in Interfaces, PublishBegin(i) PROVE (SeqInv /\ TurnInv /\ InOrder)'
  <2>1. /\ queue' = queue
        /\ published'[i] = published[i] + 1
        /\ \A j \in Interfaces \ {i} : published'[j] = published[j] /\ publish'[j] = publish[j]
    BY <1>1 DEF PublishBegin, TypeOK
  <2>2. \A j \in Interfaces \ {i} : \A ch : ToCome(j, ch)' => ToCome(j, ch)
    BY <2>1 DEF ToCome
  <2>3. SeqInv'
    BY <1>0, <2>1 DEF SeqInv
  <2>4. TurnInv'
    BY <1>0, <2>1, <2>2 DEF TurnInv, SeqInv
  <2> QED
    BY <2>1, <2>3, <2>4 DEF InOrder
<1>2. ASSUME NEW i \in Interfaces, PublishOne(i) PROVE (SeqInv /\ TurnInv /\ InOrder)'
  <2>1. PICK ch \in publish[i].rest :
          /\ ch \in Channels
          /\ publish'[i] = [at |-> "sending", rest |-> publish[i].rest \ {ch}]
          /\ \A j \in Interfaces \ {i} : publish'[j] = publish[j]
          /\ \A c \in Channels \ {ch} : queue'[c] = queue[c]
          /\ \/ queue'[ch] = queue[ch]
             \/ queue'[ch] = Append(queue[ch], [from |-> i, seq |-> published[i]])
    BY <1>2, PublishOneStep
  <2>2. published' = published /\ publish[i].at = "sending"
    BY <1>2 DEF PublishOne
  <2>3. \A j \in Interfaces : \A c \in Channels : ToCome(j, c)' => ToCome(j, c)
    BY <2>1, <2>2 DEF ToCome
  <2>4. ~ToCome(i, ch)'
    BY <2>1 DEF ToCome
  <2>5. ToCome(i, ch)
    BY <2>1, <2>2 DEF ToCome
  <2>6. CASE queue'[ch] = queue[ch]
    <3>1. \A c \in Channels : queue'[c] = queue[c]
      BY <2>1, <2>6
    <3> QED
      BY <1>0, <2>2, <2>3, <3>1 DEF SeqInv, TurnInv, InOrder
  <2>7. CASE queue'[ch] = Append(queue[ch], [from |-> i, seq |-> published[i]])
    <3>1. /\ Len(queue'[ch]) = Len(queue[ch]) + 1
          /\ Len(queue[ch]) \in Nat
          /\ \A n \in 1..Len(queue[ch]) : queue'[ch][n] = queue[ch][n]
          /\ queue'[ch][Len(queue[ch]) + 1] = [from |-> i, seq |-> published[i]]
      BY <1>0, <2>1, <2>7
    <3>2. \A n \in 1..Len(queue'[ch]) : n \in 1..Len(queue[ch]) \/ n = Len(queue[ch]) + 1
      BY <3>1
    <3>3. SeqInv'
      <4> SUFFICES ASSUME NEW c \in Channels, NEW n \in 1..Len(queue'[c])
                   PROVE  queue'[c][n].seq <= published[queue'[c][n].from]
        BY <2>2 DEF SeqInv
      <4>1. CASE c # ch
        BY <2>1, <4>1 DEF SeqInv
      <4>2. CASE c = ch /\ n \in 1..Len(queue[ch])
        BY <2>1, <3>1, <4>2 DEF SeqInv
      <4>3. CASE c = ch /\ n = Len(queue[ch]) + 1
        BY <1>0, <3>1, <4>3
      <4> QED
        BY <3>2, <4>1, <4>2, <4>3
    <3>4. TurnInv'
      <4> SUFFICES ASSUME NEW c \in Channels, NEW n \in 1..Len(queue'[c]),
                          ToCome(queue[c][n].from, c)'
                   PROVE  queue'[c][n].seq < published[queue'[c][n].from]
        BY <2>2 DEF TurnInv
      <4>1. CASE c # ch
        BY <1>0, <2>1, <2>3, <4>1 DEF TurnInv
      <4>2. CASE c = ch /\ n \in 1..Len(queue[ch])
        BY <1>0, <2>1, <2>3, <3>1, <4>2 DEF TurnInv
      <4>3. CASE c = ch /\ n = Len(queue[ch]) + 1
        <5>1. queue'[c][n].from = i
          BY <3>1, <4>3
        <5> QED
          BY <2>4, <4>3, <5>1
      <4> QED
        BY <3>2, <4>1, <4>2, <4>3
    <3>5. \A m \in 1..Len(queue[ch]) : queue[ch][m].from = i => queue[ch][m].seq < published[i]
      BY <2>1, <2>5 DEF TurnInv
    <3>6. InOrder'
      <4> SUFFICES ASSUME NEW c \in Channels, NEW m \in 1..Len(queue'[c]),
                          NEW n \in 1..Len(queue'[c]), m < n,
                          queue'[c][m].from = queue'[c][n].from
                   PROVE  queue'[c][m].seq < queue'[c][n].seq
        BY DEF InOrder
      <4>1. CASE c # ch
        BY <2>1, <4>1 DEF InOrder
      <4>2. CASE c = ch /\ n \in 1..Len(queue[ch])
        <5>1. m \in 1..Len(queue[ch])
          BY <3>1, <4>2
        <5> QED
          BY <2>1, <3>1, <4>2, <5>1 DEF InOrder
      <4>3. CASE c = ch /\ n = Len(queue[ch]) + 1
        <5>1. m \in 1..Len(queue[ch])
          BY <3>1, <4>3
        <5> QED
          BY <3>1, <3>5, <4>3, <5>1
      <4> QED
        BY <3>2, <4>1, <4>2, <4>3
    <3> QED
      BY <3>3, <3>4, <3>6
  <2> QED
    BY <2>1, <2>6, <2>7
<1>3. ASSUME NEW i \in Interfaces, PublishEnd(i) PROVE (SeqInv /\ TurnInv /\ InOrder)'
  <2>1. \A j \in Interfaces : \A ch : ToCome(j, ch)' => ToCome(j, ch)
    BY <1>3 DEF PublishEnd, TypeOK, ToCome
  <2> QED
    BY <1>0, <1>3, <2>1 DEF PublishEnd, SeqInv, TurnInv, InOrder
<1>4. ASSUME NEW i \in Interfaces, Change(i) PROVE (SeqInv /\ TurnInv /\ InOrder)'
  <2>1. \A j \in Interfaces : \A ch : ToCome(j, ch)' => ToCome(j, ch)
    BY <1>4, ChangeStep
  <2>2. UNCHANGED <<queue, published>>
    BY <1>4 DEF Change
  <2> QED
    BY <1>0, <2>1, <2>2 DEF SeqInv, TurnInv, InOrder
<1>5. ASSUME NEW ch \in Channels, Receive(ch) PROVE (SeqInv /\ TurnInv /\ InOrder)'
  <2>1. /\ UNCHANGED <<publish, published>>
        /\ \A c \in Channels \ {ch} : queue'[c] = queue[c]
        /\ queue'[ch] = Tail(queue[ch])
    BY <1>5 DEF Receive, TypeOK
  <2>2. /\ Len(queue[ch]) \in Nat
        /\ Len(queue'[ch]) = Len(queue[ch]) - 1
        /\ \A n \in 1..Len(queue'[ch]) :
             n + 1 \in 1..Len(queue[ch]) /\ queue'[ch][n] = queue[ch][n + 1]
    <3>1. queue[ch] \in Seq(Messages) /\ queue[ch] # <<>>
      BY <1>0, <1>5 DEF Receive
    <3>2. /\ Len(queue[ch]) \in Nat
          /\ Len(Tail(queue[ch])) = Len(queue[ch]) - 1
          /\ \A n \in 1..Len(Tail(queue[ch])) :
               n + 1 \in 1..Len(queue[ch]) /\ Tail(queue[ch])[n] = queue[ch][n + 1]
      BY <3>1, TailElements
    <3> QED
      BY <2>1, <3>2
  <2>4. SeqInv'
    <3> SUFFICES ASSUME NEW c \in Channels, NEW n \in 1..Len(queue'[c])
                 PROVE  queue'[c][n].seq <= published[queue'[c][n].from]
      BY <2>1 DEF SeqInv
    <3>1. CASE c # ch
      BY <2>1, <3>1 DEF SeqInv
    <3>2. CASE c = ch
      BY <2>1, <2>2, <3>2 DEF SeqInv
    <3> QED
      BY <3>1, <3>2
  <2>5. TurnInv'
    <3> SUFFICES ASSUME NEW c \in Channels, NEW n \in 1..Len(queue'[c])
                 PROVE  (ToCome(queue[c][n].from, c) =>
                             queue[c][n].seq < published[queue[c][n].from])'
      BY DEF TurnInv
    <3>1. CASE c # ch
      BY <2>1, <3>1 DEF TurnInv, ToCome
    <3>2. CASE c = ch
      <4>1. n + 1 \in 1..Len(queue[ch]) /\ queue'[ch][n] = queue[ch][n + 1]
        BY <2>2, <3>2
      <4> QED
        BY <2>1, <3>2, <4>1 DEF TurnInv, ToCome
    <3> QED
      BY <3>1, <3>2
  <2>6. InOrder'
    <3> SUFFICES ASSUME NEW c \in Channels, NEW m \in 1..Len(queue'[c]),
                        NEW n \in 1..Len(queue'[c]), m < n,
                        queue'[c][m].from = queue'[c][n].from
                 PROVE  queue'[c][m].seq < queue'[c][n].seq
      BY DEF InOrder
    <3>1. CASE c # ch
      BY <2>1, <3>1 DEF InOrder
    <3>2. CASE c = ch
      <4>1. /\ m + 1 \in 1..Len(queue[ch]) /\ queue'[ch][m] = queue[ch][m + 1]
            /\ n + 1 \in 1..Len(queue[ch]) /\ queue'[ch][n] = queue[ch][n + 1]
            /\ m + 1 < n + 1
        BY <2>2, <3>2
      <4> QED
        BY <3>2, <4>1 DEF InOrder
    <3> QED
      BY <3>1, <3>2
  <2> QED
    BY <2>4, <2>5, <2>6
<1>6. ASSUME UNCHANGED <<publish, queue, published>> PROVE (SeqInv /\ TurnInv /\ InOrder)'
  BY <1>6 DEF SeqInv, TurnInv, InOrder, ToCome
<1> QED
  BY <1>1, <1>2, <1>3, <1>4, <1>5, <1>6 DEF Next, Ask, Announce, vars

-----------------------------------------------------------------------------
(* The theorems. *)

LEMMA Inductive == Spec => []IInv
<1>1. IInv /\ [Next]_vars => IInv'
  BY TypeStep, RestStep, OrderStep DEF IInv
<1> QED
  BY <1>1, InitIInv, PTL DEF Spec

\* The map, the calls under way and the channels keep their types, no channel
\* is filled beyond its capacity, and no interface gets its own packets, for
\* any interfaces and capacity.
THEOREM TypeCorrect == Spec => []TypeOK
<1>1. IInv => TypeOK
  BY DEF IInv
<1> QED
  BY <1>1, Inductive, PTL

\* What an interface publishes arrives in order and never twice, however many
\* interfaces publish, subscribe and unsubscribe meanwhile.
THEOREM Ordered == Spec => []InOrder
<1>1. IInv => InOrder
  BY DEF IInv
<1> QED
  BY <1>1, Inductive, PTL

\* Once Unsubscribe has returned no Publish, not even one that was under way,
\* sends to the channel.
THEOREM QuietWhenUnsubscribed == Spec => QuietAfterUnsubscribe
<1> DEFINE Quiet == \A ch \in Channels :
        Len(queue'[ch]) > Len(queue[ch]) => ch \in Subscribed(senders)
<1>1. IInv /\ [Next]_vars => [Quiet]_vars
  <2> SUFFICES ASSUME TypeOK, RestInv, Next, NEW ch \in Channels,
                      Len(queue'[ch]) > Len(queue[ch])
               PROVE  ch \in Subscribed(senders)
    BY DEF IInv
  <2>0. queue[ch] \in Seq(Messages)
    BY DEF TypeOK
  <2>1. ASSUME NEW i \in Interfaces, PublishOne(i) PROVE ch \in Subscribed(senders)
    <3>1. ch \in publish[i].rest
      <4>1. PICK c \in publish[i].rest : \A d \in Channels \ {c} : queue'[d] = queue[d]
        BY <2>1, PublishOneStep
      <4>2. CASE ch # c
        BY <2>0, <4>1, <4>2
      <4> QED
        BY <4>1, <4>2
    <3> QED
      BY <2>1, <3>1 DEF PublishOne, RestInv
  <2>2. ASSUME NEW c \in Channels, Receive(c) PROVE FALSE
    <3>1. CASE c = ch
      <4>1. queue'[ch] = Tail(queue[ch]) /\ queue[ch] # <<>>
        BY <2>2, <3>1 DEF Receive, TypeOK
      <4>2. Len(queue'[ch]) = Len(queue[ch]) - 1
        BY <2>0, <4>1
      <4> QED
        BY <2>0, <4>2
    <3>2. CASE c # ch
      <4>1. queue'[ch] = queue[ch]
        BY <2>2, <3>2 DEF Receive, TypeOK
      <4> QED
        BY <2>0, <4>1
    <3> QED
      BY <3>1, <3>2
  <2>3. ASSUME UNCHANGED queue PROVE FALSE
    BY <2>0, <2>3
  <2> QED
    BY <2>1, <2>2, <2>3 DEF Next, PublishBegin, PublishEnd, Ask, Announce, Change
<1> QED
  BY <1>1, Inductive, PTL DEF Spec, QuietAfterUnsubscribe
=============================================================================
