------------------------ MODULE PipelineProofs ------------------------
(***************************************************************************)
(* Packets and closing, for any number of pipelines, routes and stages,    *)
(* and whatever fails.  The invariant is stated of the run R of one        *)
(* pipeline and of how often its sinks were called, without the state, as  *)
(* no pipeline changes what belongs to another.                            *)
(***************************************************************************)
EXTENDS Pipeline, TLAPS

AllStages == AllProcessors \cup AllSinks

Runs == [at : {"running", "source", "sinks", "returned"}, chain : Seq(AllStages),
         route : Routes \cup {None}, targets : 0..MaxTargets, inner : Seq(AllStages)]

\* IsSuffix, element by element.
EndsWith(t, s) ==
    /\ Len(s) <= Len(t)
    /\ \A k \in 1..Len(s) : s[k] = t[Len(t) - Len(s) + k]

\* What is left on a level is the end of it, and a route that has begun is
\* not among what is left of the pipeline.
Place(R) ==
    /\ EndsWith(Stages(Main), R.chain)
    /\ R.inner # <<>> =>
         R.route \in Routes \ Range(R.chain) /\ EndsWith(Stages(R.route), R.inner)
    /\ R.targets > 0 => R.at = "running" /\ R.route \in Routes \ Range(R.chain)
    /\ R.at \in {"source", "returned"} => R.chain = <<>> /\ R.inner = <<>>

\* The sinks of a level have been given b packets, and those that are not
\* among the stages left one more.
Given(count, l, left, b) ==
    \A s \in Range(Sinks[l]) : count[s] = IF s \in Range(left) THEN b ELSE b + 1

InnerOf(R, r) == IF r = R.route THEN R.inner ELSE <<>>

\* The sinks of a level are called in turn; when a processor drops the
\* packet, none is.  A route is taken once per packet, and then as often as
\* there are targets.
GivenMain(R, count) ==
    \E b \in {-1, 0} : /\ Given(count, Main, R.chain, b)
                       /\ R.chain # <<>> => b = 0

GivenRoute(R, count, r) ==
    \E b \in -1..MaxTargets - 1 :
        /\ Given(count, r, InnerOf(R, r), b)
        /\ InnerOf(R, r) # <<>> => b >= 0
        /\ r \in Range(R.chain) => b = -1
        /\ r = R.route => b + 1 + R.targets <= MaxTargets

Even(R, count) ==
    GivenMain(R, count) /\ \A r \in Routes : GivenRoute(R, count, r)

LeftOf(R) ==
    IF R.inner # <<>> THEN R.inner ELSE IF R.targets > 0 THEN <<>> ELSE R.chain

OnWith(R, stages) ==
    IF R.inner # <<>> THEN [R EXCEPT !.inner = stages] ELSE [R EXCEPT !.chain = stages]

\* The sinks that closeAll has not closed yet.
Pending(R) ==
    Range(R.chain) \cup Range(R.inner)
        \cup UNION {Range(Sinks[r]) : r \in Routes \cap Range(R.chain)}

\* A source or sink is either closed, once, or will be.
Closing(R, count) ==
    /\ R.at \in {"running", "source"} => \A s \in Closers : count[s] = 0
    /\ R.at \in {"sinks", "returned"} =>
         /\ count[Source] = 1
         /\ \A s \in AllSinks \ Routes : count[s] = IF s \in Pending(R) THEN 0 ELSE 1

RunInv ==
    /\ run \in [Pipelines -> Runs]
    /\ offered \in [Pipelines -> [AllSinks -> 0..MaxTargets + 1]]
    /\ closed \in [Pipelines -> [Closers -> {0, 1}]]
    /\ \A p \in Pipelines :
         /\ Place(run[p])
         /\ run[p].at = "running" => Even(run[p], offered[p])
         /\ Closing(run[p], closed[p])

\* Whoever waits to print waits for a pipeline that is running and in its
\* DecodeProcessor, which nothing keeps from releasing the mutex: no failed
\* line, dropped packet or returned Run leaves it locked.
HolderGoesOn ==
    \A p \in Pipelines : output = p => AtStage(p, Decoders)

\* The small variables, and the holder of the mutex.
HolderInv ==
    /\ output \in Pipelines \cup {None} /\ cancelled \in BOOLEAN
    /\ HolderGoesOn

IInv == RunInv /\ HolderInv

-----------------------------------------------------------------------------
(* Sequences *)

LEMMA SuffixIsEnd ==
    ASSUME NEW S, NEW s \in Seq(S), NEW t \in Seq(S)
    PROVE  IsSuffix(s, t) <=> EndsWith(t, s)
<1> DEFINE n == Len(s)
           m == Len(t)
           rs == Reverse(s)
           rt == Reverse(t)
<1>1. /\ rs \in Seq(S) /\ Len(rs) = n /\ \A k \in 1..n : rs[k] = s[n - k + 1]
      /\ rt \in Seq(S) /\ Len(rt) = m /\ \A k \in 1..m : rt[k] = t[m - k + 1]
      /\ n \in Nat /\ m \in Nat
  BY DEF Reverse
<1> HIDE DEF rs, rt, n, m
<1>2. ASSUME n <= m
      PROVE  SubSeq(rs, 1, n) = SubSeq(rt, 1, n) <=> \A k \in 1..n : rs[k] = rt[k]
  <2>1. SubSeq(rs, 1, n) = [k \in 1..n |-> rs[k]]
    BY <1>1
  <2>2. SubSeq(rt, 1, n) = [k \in 1..n |-> rt[k]]
    BY <1>1, <1>2
  <2> QED
    BY <2>1, <2>2
<1>3. ASSUME n <= m
      PROVE  (\A k \in 1..n : rs[k] = rt[k]) <=> \A k \in 1..n : s[k] = t[m - n + k]
  <2>1. ASSUME \A k \in 1..n : rs[k] = rt[k], NEW k \in 1..n PROVE s[k] = t[m - n + k]
    <3> DEFINE j == n - k + 1
    <3>1. /\ j \in 1..n /\ n - j + 1 = k /\ m - j + 1 = m - n + k
          /\ j \in 1..m
      BY <1>1, <1>3
    <3> HIDE DEF j
    <3>2. rs[j] = s[k] /\ rt[j] = t[m - n + k] /\ rs[j] = rt[j]
      BY <1>1, <2>1, <3>1
    <3> QED
      BY <3>2
  <2>2. ASSUME \A k \in 1..n : s[k] = t[m - n + k], NEW k \in 1..n PROVE rs[k] = rt[k]
    <3> DEFINE j == n - k + 1
    <3>1. j \in 1..n /\ m - n + j = m - k + 1 /\ k \in 1..m
      BY <1>1, <1>3
    <3>2. rs[k] = s[j] /\ rt[k] = t[m - k + 1]
      BY <1>1, <3>1
    <3> HIDE DEF j
    <3> QED
      BY <2>2, <3>1, <3>2
  <2> QED
    BY <2>1, <2>2
<1> QED
  BY <1>1, <1>2, <1>3 DEF IsSuffix, IsPrefix, EndsWith, rs, rt, n, m

LEMMA EndOfEnd ==
    ASSUME NEW S, NEW t \in Seq(S)
    PROVE  /\ EndsWith(t, t) /\ EndsWith(t, <<>>)
           /\ \A s \in Seq(S) : s # <<>> /\ EndsWith(t, s) => EndsWith(t, Tail(s))
<1>1. EndsWith(t, t) /\ EndsWith(t, <<>>)
  BY DEF EndsWith
<1>2. ASSUME NEW s \in Seq(S), s # <<>>, EndsWith(t, s) PROVE EndsWith(t, Tail(s))
  <2>1. /\ Len(Tail(s)) = Len(s) - 1 /\ Len(s) \in Nat \ {0} /\ Len(t) \in Nat
        /\ \A k \in 1..Len(s) - 1 : Tail(s)[k] = s[k + 1]
    BY <1>2
  <2>2. ASSUME NEW k \in 1..Len(s) - 1
        PROVE  Tail(s)[k] = t[Len(t) - (Len(s) - 1) + k]
    <3>1. k + 1 \in 1..Len(s) /\ Len(t) - Len(s) + (k + 1) = Len(t) - (Len(s) - 1) + k
      BY <2>1
    <3> QED
      BY <1>2, <2>1, <3>1 DEF EndsWith
  <2>3. Len(s) - 1 <= Len(t) /\ Len(s) - 1 \in Nat
    BY <1>2, <2>1 DEF EndsWith
  <2> DEFINE r == Tail(s)
  <2>4. Len(r) <= Len(t) /\ \A k \in 1..Len(r) : r[k] = t[Len(t) - Len(r) + k]
    <3>1. Len(r) = Len(s) - 1
      BY <2>1
    <3> HIDE DEF r
    <3> QED
      BY <2>2, <2>3, <3>1 DEF r
  <2> QED
    BY <2>4 DEF EndsWith
<1> QED
  BY <1>1, <1>2

-----------------------------------------------------------------------------
(* The stages *)

LEMMA Wiring ==
    /\ \A l \in Levels : /\ Processors[l] \in Seq(AllStages) /\ Sinks[l] \in Seq(AllStages)
                         /\ Stages(l) \in Seq(AllStages)
                         /\ Range(Processors[l]) \subseteq AllProcessors
                         /\ Range(Sinks[l]) \subseteq AllSinks
    /\ \A s \in AllSinks : \E l \in Levels : s \in Range(Sinks[l])
    /\ \A l, m \in Levels : l # m => Range(Sinks[l]) \cap Range(Sinks[m]) = {}
    /\ Main \in Levels /\ Routes \subseteq Levels
<1>1. ASSUME NEW l \in Levels
      PROVE  /\ Processors[l] \in Seq(AllStages) /\ Sinks[l] \in Seq(AllStages)
             /\ Range(Processors[l]) \subseteq AllProcessors
             /\ Range(Sinks[l]) \subseteq AllSinks
  <2>1. Processors[l] \in Seq(AllProcessors) /\ Sinks[l] \in Seq(AllSinks)
    BY PipelineAssumption
  <2>2. AllProcessors \subseteq AllStages /\ AllSinks \subseteq AllStages
    BY DEF AllStages
  <2> HIDE DEF AllStages
  <2> QED
    BY <2>1, <2>2 DEF AllProcessors, AllSinks
<1>2. ASSUME NEW l \in Levels PROVE Stages(l) \in Seq(AllStages)
  BY <1>1 DEF Stages
<1>3. \A s \in AllSinks : \E l \in Levels : s \in Range(Sinks[l])
  BY DEF AllSinks
<1>4. \A l, m \in Levels : l # m => Range(Sinks[l]) \cap Range(Sinks[m]) = {}
  BY WiredOnce DEF Range
<1> QED
  BY <1>1, <1>2, <1>3, <1>4 DEF Levels

LEMMA SinksAreStages ==
    ASSUME NEW l \in Levels
    PROVE  Range(Sinks[l]) \subseteq Range(Stages(l)) /\ EndsWith(Stages(l), Sinks[l])
<1> DEFINE P == Processors[l]
           Q == Sinks[l]
<1>1. P \in Seq(AllStages) /\ Q \in Seq(AllStages)
  BY Wiring
<1> HIDE DEF P, Q
<1>2. /\ Len(P \o Q) = Len(P) + Len(Q) /\ Len(P) \in Nat /\ Len(Q) \in Nat
      /\ DOMAIN Q = 1..Len(Q) /\ DOMAIN (P \o Q) = 1..Len(P) + Len(Q)
      /\ \A k \in 1..Len(Q) : (P \o Q)[Len(P) + k] = Q[k]
  BY <1>1
<1>3. /\ Len(Q) <= Len(P \o Q) /\ Len(P \o Q) - Len(Q) = Len(P)
      /\ \A k \in 1..Len(Q) : Len(P) + k \in DOMAIN (P \o Q)
  BY <1>2
<1>4. EndsWith(P \o Q, Q)
  BY <1>2, <1>3 DEF EndsWith
<1>5. Range(Q) \subseteq Range(P \o Q)
  BY <1>2, <1>3 DEF Range
<1> QED
  BY <1>4, <1>5 DEF P, Q, Stages

\* What is left of a level after the stage at its head.
LEMMA HeadOfLevel ==
    ASSUME NEW l \in Levels, NEW left \in Seq(AllStages), EndsWith(Stages(l), left),
           left # <<>>
    PROVE  /\ Head(left) \in AllStages /\ Tail(left) \in Seq(AllStages)
           /\ EndsWith(Stages(l), Tail(left))
           /\ Range(Tail(left)) \subseteq Range(left) /\ Head(left) \in Range(left)
           /\ Range(left) \cap AllSinks \subseteq Range(Sinks[l])
           /\ Head(left) \in AllSinks =>
                \A s \in AllSinks : s \in Range(Tail(left)) <=> s \in Range(left) /\ s # Head(left)
           /\ Head(left) \in AllProcessors =>
                Range(Sinks[l]) \subseteq Range(left) /\ Range(Sinks[l]) \subseteq Range(Tail(left))
<1> DEFINE n == Len(left)
           m == Len(Processors[l])
           k0 == Len(Stages(l)) - n
<1>1. /\ Head(left) = left[1] /\ n \in Nat \ {0} /\ DOMAIN left = 1..n
      /\ Tail(left) \in Seq(AllStages) /\ DOMAIN Tail(left) = 1..n - 1
      /\ \A k \in 1..n - 1 : Tail(left)[k] = left[k + 1]
      /\ \A k \in 1..n : left[k] \in AllStages
  OBVIOUS
<1>2. /\ Len(Stages(l)) = m + Len(Sinks[l]) /\ m \in Nat /\ Len(Sinks[l]) \in Nat
      /\ DOMAIN Sinks[l] = 1..Len(Sinks[l]) /\ DOMAIN Processors[l] = 1..m
      /\ \A k \in 1..m : Stages(l)[k] = Processors[l][k]
      /\ \A k \in 1..Len(Sinks[l]) : Stages(l)[m + k] = Sinks[l][k]
  <2>1. Processors[l] \in Seq(AllStages) /\ Sinks[l] \in Seq(AllStages)
    BY Wiring
  <2> DEFINE P == Processors[l]
             Q == Sinks[l]
  <2>2. P \in Seq(AllStages) /\ Q \in Seq(AllStages)
    BY <2>1
  <2> HIDE DEF P, Q
  <2>3. /\ Len(P \o Q) = Len(P) + Len(Q) /\ Len(P) \in Nat /\ Len(Q) \in Nat
        /\ DOMAIN P = 1..Len(P) /\ DOMAIN Q = 1..Len(Q)
        /\ \A k \in 1..Len(P) : (P \o Q)[k] = P[k]
        /\ \A k \in 1..Len(Q) : (P \o Q)[Len(P) + k] = Q[k]
    BY <2>2
  <2> QED
    BY <2>3 DEF P, Q, Stages
<1>3. n <= Len(Stages(l)) /\ \A k \in 1..n : left[k] = Stages(l)[k0 + k]
  BY DEF EndsWith
<1> HIDE DEF n, m, k0
<1>4. /\ k0 \in Nat /\ k0 + n = m + Len(Sinks[l])
  BY <1>1, <1>2, <1>3 DEF k0, n
<1>5. ASSUME NEW k \in 1..n, k0 + k <= m PROVE left[k] \in AllProcessors
  <2>1. k0 + k \in 1..m
    BY <1>2, <1>4, <1>5
  <2> QED
    BY <1>2, <1>3, <2>1, Wiring DEF Range
<1>6. ASSUME NEW k \in 1..n, k0 + k > m
      PROVE  /\ k0 + k - m \in DOMAIN Sinks[l] /\ left[k] = Sinks[l][k0 + k - m]
             /\ left[k] \in Range(Sinks[l])
  <2>1. k0 + k - m \in 1..Len(Sinks[l]) /\ m + (k0 + k - m) = k0 + k
    BY <1>1, <1>2, <1>4, <1>6
  <2> QED
    BY <1>2, <1>3, <2>1 DEF Range
<1>7. /\ Range(Tail(left)) \subseteq Range(left) /\ Head(left) \in Range(left)
      /\ Range(left) \subseteq Range(Tail(left)) \cup {Head(left)}
  <2>1. \A k \in 1..n - 1 : k + 1 \in 1..n
    BY <1>1
  <2>2. \A k \in 1..n : k = 1 \/ (k - 1 \in 1..n - 1 /\ (k - 1) + 1 = k)
    BY <1>1
  <2>3. 1 \in 1..n
    BY <1>1
  <2>4. ASSUME NEW k \in 1..n PROVE left[k] \in Range(Tail(left)) \cup {Head(left)}
    <3>1. CASE k = 1
      BY <1>1, <3>1
    <3>2. CASE k - 1 \in 1..n - 1
      <4>1. Tail(left)[k - 1] = left[k]
        BY <1>1, <2>2, <3>2
      <4> QED
        BY <1>1, <3>2, <4>1 DEF Range
    <3> QED
      BY <2>2, <3>1, <3>2
  <2>5. \A k \in 1..n - 1 : Tail(left)[k] \in Range(left)
    BY <1>1, <2>1 DEF Range
  <2>6. Range(left) = {left[k] : k \in 1..n} /\ Range(Tail(left)) = {Tail(left)[k] : k \in 1..n - 1}
    BY <1>1 DEF Range
  <2> QED
    BY <1>1, <2>3, <2>4, <2>5, <2>6
<1>8. Range(left) \cap AllSinks \subseteq Range(Sinks[l])
  <2>1. SUFFICES ASSUME NEW k \in 1..n, left[k] \in AllSinks
                 PROVE  left[k] \in Range(Sinks[l])
    BY <1>1 DEF Range
  <2>2. ~(k0 + k <= m)
    BY <1>5, <2>1, PipelineAssumption
  <2> QED
    BY <1>1, <1>2, <1>4, <1>6, <2>2
<1>9. ASSUME Head(left) \in AllSinks PROVE Head(left) \notin Range(Tail(left))
  <2>1. SUFFICES ASSUME NEW k \in 1..n - 1, left[k + 1] = left[1]
                 PROVE  FALSE
    BY <1>1 DEF Range
  <2>2. k + 1 \in 1..n /\ 1 \in 1..n
    BY <1>1
  <2>3. k0 + 1 > m
    BY <1>1, <1>2, <1>4, <1>5, <1>9, <2>2, PipelineAssumption
  <2>4. k0 + (k + 1) > m
    BY <1>2, <1>4, <2>3
  <2>5. /\ k0 + 1 - m \in DOMAIN Sinks[l] /\ left[1] = Sinks[l][k0 + 1 - m]
        /\ k0 + (k + 1) - m \in DOMAIN Sinks[l] /\ left[k + 1] = Sinks[l][k0 + (k + 1) - m]
    BY <1>6, <2>2, <2>3, <2>4
  <2>6. k0 + 1 - m = k0 + (k + 1) - m
    BY <2>1, <2>5, WiredOnce
  <2> QED
    BY <1>2, <1>4, <2>6
<1>10. ASSUME Head(left) \in AllProcessors
       PROVE  Range(Sinks[l]) \subseteq Range(Tail(left))
  <2>1. k0 + 1 <= m
    <3>1. 1 \in 1..n /\ left[1] \notin AllSinks
      BY <1>1, <1>10, PipelineAssumption
    <3>2. ~(k0 + 1 > m)
      BY <1>6, <3>1, Wiring
    <3> QED
      BY <1>2, <1>4, <3>2
  <2>2. SUFFICES ASSUME NEW k \in 1..Len(Sinks[l]) PROVE Sinks[l][k] \in Range(Tail(left))
    BY <1>2 DEF Range
  <2> DEFINE i == m + k - k0 - 1
  <2>3. i \in 1..n - 1 /\ i + 1 \in 1..n /\ k0 + (i + 1) = m + k
    BY <1>1, <1>2, <1>4, <2>1
  <2>4. Tail(left)[i] = Stages(l)[m + k]
    BY <1>1, <1>3, <2>3
  <2> HIDE DEF i
  <2> QED
    BY <1>1, <1>2, <2>3, <2>4 DEF Range
<1>11. EndsWith(Stages(l), Tail(left))
  BY EndOfEnd, Wiring
<1> QED
  BY <1>1, <1>7, <1>8, <1>9, <1>10, <1>11

-----------------------------------------------------------------------------
(* Counting *)

LEMMA TakeSink ==
    ASSUME NEW l \in Levels, NEW left \in Seq(AllStages), EndsWith(Stages(l), left),
           left # <<>>, Head(left) \in AllSinks,
           NEW count \in [AllSinks -> Int], NEW b \in Int, Given(count, l, left, b),
           NEW next, next = [count EXCEPT ![Head(left)] = @ + 1]
    PROVE  /\ Given(next, l, Tail(left), b)
           /\ \A m \in Levels \ {l} : \A other, d :
                Given(count, m, other, d) => Given(next, m, other, d)
           /\ next \in [AllSinks -> Int]
<1>1. /\ Head(left) \in Range(Sinks[l]) /\ Head(left) \in Range(left)
      /\ \A s \in AllSinks : s \in Range(Tail(left)) <=> s \in Range(left) /\ s # Head(left)
  BY HeadOfLevel
<1>2. /\ \A s \in AllSinks : next[s] = IF s = Head(left) THEN count[s] + 1 ELSE count[s]
      /\ next \in [AllSinks -> Int]
  OBVIOUS
<1>3. Range(Sinks[l]) \subseteq AllSinks
  BY Wiring
<1>4. Given(next, l, Tail(left), b)
  BY <1>1, <1>2, <1>3 DEF Given
<1>5. ASSUME NEW m \in Levels \ {l}, NEW other, NEW d, Given(count, m, other, d)
      PROVE  Given(next, m, other, d)
  <2>1. Range(Sinks[m]) \subseteq AllSinks /\ Head(left) \notin Range(Sinks[m])
    BY <1>1, Wiring
  <2> QED
    BY <1>2, <1>5, <2>1 DEF Given
<1> QED
  BY <1>2, <1>4, <1>5

LEMMA TakeProcessor ==
    ASSUME NEW l \in Levels, NEW left \in Seq(AllStages), EndsWith(Stages(l), left),
           left # <<>>, Head(left) \in AllProcessors,
           NEW count, NEW b \in Int, Given(count, l, left, b)
    PROVE  Given(count, l, Tail(left), b) /\ Given(count, l, <<>>, b - 1)
<1>1. Range(Sinks[l]) \subseteq Range(left) /\ Range(Sinks[l]) \subseteq Range(Tail(left))
  BY HeadOfLevel
<1>2. Range(<<>>) = {} /\ (b - 1) + 1 = b
  BY DEF Range
<1> QED
  BY <1>1, <1>2 DEF Given

-----------------------------------------------------------------------------
(* The run of one pipeline *)

\* The level a run is on.
LEMMA OnLevel ==
    ASSUME NEW R \in Runs, Place(R), LeftOf(R) # <<>>
    PROVE  \/ /\ R.inner # <<>> /\ LeftOf(R) = R.inner
              /\ R.route \in Routes /\ R.route \notin Range(R.chain)
              /\ R.inner \in Seq(AllStages) /\ EndsWith(Stages(R.route), R.inner)
           \/ /\ R.inner = <<>> /\ LeftOf(R) = R.chain /\ R.targets = 0
              /\ R.chain \in Seq(AllStages) /\ R.chain # <<>> /\ EndsWith(Stages(Main), R.chain)
<1>1. R.inner \in Seq(AllStages) /\ R.chain \in Seq(AllStages) /\ R.targets \in 0..MaxTargets
  BY DEF Runs
<1> QED
  BY <1>1, PipelineAssumption DEF LeftOf, Place

LEMMA OnPlace ==
    ASSUME NEW R \in Runs, Place(R), LeftOf(R) # <<>>,
           NEW stages \in {Tail(LeftOf(R)), <<>>}
    PROVE  LET new == OnWith(R, stages)
           IN  /\ new \in Runs /\ Place(new) /\ new.at = R.at
               /\ new.route = R.route /\ new.targets = R.targets
               /\ R.inner # <<>> => new.inner = stages /\ new.chain = R.chain
               /\ R.inner = <<>> => new.chain = stages /\ new.inner = <<>>
<1> DEFINE new == OnWith(R, stages)
<1>1. stages \in Seq(AllStages)
  <2>1. LeftOf(R) \in Seq(AllStages)
    BY OnLevel
  <2> DEFINE left == LeftOf(R)
  <2>2. left \in Seq(AllStages) /\ left # <<>>
    BY <2>1
  <2> HIDE DEF left
  <2>3. Tail(left) \in Seq(AllStages) /\ <<>> \in Seq(AllStages)
    BY <2>2
  <2> QED
    BY <2>3 DEF left
<1>2. /\ new \in Runs /\ new.at = R.at /\ new.route = R.route /\ new.targets = R.targets
      /\ R.inner # <<>> => new.inner = stages /\ new.chain = R.chain
      /\ R.inner = <<>> => new.chain = stages /\ new.inner = <<>>
  BY <1>1 DEF Runs, OnWith
<1> HIDE DEF new
<1>3. CASE R.inner # <<>>
  <2>1. EndsWith(Stages(R.route), stages)
    <3>1. /\ R.inner \in Seq(AllStages) /\ EndsWith(Stages(R.route), R.inner)
          /\ LeftOf(R) = R.inner /\ R.route \in Levels
      BY <1>3, OnLevel, Wiring
    <3>2. Stages(R.route) \in Seq(AllStages)
      BY <3>1, Wiring
    <3>3. EndsWith(Stages(R.route), Tail(R.inner)) /\ EndsWith(Stages(R.route), <<>>)
      BY <1>3, <3>1, <3>2, EndOfEnd
    <3> QED
      BY <3>1, <3>3
  <2> QED
    BY <1>2, <1>3, <2>1 DEF Place, new
<1>4. CASE R.inner = <<>>
  <2>1. EndsWith(Stages(Main), stages) /\ R.targets = 0
    <3>1. /\ R.chain \in Seq(AllStages) /\ EndsWith(Stages(Main), R.chain)
          /\ LeftOf(R) = R.chain /\ R.chain # <<>> /\ R.targets = 0
      BY <1>4, OnLevel
    <3>2. Stages(Main) \in Seq(AllStages)
      BY Wiring
    <3>3. EndsWith(Stages(Main), Tail(R.chain)) /\ EndsWith(Stages(Main), <<>>)
      BY <3>1, <3>2, EndOfEnd
    <3> QED
      BY <3>1, <3>3
  <2>2. R.at \notin {"source", "returned"}
    BY <1>4, OnLevel DEF Place
  <2> QED
    BY <1>2, <1>4, <2>1, <2>2 DEF Place, new
<1> QED
  BY <1>2, <1>3, <1>4 DEF new

LEMMA EvenProcessor ==
    ASSUME NEW R \in Runs, Place(R), LeftOf(R) # <<>>, Head(LeftOf(R)) \in AllProcessors,
           NEW count, Even(R, count), NEW stages \in {Tail(LeftOf(R)), <<>>}
    PROVE  Even(OnWith(R, stages), count)
<1> DEFINE new == OnWith(R, stages)
<1>1. /\ new \in Runs /\ new.route = R.route /\ new.targets = R.targets
      /\ R.inner # <<>> => new.inner = stages /\ new.chain = R.chain
      /\ R.inner = <<>> => new.chain = stages /\ new.inner = <<>>
  BY OnPlace
<1> HIDE DEF new
<1>2. CASE R.inner # <<>>
  <2>1. GivenMain(new, count)
    BY <1>1, <1>2 DEF Even, GivenMain
  <2>2. ASSUME NEW r \in Routes PROVE GivenRoute(new, count, r)
    <3>1. CASE r = R.route
      <4>1. PICK b \in -1..MaxTargets - 1 :
              /\ Given(count, r, R.inner, b) /\ b >= 0
              /\ b + 1 + R.targets <= MaxTargets
        BY <1>2, <3>1 DEF Even, GivenRoute, InnerOf
      <4>2. r \notin Range(R.chain)
        BY <1>2, <3>1 DEF Place
      <4>3. Given(count, r, Tail(R.inner), b) /\ Given(count, r, <<>>, b - 1)
        BY <1>2, <3>1, <4>1, OnLevel, TakeProcessor, Wiring
      <4>4. R.targets \in Nat /\ LeftOf(R) = R.inner
        BY <1>2 DEF Runs, LeftOf
      <4>5. CASE stages = Tail(R.inner)
        BY <1>1, <1>2, <3>1, <4>1, <4>2, <4>3, <4>5 DEF GivenRoute, InnerOf
      <4>6. CASE stages = <<>>
        <5>1. b - 1 \in -1..MaxTargets - 1 /\ (b - 1) + 1 + R.targets <= MaxTargets
          BY <4>1, <4>4, PipelineAssumption
        <5> QED
          BY <1>1, <1>2, <3>1, <4>2, <4>3, <4>6, <5>1 DEF GivenRoute, InnerOf
      <4> QED
        BY <4>4, <4>5, <4>6
    <3>2. CASE r # R.route
      BY <1>1, <1>2, <3>2 DEF Even, GivenRoute, InnerOf
    <3> QED
      BY <3>1, <3>2
  <2> QED
    BY <2>1, <2>2 DEF Even, new
<1>3. CASE R.inner = <<>>
  <2>1. GivenMain(new, count)
    <3>1. R.chain # <<>> /\ LeftOf(R) = R.chain
      BY <1>3, OnLevel
    <3>2. Given(count, Main, R.chain, 0)
      BY <3>1 DEF Even, GivenMain
    <3>3. Given(count, Main, Tail(R.chain), 0) /\ Given(count, Main, <<>>, -1)
      BY <1>3, <3>1, <3>2, OnLevel, TakeProcessor, Wiring
    <3> QED
      BY <1>1, <1>3, <3>1, <3>3 DEF GivenMain
  <2>2. ASSUME NEW r \in Routes PROVE GivenRoute(new, count, r)
    <3>1. Range(stages) \subseteq Range(R.chain)
      <4>1. Range(Tail(R.chain)) \subseteq Range(R.chain) /\ LeftOf(R) = R.chain
        BY <1>3, OnLevel, HeadOfLevel, Wiring
      <4> QED
        BY <4>1 DEF Range
    <3> QED
      BY <1>1, <1>3, <3>1 DEF Even, GivenRoute, InnerOf
  <2> QED
    BY <2>1, <2>2 DEF Even, new
<1> QED
  BY <1>2, <1>3

LEMMA EvenSink ==
    ASSUME NEW R \in Runs, Place(R), LeftOf(R) # <<>>, Head(LeftOf(R)) \in AllSinks,
           NEW count \in [AllSinks -> Int], Even(R, count),
           NEW next, next = [count EXCEPT ![Head(LeftOf(R))] = @ + 1]
    PROVE  Even(OnWith(R, Tail(LeftOf(R))), next)
<1> DEFINE new == OnWith(R, Tail(LeftOf(R)))
<1>1. /\ new.route = R.route /\ new.targets = R.targets
      /\ R.inner # <<>> => new.inner = Tail(LeftOf(R)) /\ new.chain = R.chain
      /\ R.inner = <<>> => new.chain = Tail(LeftOf(R)) /\ new.inner = <<>>
  BY OnPlace
<1> HIDE DEF new
<1>2. CASE R.inner # <<>>
  <2>1. /\ LeftOf(R) = R.inner /\ R.route \in Routes /\ R.route \in Levels \ {Main}
        /\ R.inner \in Seq(AllStages) /\ EndsWith(Stages(R.route), R.inner)
        /\ R.route \notin Range(R.chain)
    BY <1>2, OnLevel, PipelineAssumption DEF Levels
  <2>2. PICK b \in -1..MaxTargets - 1 :
          /\ Given(count, R.route, R.inner, b) /\ b >= 0
          /\ b + 1 + R.targets <= MaxTargets
    BY <1>2, <2>1 DEF Even, GivenRoute, InnerOf
  <2>3. /\ Given(next, R.route, Tail(R.inner), b)
        /\ \A m \in Levels \ {R.route} : \A other, d :
             Given(count, m, other, d) => Given(next, m, other, d)
    <3>1. /\ next = [count EXCEPT ![Head(R.inner)] = @ + 1] /\ Head(R.inner) \in AllSinks
          /\ b \in Int
      BY <2>1, <2>2
    <3> QED
      BY <1>2, <2>1, <2>2, <3>1, TakeSink
  <2>4. GivenMain(new, next)
    BY <1>1, <1>2, <2>1, <2>3, Wiring DEF Even, GivenMain
  <2>5. GivenRoute(new, next, R.route)
    BY <1>1, <1>2, <2>1, <2>2, <2>3 DEF GivenRoute, InnerOf
  <2>6. ASSUME NEW r \in Routes \ {R.route} PROVE GivenRoute(new, next, r)
    BY <1>1, <1>2, <2>3, Wiring DEF Even, GivenRoute, InnerOf
  <2> QED
    BY <2>4, <2>5, <2>6 DEF Even, new
<1>3. CASE R.inner = <<>>
  <2>1. /\ LeftOf(R) = R.chain /\ R.chain # <<>> /\ Main \in Levels
        /\ R.chain \in Seq(AllStages) /\ EndsWith(Stages(Main), R.chain)
    BY <1>3, OnLevel, Wiring
  <2>2. Given(count, Main, R.chain, 0)
    BY <2>1 DEF Even, GivenMain
  <2>3. /\ Given(next, Main, Tail(R.chain), 0)
        /\ \A m \in Levels \ {Main} : \A other, d :
             Given(count, m, other, d) => Given(next, m, other, d)
    <3>1. next = [count EXCEPT ![Head(R.chain)] = @ + 1] /\ Head(R.chain) \in AllSinks
      BY <2>1
    <3>2. PICK b \in Int : b = 0
      OBVIOUS
    <3>3. Given(count, Main, R.chain, b)
      BY <2>2, <3>2
    <3>4. /\ Given(next, Main, Tail(R.chain), b)
          /\ \A m \in Levels \ {Main} : \A other, d :
               Given(count, m, other, d) => Given(next, m, other, d)
      BY <2>1, <3>1, <3>3, TakeSink
    <3> QED
      BY <3>2, <3>4
  <2>4. GivenMain(new, next)
    BY <1>1, <1>3, <2>1, <2>3 DEF GivenMain
  <2>5. Range(Tail(R.chain)) \subseteq Range(R.chain)
    BY <2>1, HeadOfLevel
  <2>6. ASSUME NEW r \in Routes PROVE GivenRoute(new, next, r)
    <3>1. r \in Levels \ {Main}
      BY PipelineAssumption DEF Levels
    <3> QED
      BY <1>1, <1>3, <2>1, <2>3, <2>5, <3>1 DEF Even, GivenRoute, InnerOf
  <2> QED
    BY <2>4, <2>6 DEF Even, new
<1> QED
  BY <1>2, <1>3

\* A RouteSink is among the sinks of the pipeline only.
LEMMA AtRoute ==
    ASSUME NEW R \in Runs, Place(R), LeftOf(R) # <<>>, Head(LeftOf(R)) \in Routes
    PROVE  /\ R.inner = <<>> /\ R.targets = 0 /\ LeftOf(R) = R.chain /\ R.chain # <<>>
           /\ R.chain \in Seq(AllStages) /\ EndsWith(Stages(Main), R.chain)
           /\ Tail(R.chain) \in Seq(AllStages) /\ EndsWith(Stages(Main), Tail(R.chain))
           /\ Range(Tail(R.chain)) \subseteq Range(R.chain)
           /\ Head(R.chain) \in Range(R.chain) /\ Head(R.chain) \notin Range(Tail(R.chain))
           /\ \A s \in AllSinks : s \in Range(Tail(R.chain)) <=> s \in Range(R.chain) /\ s # Head(R.chain)
<1> DEFINE r == Head(LeftOf(R))
<1>1. r \in Range(Sinks[Main]) /\ r \in AllSinks
  BY PipelineAssumption, Wiring
<1>2. R.inner = <<>>
  <2> SUFFICES ASSUME R.inner # <<>> PROVE FALSE
    OBVIOUS
  <2>1. /\ R.route \in Routes /\ LeftOf(R) = R.inner /\ R.inner \in Seq(AllStages)
        /\ EndsWith(Stages(R.route), R.inner) /\ R.route \in Levels \ {Main}
    BY OnLevel, PipelineAssumption DEF Levels
  <2>2. r \in Range(Sinks[R.route])
    <3> HIDE DEF r
    <3>1. Head(R.inner) \in Range(R.inner) /\ Range(R.inner) \cap AllSinks \subseteq Range(Sinks[R.route])
      BY <2>1, HeadOfLevel
    <3> QED
      BY <1>1, <2>1, <3>1 DEF r
  <2> QED
    BY <1>1, <2>1, <2>2, Wiring
<1>3. /\ LeftOf(R) = R.chain /\ R.targets = 0 /\ R.chain \in Seq(AllStages) /\ R.chain # <<>>
      /\ EndsWith(Stages(Main), R.chain)
  BY <1>2, OnLevel
<1> QED
  BY <1>1, <1>2, <1>3, HeadOfLevel, Wiring

\* A route is taken: none of its sinks has been called for this packet.
LEMMA EvenRoute ==
    ASSUME NEW R \in Runs, Place(R), LeftOf(R) # <<>>, Head(LeftOf(R)) \in Routes,
           NEW count \in [AllSinks -> Int], Even(R, count),
           NEW next, next = [count EXCEPT ![Head(LeftOf(R))] = @ + 1],
           NEW R2 \in Runs, R2.route = Head(R.chain), R2.targets \in 0..MaxTargets,
           R2.chain = Tail(R.chain), R2.inner = <<>>
    PROVE  Even(R2, next)
<1>1. /\ R.inner = <<>> /\ LeftOf(R) = R.chain /\ R.chain # <<>> /\ R.chain \in Seq(AllStages)
      /\ EndsWith(Stages(Main), R.chain) /\ Main \in Levels
      /\ Head(R.chain) \in Range(R.chain) /\ Head(R.chain) \notin Range(Tail(R.chain))
      /\ Range(Tail(R.chain)) \subseteq Range(R.chain) /\ Head(R.chain) \in AllSinks
  BY AtRoute, PipelineAssumption, Wiring
<1>2. Given(count, Main, R.chain, 0)
  BY <1>1 DEF Even, GivenMain
<1>3. /\ Given(next, Main, Tail(R.chain), 0)
      /\ \A m \in Levels \ {Main} : \A other, d :
           Given(count, m, other, d) => Given(next, m, other, d)
  <2>1. next = [count EXCEPT ![Head(R.chain)] = @ + 1]
    BY <1>1
  <2>2. PICK b \in Int : b = 0
    OBVIOUS
  <2>3. Given(count, Main, R.chain, b)
    BY <1>2, <2>2
  <2>4. /\ Given(next, Main, Tail(R.chain), b)
        /\ \A m \in Levels \ {Main} : \A other, d :
             Given(count, m, other, d) => Given(next, m, other, d)
    BY <1>1, <2>1, <2>3, TakeSink
  <2> QED
    BY <2>2, <2>4
<1>4. GivenMain(R2, next)
  BY <1>3 DEF GivenMain
<1>5. ASSUME NEW r \in Routes PROVE GivenRoute(R2, next, r)
  <2>1. r \in Levels \ {Main}
    BY PipelineAssumption DEF Levels
  <2>2. PICK b \in -1..MaxTargets - 1 :
          /\ Given(count, r, <<>>, b)
          /\ r \in Range(R.chain) => b = -1
    BY <1>1 DEF Even, GivenRoute, InnerOf
  <2>3. Given(next, r, <<>>, b)
    BY <1>3, <2>1, <2>2
  <2>4. r = R2.route => b = -1 /\ b + 1 + R2.targets <= MaxTargets
    BY <1>1, <2>2, PipelineAssumption
  <2> QED
    BY <1>1, <2>2, <2>3, <2>4 DEF GivenRoute, InnerOf
<1> QED
  BY <1>4, <1>5 DEF Even

\* The next copy, if there is one, goes to all sinks of the route.
LEMMA EvenTarget ==
    ASSUME NEW R \in Runs, Place(R), R.inner = <<>>, R.targets > 0,
           NEW count \in [AllSinks -> Int], Even(R, count),
           NEW R2 \in Runs, R2.route = R.route, R2.targets = R.targets - 1,
           R2.chain = R.chain, R2.inner \in {Stages(R.route), <<>>}
    PROVE  Even(R2, count)
<1>1. R.route \in Routes /\ R.route \notin Range(R.chain) /\ R.targets \in Nat
  BY DEF Place, Runs
<1>2. GivenMain(R2, count)
  BY DEF Even, GivenMain
<1>3. ASSUME NEW r \in Routes \ {R.route} PROVE GivenRoute(R2, count, r)
  BY DEF Even, GivenRoute, InnerOf
<1>4. GivenRoute(R2, count, R.route)
  <2>1. PICK b \in -1..MaxTargets - 1 :
          /\ Given(count, R.route, <<>>, b)
          /\ b + 1 + R.targets <= MaxTargets
    BY <1>1 DEF Even, GivenRoute, InnerOf
  <2>2. b + 1 \in -1..MaxTargets - 1 /\ b + 1 >= 0 /\ (b + 1) + 1 + (R.targets - 1) <= MaxTargets
    BY <1>1, <2>1, PipelineAssumption
  <2>3. CASE R2.inner = <<>>
    <3>1. b + 1 + (R.targets - 1) <= MaxTargets
      BY <1>1, <2>1, PipelineAssumption
    <3> QED
      BY <1>1, <2>1, <2>3, <3>1 DEF GivenRoute, InnerOf
  <2>4. CASE R2.inner = Stages(R.route) /\ R2.inner # <<>>
    <3>1. Given(count, R.route, Stages(R.route), b + 1)
      <4>1. Range(Sinks[R.route]) \subseteq Range(Stages(R.route))
        BY <1>1, SinksAreStages, Wiring
      <4>2. Range(<<>>) = {}
        BY DEF Range
      <4> QED
        BY <2>1, <4>1, <4>2 DEF Given
    <3> QED
      BY <1>1, <2>2, <2>4, <3>1 DEF GivenRoute, InnerOf
  <2> QED
    BY <2>3, <2>4
<1> QED
  BY <1>2, <1>3, <1>4 DEF Even

LEMMA OfferedBound ==
    ASSUME NEW R \in Runs, NEW count \in [AllSinks -> Int], Even(R, count)
    PROVE  count \in [AllSinks -> 0..MaxTargets + 1]
<1> SUFFICES ASSUME NEW s \in AllSinks PROVE count[s] \in 0..MaxTargets + 1
  OBVIOUS
<1>1. CASE s \in Range(Sinks[Main])
  <2>1. PICK b \in {-1, 0} : Given(count, Main, R.chain, b) /\ (R.chain # <<>> => b = 0)
    BY DEF Even, GivenMain
  <2>2. count[s] = b + 1 \/ (count[s] = b /\ s \in Range(R.chain))
    BY <1>1, <2>1 DEF Given
  <2>3. s \in Range(R.chain) => R.chain # <<>>
    BY DEF Range
  <2>4. MaxTargets \in Nat
    BY PipelineAssumption
  <2> QED
    BY <2>1, <2>2, <2>3, <2>4
<1>2. ASSUME NEW r \in Routes, s \in Range(Sinks[r]) PROVE count[s] \in 0..MaxTargets + 1
  <2>1. PICK b \in -1..MaxTargets - 1 :
          Given(count, r, InnerOf(R, r), b) /\ (InnerOf(R, r) # <<>> => b >= 0)
    BY DEF Even, GivenRoute
  <2>2. count[s] = b + 1 \/ (count[s] = b /\ s \in Range(InnerOf(R, r)))
    BY <1>2, <2>1 DEF Given
  <2>3. s \in Range(InnerOf(R, r)) => InnerOf(R, r) # <<>>
    BY DEF Range
  <2>4. MaxTargets \in Nat
    BY PipelineAssumption
  <2> QED
    BY <2>1, <2>2, <2>3, <2>4
<1> QED
  BY <1>1, <1>2, Wiring DEF Levels

-----------------------------------------------------------------------------
(* Closing *)

LEMMA CloseTheSource ==
    ASSUME NEW R \in Runs, Place(R), R.at = "source",
           NEW count \in [Closers -> {0, 1}], Closing(R, count)
    PROVE  LET new  == [R EXCEPT !.at = "sinks", !.chain = Sinks[Main]]
               next == [count EXCEPT ![Source] = @ + 1]
           IN  new \in Runs /\ Place(new) /\ next \in [Closers -> {0, 1}] /\ Closing(new, next)
<1> DEFINE new == [R EXCEPT !.at = "sinks", !.chain = Sinks[Main]]
           next == [count EXCEPT ![Source] = @ + 1]
<1>1. Sinks[Main] \in Seq(AllStages)
  BY Wiring
<1>2. /\ new \in Runs /\ new.at = "sinks" /\ new.chain = Sinks[Main]
      /\ new.inner = R.inner /\ new.targets = R.targets /\ new.route = R.route
  BY <1>1 DEF Runs
<1>3. R.inner = <<>> /\ R.targets = 0
  BY PipelineAssumption DEF Place, Runs
<1>4. Place(new)
  <2> HIDE DEF new
  <2> QED
    BY <1>2, <1>3, SinksAreStages, Wiring DEF Place
<1>5. Source \in Closers /\ \A s \in AllSinks \ Routes : s \in Closers /\ s # Source
  BY PipelineAssumption DEF Closers
<1>6. /\ next \in [Closers -> {0, 1}] /\ next[Source] = 1
      /\ \A s \in AllSinks \ Routes : next[s] = 0
  BY <1>5 DEF Closing
<1>7. ASSUME NEW s \in AllSinks \ Routes PROVE s \in Pending(new)
  <2> HIDE DEF new
  <2>1. PICK l \in Levels : s \in Range(Sinks[l])
    BY Wiring
  <2>2. l = Main \/ l \in Routes \cap Range(Sinks[Main])
    BY PipelineAssumption DEF Levels
  <2> QED
    BY <1>2, <2>1, <2>2 DEF Pending
<1> HIDE DEF new, next
<1>8. Closing(new, next)
  BY <1>2, <1>6, <1>7 DEF Closing
<1> QED
  BY <1>2, <1>4, <1>6, <1>8 DEF new, next

LEMMA CloseTheSink ==
    ASSUME NEW R \in Runs, Place(R), R.at = "sinks", LeftOf(R) # <<>>,
           Head(LeftOf(R)) \in AllSinks \ Routes,
           NEW count \in [Closers -> {0, 1}], Closing(R, count)
    PROVE  LET next == [count EXCEPT ![Head(LeftOf(R))] = @ + 1]
           IN  /\ next \in [Closers -> {0, 1}]
               /\ Closing(OnWith(R, Tail(LeftOf(R))), next)
<1> DEFINE sink == Head(LeftOf(R))
           new == OnWith(R, Tail(LeftOf(R)))
           next == [count EXCEPT ![sink] = @ + 1]
<1>1. /\ new.at = "sinks"
      /\ R.inner # <<>> => new.inner = Tail(LeftOf(R)) /\ new.chain = R.chain
      /\ R.inner = <<>> => new.chain = Tail(LeftOf(R)) /\ new.inner = <<>>
  BY OnPlace
<1> HIDE DEF new
<1>2. sink \in Pending(R)
      /\ \A s \in AllSinks \ Routes : s \in Pending(new) <=> s \in Pending(R) /\ s # sink
  <2>1. CASE R.inner # <<>>
    <3>1. /\ LeftOf(R) = R.inner /\ R.route \in Routes /\ R.route \in Levels \ {Main}
          /\ R.inner \in Seq(AllStages) /\ EndsWith(Stages(R.route), R.inner)
          /\ R.route \notin Range(R.chain)
      BY <2>1, OnLevel, PipelineAssumption DEF Levels
    <3>2. /\ sink \in Range(R.inner) /\ sink \in Range(Sinks[R.route])
          /\ \A s \in AllSinks : s \in Range(Tail(R.inner)) <=> s \in Range(R.inner) /\ s # sink
      <4>1. R.inner # <<>> /\ Head(R.inner) = sink /\ sink \in AllSinks
        BY <2>1, <3>1
      <4> HIDE DEF sink
      <4> QED
        BY <3>1, <4>1, HeadOfLevel
    <3>3. sink \notin Range(R.chain)
      <4>1. R.chain \in Seq(AllStages) /\ EndsWith(Stages(Main), R.chain) /\ Main \in Levels
        BY Wiring DEF Runs, Place
      <4>2. Range(R.chain) \cap AllSinks \subseteq Range(Sinks[Main])
        <5>1. CASE R.chain = <<>>
          BY <5>1 DEF Range
        <5>2. CASE R.chain # <<>>
          BY <4>1, <5>2, HeadOfLevel
        <5> QED
          BY <5>1, <5>2
      <4>3. sink \notin Range(Sinks[Main])
        BY <3>1, <3>2, Wiring
      <4> QED
        BY <4>2, <4>3
    <3>4. ASSUME NEW r \in Routes \cap Range(R.chain) PROVE sink \notin Range(Sinks[r])
      <4>1. r \in Levels /\ r # R.route
        BY <3>1 DEF Levels
      <4> QED
        BY <3>1, <3>2, <4>1, Wiring
    <3> HIDE DEF sink
    <3> QED
      BY <1>1, <2>1, <3>1, <3>2, <3>3, <3>4 DEF Pending
  <2>2. CASE R.inner = <<>>
    <3>1. /\ LeftOf(R) = R.chain /\ R.chain # <<>> /\ R.chain \in Seq(AllStages)
          /\ EndsWith(Stages(Main), R.chain) /\ Main \in Levels
      BY <2>2, OnLevel, Wiring
    <3>2. /\ sink \in Range(R.chain) /\ sink \in Range(Sinks[Main])
          /\ \A s \in AllSinks : s \in Range(Tail(R.chain)) <=> s \in Range(R.chain) /\ s # sink
      <4>1. Head(R.chain) = sink /\ sink \in AllSinks
        BY <3>1
      <4> HIDE DEF sink
      <4> QED
        BY <3>1, <4>1, HeadOfLevel
    <3>3. \A r \in Routes : sink \notin Range(Sinks[r]) /\ r \in AllSinks /\ r # sink
      <4>1. \A r \in Routes : r \in Levels \ {Main} /\ r \in AllSinks
        BY PipelineAssumption, Wiring DEF Levels
      <4> QED
        BY <3>2, <4>1, Wiring
    <3>4. Range(<<>>) = {}
      BY DEF Range
    <3> HIDE DEF sink
    <3> QED
      BY <1>1, <2>2, <3>1, <3>2, <3>3, <3>4 DEF Pending
  <2> QED
    BY <2>1, <2>2
<1>3. sink \in Closers /\ sink # Source /\ \A s \in AllSinks \ Routes : s \in Closers
  BY PipelineAssumption DEF Closers
<1>4. count[sink] = 0 /\ count[Source] = 1
  BY <1>2 DEF Closing
<1> HIDE DEF sink
<1>5. /\ next \in [Closers -> {0, 1}] /\ next[Source] = 1
      /\ \A s \in Closers : next[s] = IF s = sink THEN 1 ELSE count[s]
  BY <1>3, <1>4, PipelineAssumption DEF Closers
<1> HIDE DEF next
<1>6. Closing(new, next)
  BY <1>1, <1>2, <1>3, <1>5 DEF Closing
<1> QED
  BY <1>5, <1>6 DEF new, next, sink

LEMMA CloseTheRoute ==
    ASSUME NEW R \in Runs, Place(R), R.at = "sinks", LeftOf(R) # <<>>,
           Head(LeftOf(R)) \in Routes, NEW count, Closing(R, count)
    PROVE  LET r   == Head(LeftOf(R))
               new == [R EXCEPT !.route = r, !.inner = Sinks[r], !.chain = Tail(LeftOf(R))]
           IN  new \in Runs /\ Place(new) /\ new.at = "sinks" /\ Closing(new, count)
<1> DEFINE r == Head(LeftOf(R))
           new == [R EXCEPT !.route = r, !.inner = Sinks[r], !.chain = Tail(LeftOf(R))]
<1>1. /\ R.inner = <<>> /\ R.targets = 0 /\ LeftOf(R) = R.chain /\ R.chain # <<>>
      /\ Tail(R.chain) \in Seq(AllStages) /\ EndsWith(Stages(Main), Tail(R.chain))
      /\ r \in Range(R.chain) /\ r \notin Range(Tail(R.chain))
      /\ \A s \in AllSinks : s \in Range(Tail(R.chain)) <=> s \in Range(R.chain) /\ s # r
  BY AtRoute
<1>2. /\ r \in Levels /\ r \in AllSinks /\ Sinks[r] \in Seq(AllStages)
      /\ EndsWith(Stages(r), Sinks[r]) /\ Routes \subseteq AllSinks
  BY PipelineAssumption, Wiring, SinksAreStages
<1> HIDE DEF r
<1>3. /\ new \in Runs /\ new.at = "sinks" /\ new.chain = Tail(R.chain) /\ new.inner = Sinks[r]
      /\ new.targets = 0 /\ new.route = r /\ r \in Routes
  BY <1>1, <1>2 DEF Runs, r
<1> HIDE DEF new
<1>4. Place(new)
  BY <1>1, <1>2, <1>3 DEF Place
<1>5. ASSUME NEW s \in AllSinks \ Routes PROVE s \in Pending(new) <=> s \in Pending(R)
  <2>1. Range(<<>>) = {}
    BY DEF Range
  <2>2. \A q \in Routes : q \in Range(R.chain) <=> q \in Range(Tail(R.chain)) \/ q = r
    BY <1>1, <1>2
  <2> QED
    BY <1>1, <1>2, <1>3, <2>1, <2>2 DEF Pending
<1>6. Closing(new, count)
  BY <1>3, <1>5 DEF Closing
<1> QED
  BY <1>3, <1>4, <1>6 DEF new, r

-----------------------------------------------------------------------------
(* The steps *)

LEMMA InitIInv == Init => IInv
<1> SUFFICES ASSUME Init PROVE IInv
  OBVIOUS
<1> DEFINE R == [at |-> "running", chain |-> <<>>, route |-> None, targets |-> 0,
                 inner |-> <<>>]
<1>1. R \in Runs /\ Place(R)
  <2>1. EndsWith(Stages(Main), <<>>)
    BY Wiring, EndOfEnd
  <2> QED
    BY <2>1, PipelineAssumption DEF Runs, Place
<1>2. ASSUME NEW count, \A s \in AllSinks : count[s] = 0 PROVE Even(R, count)
  <2>1. \A l \in Levels : Given(count, l, <<>>, -1)
    <3>1. Range(<<>>) = {} /\ (-1) + 1 = 0
      BY DEF Range
    <3> QED
      BY <1>2, <3>1, Wiring DEF Given
  <2>2. GivenMain(R, count)
    <3>1. Given(count, Main, <<>>, -1) /\ R.chain = <<>>
      BY <2>1 DEF Levels
    <3> HIDE DEF R
    <3> QED
      BY <3>1 DEF GivenMain
  <2>3. ASSUME NEW r \in Routes PROVE GivenRoute(R, count, r)
    <3>1. InnerOf(R, r) = <<>>
      BY DEF InnerOf
    <3>2. -1 \in -1..MaxTargets - 1 /\ (-1) + 1 + R.targets <= MaxTargets /\ r \notin Range(R.chain)
      BY PipelineAssumption DEF Range
    <3>3. Given(count, r, <<>>, -1)
      BY <2>1 DEF Levels
    <3> HIDE DEF R
    <3> QED
      BY <3>1, <3>2, <3>3 DEF GivenRoute
  <2> QED
    BY <2>2, <2>3 DEF Even
<1>3. /\ run = [p \in Pipelines |-> R]
      /\ \A p \in Pipelines : \A s \in AllSinks : offered[p][s] = 0
      /\ \A p \in Pipelines : \A s \in Closers : closed[p][s] = 0
  BY DEF Init
<1>4. R.at = "running"
  OBVIOUS
<1> HIDE DEF R
<1>5. offered \in [Pipelines -> [AllSinks -> 0..MaxTargets + 1]]
      /\ closed \in [Pipelines -> [Closers -> {0, 1}]]
  BY PipelineAssumption DEF Init
<1>6. RunInv
  BY <1>1, <1>2, <1>3, <1>4, <1>5 DEF RunInv, Closing
<1>7. HolderInv
  BY PipelineAssumption DEF Init, HolderInv, HolderGoesOn
<1> QED
  BY <1>6, <1>7 DEF IInv

LEMMA OneMore ==
    ASSUME NEW count \in [AllSinks -> Int], NEW s \in AllSinks
    PROVE  [count EXCEPT ![s] = @ + 1] \in [AllSinks -> Int]
  OBVIOUS

\* What a step does to one pipeline.
LEMMA Update ==
    ASSUME RunInv, NEW p \in Pipelines,
           NEW R \in Runs, Place(R), run' = [run EXCEPT ![p] = R],
           NEW given \in [AllSinks -> Int], offered' = [offered EXCEPT ![p] = given],
           NEW closes \in [Closers -> {0, 1}], closed' = [closed EXCEPT ![p] = closes],
           IF R.at = "running" THEN Even(R, given) ELSE given = offered[p],
           Closing(R, closes)
    PROVE  RunInv'
<1>1. given \in [AllSinks -> 0..MaxTargets + 1]
  BY OfferedBound DEF RunInv
<1>2. /\ run' \in [Pipelines -> Runs]
      /\ offered' \in [Pipelines -> [AllSinks -> 0..MaxTargets + 1]]
      /\ closed' \in [Pipelines -> [Closers -> {0, 1}]]
      /\ run'[p] = R /\ offered'[p] = given /\ closed'[p] = closes
      /\ \A q \in Pipelines \ {p} :
           run'[q] = run[q] /\ offered'[q] = offered[q] /\ closed'[q] = closed[q]
  BY <1>1 DEF RunInv
<1>3. ASSUME NEW q \in Pipelines
      PROVE  /\ Place(run'[q])
             /\ run'[q].at = "running" => Even(run'[q], offered'[q])
             /\ Closing(run'[q], closed'[q])
  BY <1>2 DEF RunInv
<1> QED
  BY <1>2, <1>3 DEF RunInv

\* The present of one pipeline.
LEMMA Now ==
    ASSUME RunInv, NEW p \in Pipelines
    PROVE  /\ run[p] \in Runs /\ Place(run[p]) /\ Left(p) = LeftOf(run[p])
           /\ offered[p] \in [AllSinks -> Int] /\ closed[p] \in [Closers -> {0, 1}]
           /\ run[p].at = "running" => Even(run[p], offered[p])
           /\ Closing(run[p], closed[p])
           /\ offered = [offered EXCEPT ![p] = offered[p]]
           /\ closed = [closed EXCEPT ![p] = closed[p]]
           /\ \A stages : GoOn(p, stages) => run' = [run EXCEPT ![p] = OnWith(run[p], stages)]
<1>1. run \in [Pipelines -> Runs] /\ offered[p] \in [AllSinks -> 0..MaxTargets + 1]
  BY DEF RunInv
<1>2. offered[p] \in [AllSinks -> Int]
  BY <1>1, PipelineAssumption
<1> QED
  BY <1>1, <1>2 DEF RunInv, Left, LeftOf, GoOn, OnWith

LEMMA ReadStep ==
    ASSUME RunInv, NEW p \in Pipelines, ReadPacket(p)
    PROVE  RunInv'
<1> DEFINE R == [run[p] EXCEPT !.chain = Stages(Main)]
           given == [s \in AllSinks |-> 0]
<1>1. /\ run[p].at = "running" /\ run[p].targets = 0 /\ run[p].inner = <<>>
      /\ run[p] \in Runs /\ Place(run[p])
  BY Now DEF ReadPacket, AtRead, Left
<1>2. Stages(Main) \in Seq(AllStages) /\ EndsWith(Stages(Main), Stages(Main))
  BY Wiring, EndOfEnd
<1>3. /\ R \in Runs /\ R.at = "running" /\ R.chain = Stages(Main) /\ R.inner = <<>>
      /\ R.targets = 0
  BY <1>1, <1>2 DEF Runs
<1> HIDE DEF R
<1>4. Place(R)
  BY <1>2, <1>3 DEF Place
<1>5. Even(R, given)
  <2>1. Given(given, Main, R.chain, 0)
    <3>1. Range(Sinks[Main]) \subseteq Range(Stages(Main)) /\ Range(Sinks[Main]) \subseteq AllSinks
      BY SinksAreStages, Wiring
    <3> QED
      BY <1>3, <3>1 DEF Given
  <2>2. ASSUME NEW r \in Routes PROVE GivenRoute(R, given, r)
    <3>1. Given(given, r, <<>>, -1)
      <4>1. Range(<<>>) = {} /\ (-1) + 1 = 0 /\ Range(Sinks[r]) \subseteq AllSinks
        BY Wiring DEF Range
      <4> QED
        BY <4>1 DEF Given
    <3>2. InnerOf(R, r) = <<>>
      BY <1>3 DEF InnerOf
    <3>3. -1 \in -1..MaxTargets - 1 /\ (-1) + 1 + 0 <= MaxTargets
      BY PipelineAssumption
    <3> HIDE DEF given
    <3> QED
      BY <1>3, <3>1, <3>2, <3>3 DEF GivenRoute
  <2> HIDE DEF given
  <2> QED
    BY <2>1, <2>2 DEF Even, GivenMain
<1>6. run' = [run EXCEPT ![p] = R] /\ offered' = [offered EXCEPT ![p] = given] /\ closed' = closed
  BY <1>1 DEF ReadPacket, RunInv, Runs, R
<1>7. given \in [AllSinks -> Int]
  OBVIOUS
<1> HIDE DEF given
<1>8. Closing(R, closed[p])
  BY <1>1, <1>3, Now DEF Closing
<1> QED
  BY <1>3, <1>4, <1>5, <1>6, <1>7, <1>8, Now, Update

\* A processor, a DecodeProcessor included, keeps or drops the packet.
LEMMA ProcessorStep ==
    ASSUME RunInv, NEW p \in Pipelines, AtStage(p, AllProcessors),
           GoOn(p, Tail(Left(p))) \/ GoOn(p, <<>>), offered' = offered, closed' = closed
    PROVE  RunInv'
<1>1. PICK stages \in {Tail(Left(p)), <<>>} : GoOn(p, stages)
  OBVIOUS
<1> DEFINE R == run[p]
           new == OnWith(R, stages)
<1>2. /\ R \in Runs /\ Place(R) /\ LeftOf(R) # <<>> /\ Head(LeftOf(R)) \in AllProcessors
      /\ R.at = "running" /\ Even(R, offered[p]) /\ Closing(R, closed[p])
      /\ stages \in {Tail(LeftOf(R)), <<>>}
      /\ run' = [run EXCEPT ![p] = new]
  BY <1>1, Now DEF AtStage
<1> HIDE DEF R
<1>3. new \in Runs /\ Place(new) /\ new.at = "running"
  BY <1>2, OnPlace
<1>4. Even(new, offered[p])
  BY <1>2, EvenProcessor
<1> HIDE DEF new
<1>5. Closing(new, closed[p])
  BY <1>2, <1>3 DEF Closing
<1> QED
  BY <1>2, <1>3, <1>4, <1>5, Now, Update

LEMMA SinkStep ==
    ASSUME RunInv, NEW p \in Pipelines, WriteSink(p)
    PROVE  RunInv'
<1> DEFINE R == run[p]
           new == OnWith(R, Tail(LeftOf(R)))
           given == [offered[p] EXCEPT ![Head(LeftOf(R))] = @ + 1]
<1>1. /\ R \in Runs /\ Place(R) /\ LeftOf(R) # <<>> /\ Head(LeftOf(R)) \in AllSinks
      /\ R.at = "running" /\ Even(R, offered[p]) /\ Closing(R, closed[p])
      /\ offered[p] \in [AllSinks -> Int]
      /\ run' = [run EXCEPT ![p] = new]
  BY Now DEF WriteSink, AtStage
<1>2. offered' = [offered EXCEPT ![p] = given] /\ closed' = closed
  BY Now DEF WriteSink
<1>3. given \in [AllSinks -> Int]
  BY <1>1, OneMore
<1> HIDE DEF R
<1>4. new \in Runs /\ Place(new) /\ new.at = "running"
  BY <1>1, OnPlace
<1> HIDE DEF given
<1>5. Even(new, given)
  BY <1>1, EvenSink DEF given
<1> HIDE DEF new
<1>6. Closing(new, closed[p])
  BY <1>1, <1>4 DEF Closing
<1> QED
  BY <1>1, <1>2, <1>3, <1>4, <1>5, <1>6, Now, Update

LEMMA RouteStep ==
    ASSUME RunInv, NEW p \in Pipelines, Route(p)
    PROVE  RunInv'
<1> DEFINE R == run[p]
           r == Head(LeftOf(R))
           given == [offered[p] EXCEPT ![r] = @ + 1]
<1>1. /\ R \in Runs /\ Place(R) /\ LeftOf(R) # <<>> /\ r \in Routes
      /\ R.at = "running" /\ Even(R, offered[p]) /\ Closing(R, closed[p])
      /\ offered[p] \in [AllSinks -> Int] /\ Left(p) = LeftOf(R)
  BY Now DEF Route, AtStage
<1>2. PICK n \in 0..MaxTargets :
        run' = [run EXCEPT ![p].route = r, ![p].targets = n, ![p].chain = Tail(LeftOf(R))]
  BY <1>1 DEF Route
<1>3. offered' = [offered EXCEPT ![p] = given] /\ closed' = closed
  BY <1>1 DEF Route
<1>4. given \in [AllSinks -> Int]
  <2>1. r \in AllSinks
    BY <1>1, PipelineAssumption, Wiring
  <2> QED
    BY <1>1, <2>1, OneMore
<1> DEFINE new == [R EXCEPT !.route = r, !.targets = n, !.chain = Tail(LeftOf(R))]
<1>5. run' = [run EXCEPT ![p] = new]
  BY <1>1, <1>2 DEF RunInv, Runs
<1> HIDE DEF R
<1>6. /\ R.inner = <<>> /\ LeftOf(R) = R.chain
      /\ Tail(R.chain) \in Seq(AllStages) /\ EndsWith(Stages(Main), Tail(R.chain))
      /\ Head(R.chain) \notin Range(Tail(R.chain))
  BY <1>1, AtRoute
<1>7. /\ new \in Runs /\ new.at = "running" /\ new.route = r /\ new.targets = n
      /\ new.chain = Tail(R.chain) /\ new.inner = <<>> /\ r = Head(R.chain)
  BY <1>1, <1>6 DEF Runs
<1> HIDE DEF new
<1>8. Place(new)
  BY <1>1, <1>6, <1>7 DEF Place
<1> HIDE DEF given
<1>9. Even(new, given)
  BY <1>1, <1>6, <1>7, EvenRoute DEF given
<1>10. Closing(new, closed[p])
  BY <1>1, <1>7 DEF Closing
<1> QED
  BY <1>3, <1>4, <1>5, <1>7, <1>8, <1>9, <1>10, Now, Update

LEMMA TargetStep ==
    ASSUME RunInv, NEW p \in Pipelines, WriteToTarget(p)
    PROVE  RunInv'
<1> DEFINE R == run[p]
<1>1. /\ R \in Runs /\ Place(R) /\ R.inner = <<>> /\ R.targets > 0
      /\ Closing(R, closed[p]) /\ offered[p] \in [AllSinks -> Int]
      /\ R.at = "running" => Even(R, offered[p])
      /\ offered' = offered /\ closed' = closed
  BY Now DEF WriteToTarget, history
<1>2. PICK stages \in {Stages(R.route), <<>>} :
        run' = [run EXCEPT ![p].targets = @ - 1, ![p].inner = stages]
  BY DEF WriteToTarget
<1> DEFINE new == [R EXCEPT !.targets = @ - 1, !.inner = stages]
<1>3. run' = [run EXCEPT ![p] = new]
  BY <1>1, <1>2 DEF RunInv, Runs
<1> HIDE DEF R
<1>4. R.at = "running" /\ R.route \in Routes \ Range(R.chain) /\ R.route \in Levels
  BY <1>1 DEF Place, Levels
<1>5. stages \in Seq(AllStages) /\ EndsWith(Stages(R.route), stages)
  <2>1. Stages(R.route) \in Seq(AllStages) /\ <<>> \in Seq(AllStages)
    BY <1>4, Wiring
  <2>2. EndsWith(Stages(R.route), Stages(R.route)) /\ EndsWith(Stages(R.route), <<>>)
    BY <2>1, EndOfEnd
  <2> QED
    BY <1>2, <2>1, <2>2
<1>6. R.targets - 1 \in 0..MaxTargets
  BY <1>1, PipelineAssumption DEF Runs
<1>7. /\ new \in Runs /\ new.at = "running" /\ new.route = R.route /\ new.targets = R.targets - 1
      /\ new.chain = R.chain /\ new.inner = stages
  BY <1>1, <1>4, <1>5, <1>6 DEF Runs
<1> HIDE DEF new
<1>8. Place(new)
  BY <1>1, <1>4, <1>5, <1>7 DEF Place
<1>9. Even(new, offered[p])
  BY <1>1, <1>2, <1>4, <1>7, EvenTarget
<1>10. Closing(new, closed[p])
  BY <1>1, <1>4, <1>7 DEF Closing
<1> QED
  BY <1>1, <1>3, <1>7, <1>8, <1>9, <1>10, Now, Update

LEMMA ClosingStep ==
    ASSUME RunInv, NEW p \in Pipelines,
           StartClosing(p) \/ CloseSource(p) \/ CloseSink(p) \/ CloseRoute(p) \/ Return(p)
    PROVE  RunInv'
<1> DEFINE R == run[p]
<1>1. /\ R \in Runs /\ Place(R) /\ Left(p) = LeftOf(R) /\ Closing(R, closed[p])
      /\ offered[p] \in [AllSinks -> Int] /\ closed[p] \in [Closers -> {0, 1}]
      /\ \A stages : GoOn(p, stages) => run' = [run EXCEPT ![p] = OnWith(R, stages)]
      /\ offered = [offered EXCEPT ![p] = offered[p]]
      /\ closed = [closed EXCEPT ![p] = closed[p]]
  BY Now
<1>2. offered' = [offered EXCEPT ![p] = offered[p]]
  BY <1>1 DEF StartClosing, CloseSource, CloseSink, CloseRoute, Return, history
<1>3. CASE StartClosing(p)
  <2> DEFINE new == [R EXCEPT !.at = "source"]
  <2>1. run' = [run EXCEPT ![p] = new] /\ closed' = [closed EXCEPT ![p] = closed[p]]
    BY <1>1, <1>3 DEF StartClosing, history
  <2>2. R.at = "running" /\ R.targets = 0 /\ R.inner = <<>> /\ R.chain = <<>>
    BY <1>3 DEF StartClosing, AtRead, Left
  <2> HIDE DEF R
  <2>3. /\ new \in Runs /\ new.at = "source" /\ new.chain = <<>> /\ new.inner = <<>>
        /\ new.targets = 0
    BY <1>1, <2>2 DEF Runs
  <2> HIDE DEF new
  <2>4. Place(new) /\ Closing(new, closed[p])
    BY <1>1, <2>2, <2>3 DEF Place, Closing
  <2> QED
    BY <1>1, <1>2, <2>1, <2>3, <2>4, Update DEF R
<1>4. CASE CloseSource(p)
  <2> DEFINE new == [R EXCEPT !.at = "sinks", !.chain = Sinks[Main]]
             next == [closed[p] EXCEPT ![Source] = @ + 1]
  <2>1. run' = [run EXCEPT ![p] = new] /\ closed' = [closed EXCEPT ![p] = next]
    BY <1>1, <1>4 DEF CloseSource
  <2>2. R.at = "source"
    BY <1>4 DEF CloseSource
  <2> HIDE DEF R
  <2>3. /\ new \in Runs /\ Place(new) /\ next \in [Closers -> {0, 1}] /\ Closing(new, next)
        /\ new.at = "sinks"
    BY <1>1, <2>2, CloseTheSource DEF Runs
  <2> HIDE DEF new, next
  <2> QED
    BY <1>1, <1>2, <2>1, <2>3, Update DEF R
<1>5. CASE CloseSink(p)
  <2> DEFINE new == OnWith(R, Tail(LeftOf(R)))
             next == [closed[p] EXCEPT ![Head(LeftOf(R))] = @ + 1]
  <2>1. run' = [run EXCEPT ![p] = new] /\ closed' = [closed EXCEPT ![p] = next]
    BY <1>1, <1>5 DEF CloseSink
  <2>2. /\ R.at = "sinks" /\ LeftOf(R) # <<>>
        /\ Head(LeftOf(R)) \in AllSinks \ Routes
    BY <1>1, <1>5 DEF CloseSink, AtSink
  <2> HIDE DEF R
  <2>3. new \in Runs /\ Place(new) /\ new.at = "sinks"
    BY <1>1, <2>2, OnPlace
  <2>4. next \in [Closers -> {0, 1}] /\ Closing(new, next)
    BY <1>1, <2>2, CloseTheSink
  <2> HIDE DEF new, next
  <2> QED
    BY <1>1, <1>2, <2>1, <2>3, <2>4, Update DEF R
<1>6. CASE CloseRoute(p)
  <2> DEFINE r == Head(LeftOf(R))
             new == [R EXCEPT !.route = r, !.inner = Sinks[r], !.chain = Tail(LeftOf(R))]
  <2>1. run' = [run EXCEPT ![p] = new] /\ closed' = [closed EXCEPT ![p] = closed[p]]
    BY <1>1, <1>6 DEF CloseRoute, history, RunInv, Runs
  <2>2. R.at = "sinks" /\ LeftOf(R) # <<>> /\ r \in Routes
    BY <1>1, <1>6 DEF CloseRoute, AtSink
  <2> HIDE DEF R
  <2>3. new \in Runs /\ Place(new) /\ new.at = "sinks" /\ Closing(new, closed[p])
    BY <1>1, <2>2, CloseTheRoute
  <2> HIDE DEF new
  <2> QED
    BY <1>1, <1>2, <2>1, <2>3, Update DEF R
<1>7. CASE Return(p)
  <2> DEFINE new == [R EXCEPT !.at = "returned"]
  <2>1. run' = [run EXCEPT ![p] = new] /\ closed' = [closed EXCEPT ![p] = closed[p]]
    BY <1>1, <1>7 DEF Return, history
  <2>2. R.at = "sinks" /\ LeftOf(R) = <<>>
    BY <1>1, <1>7 DEF Return
  <2> HIDE DEF R
  <2>3. R.targets = 0 /\ R.inner = <<>> /\ R.chain = <<>>
    BY <1>1, <2>2, PipelineAssumption DEF Place, LeftOf, Runs
  <2>4. /\ new \in Runs /\ new.at = "returned" /\ new.chain = R.chain /\ new.inner = R.inner
        /\ new.targets = 0 /\ new.route = R.route
    BY <1>1, <2>3 DEF Runs
  <2> HIDE DEF new
  <2>5. Place(new) /\ Closing(new, closed[p])
    BY <1>1, <2>2, <2>3, <2>4 DEF Place, Closing, Pending
  <2> QED
    BY <1>1, <1>2, <2>1, <2>4, <2>5, Update DEF R
<1> QED
  BY <1>3, <1>4, <1>5, <1>6, <1>7

\* Whoever prints stays at its DecodeProcessor until it has printed.
LEMMA HolderStep == ASSUME IInv, [Next]_vars PROVE HolderInv'
<1>1. output' \in Pipelines \cup {None} /\ cancelled' \in BOOLEAN
  BY DEF IInv, HolderInv, HolderGoesOn, Next, Step, vars, history, ReadPacket, ReadNothing, ReadEOF,
     ReadCancelled, StartClosing, DecodeBegin, Process, WriteSink, DecodeEnd, Route,
     WriteToTarget, CloseSource, CloseSink, CloseRoute, Return, Cancel
<1> SUFFICES ASSUME NEW p \in Pipelines, output' = p PROVE AtStage(p, Decoders)'
  BY <1>1 DEF HolderInv, HolderGoesOn
<1>2. CASE UNCHANGED <<run, output>>
  BY <1>2 DEF IInv, HolderInv, HolderGoesOn, AtStage, Left
<1>3. ASSUME NEW q \in Pipelines, DecodeBegin(q) PROVE AtStage(p, Decoders)'
  BY <1>3 DEF DecodeBegin, AtStage, Left
<1>4. ASSUME NEW q \in Pipelines, DecodeEnd(q) PROVE AtStage(p, Decoders)'
  BY <1>4, PipelineAssumption DEF DecodeEnd
<1>5. ASSUME NEW q \in Pipelines,
             \/ ReadPacket(q) \/ ReadEOF(q) \/ ReadCancelled(q)
             \/ Process(q) \/ WriteSink(q) \/ Route(q) \/ WriteToTarget(q)
             \/ CloseSource(q) \/ CloseSink(q) \/ CloseRoute(q) \/ Return(q)
      PROVE  AtStage(p, Decoders)'
  <2>1. output = p /\ AtStage(p, Decoders)
    BY <1>5 DEF IInv, HolderInv, HolderGoesOn, ReadPacket, ReadEOF, ReadCancelled, StartClosing, Process,
       WriteSink, Route, WriteToTarget, CloseSource, CloseSink, CloseRoute, Return, history
  <2>2. q # p
    <3>1. Decoders \cap AllSinks = {} /\ Routes \subseteq AllSinks
      BY PipelineAssumption, Wiring
    <3>2. ~AtStage(q, Decoders)
      BY <1>5, <3>1 DEF ReadPacket, ReadEOF, ReadCancelled, StartClosing, AtRead,
         Process, WriteSink, Route, WriteToTarget, AtStage, Left, CloseSource, CloseSink,
         CloseRoute, Return, AtSink
    <3> QED
      BY <2>1, <3>2
  <2>3. run'[p] = run[p]
    BY <1>5, <2>2 DEF ReadPacket, ReadEOF, ReadCancelled, StartClosing, Process, WriteSink,
       Route, WriteToTarget, GoOn, CloseSource, CloseSink, CloseRoute, Return, IInv, RunInv
  <2>4. Left(p)' = Left(p)
    BY <2>3 DEF Left
  <2> QED
    BY <2>1, <2>3, <2>4 DEF AtStage
<1> QED
  BY <1>2, <1>3, <1>4, <1>5 DEF Next, Step, ReadNothing, Cancel, vars, history

LEMMA IInvStep == IInv /\ [Next]_vars => IInv'
<1> SUFFICES ASSUME IInv, [Next]_vars PROVE RunInv'
  BY HolderStep DEF IInv
<1> USE DEF IInv
<1>1. ASSUME NEW p \in Pipelines, Process(p) PROVE RunInv'
  <2>1. AtStage(p, AllProcessors)
    BY <1>1 DEF Process, AtStage
  <2> QED
    BY <1>1, <2>1, ProcessorStep DEF Process, history
<1>2. ASSUME NEW p \in Pipelines, DecodeEnd(p) PROVE RunInv'
  <2>1. AtStage(p, AllProcessors)
    BY <1>2, PipelineAssumption DEF DecodeEnd, HolderInv, HolderGoesOn, AtStage
  <2> QED
    BY <1>2, <2>1, ProcessorStep DEF DecodeEnd, history
<1>3. ASSUME NEW p \in Pipelines,
             \/ StartClosing(p) \/ CloseSource(p) \/ CloseSink(p) \/ CloseRoute(p) \/ Return(p)
      PROVE  RunInv'
  BY <1>3, ClosingStep
<1>4. ASSUME NEW p \in Pipelines,
             ReadPacket(p) \/ WriteSink(p) \/ Route(p) \/ WriteToTarget(p)
      PROVE  RunInv'
  BY <1>4, ReadStep, SinkStep, RouteStep, TargetStep
<1>5. CASE UNCHANGED <<run, offered, closed>>
  BY <1>5 DEF RunInv
<1> QED
  BY <1>1, <1>2, <1>3, <1>4, <1>5
  DEF Next, Step, ReadNothing, ReadEOF, ReadCancelled, DecodeBegin, Cancel, vars, history

LEMMA Invariant == Spec => []IInv
  BY InitIInv, IInvStep, PTL DEF Spec

-----------------------------------------------------------------------------
\* What is left of the packet is always the end of the chain it is on, no
\* sink is called more often than there are copies, nothing is closed twice.
THEOREM TypeCorrect == Spec => []TypeOK
<1>1. IInv => TypeOK
  <2> SUFFICES ASSUME IInv PROVE TypeOK
    OBVIOUS
  <2>1. ASSUME NEW p \in Pipelines
        PROVE  /\ run[p].at \in {"running", "source", "sinks", "returned"}
               /\ IsSuffix(run[p].chain, Stages(Main))
               /\ run[p].route \in Routes \cup {None}
               /\ run[p].targets \in 0..MaxTargets
               /\ run[p].inner = <<>> \/ IsSuffix(run[p].inner, Stages(run[p].route))
    <3> DEFINE R == run[p]
    <3>1. R \in Runs /\ Place(R)
      BY DEF IInv, RunInv
    <3> HIDE DEF R
    <3>2. IsSuffix(R.chain, Stages(Main))
      BY <3>1, Wiring, SuffixIsEnd DEF Place, Runs
    <3>3. R.inner # <<>> => IsSuffix(R.inner, Stages(R.route))
      <4> SUFFICES ASSUME R.inner # <<>> PROVE IsSuffix(R.inner, Stages(R.route))
        OBVIOUS
      <4>1. R.route \in Levels /\ R.inner \in Seq(AllStages) /\ EndsWith(Stages(R.route), R.inner)
        BY <3>1 DEF Place, Runs, Levels
      <4> QED
        BY <4>1, Wiring, SuffixIsEnd
    <3> QED
      BY <3>1, <3>2, <3>3 DEF Runs, R
  <2> QED
    BY <2>1 DEF TypeOK, IInv, RunInv, HolderInv, HolderGoesOn
<1> QED
  BY <1>1, Invariant, PTL

\* When Run comes back to Read, all sinks of the pipeline, and all sinks of
\* a route, have been given the packet, or its copies, equally often,
\* whichever stage has failed.
THEOREM NobodyIsStarved == Spec => []NoSinkIsStarved
<1>1. IInv => NoSinkIsStarved
  <2> SUFFICES ASSUME IInv, NEW p \in Pipelines, AtRead(p), NEW l \in Levels,
                      NEW s \in Range(Sinks[l]), NEW t \in Range(Sinks[l])
               PROVE  offered[p][s] = offered[p][t]
    BY DEF NoSinkIsStarved
  <2>1. /\ run[p].inner = <<>> /\ run[p].chain = <<>>
        /\ Even(run[p], offered[p])
    BY DEF AtRead, Left, IInv, RunInv
  <2>2. PICK b : Given(offered[p], l, <<>>, b)
    <3>1. CASE l = Main
      BY <2>1, <3>1 DEF Even, GivenMain
    <3>2. CASE l \in Routes
      BY <2>1, <3>2 DEF Even, GivenRoute, InnerOf
    <3> QED
      BY <3>1, <3>2 DEF Levels
  <2>3. Range(<<>>) = {}
    BY DEF Range
  <2> QED
    BY <2>2, <2>3 DEF Given
<1> QED
  BY <1>1, Invariant, PTL

\* When Run has returned, the source and every sink have been closed exactly
\* once, whichever Close and whichever stage has failed.
THEOREM ClosedOnce == Spec => []ClosedExactlyOnce
<1>1. IInv => ClosedExactlyOnce
  <2> SUFFICES ASSUME IInv, NEW p \in Pipelines, run[p].at = "returned", NEW s \in Closers
               PROVE  closed[p][s] = 1
    BY DEF ClosedExactlyOnce
  <2>1. Closing(run[p], closed[p]) /\ run[p].chain = <<>> /\ run[p].inner = <<>>
    BY DEF IInv, RunInv, Place
  <2>2. Pending(run[p]) = {}
    BY <2>1 DEF Pending, Range
  <2> QED
    BY <2>1, <2>2 DEF Closing, Closers
<1> QED
  BY <1>1, Invariant, PTL

\* Who holds decodeOutputMu is a pipeline that is running and at a
\* DecodeProcessor, so that its next step releases it: the part of RunEnds
\* that does not depend on the scheduler.
THEOREM HolderPrints == Spec => []HolderGoesOn
<1>1. IInv => HolderGoesOn
  BY DEF IInv, HolderInv
<1> QED
  BY <1>1, Invariant, PTL
=============================================================================
