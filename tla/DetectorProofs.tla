--------------------------- MODULE DetectorProofs ---------------------------
(***************************************************************************)
(* Proofs about Detector and Scorer, for any addresses, requests, windows  *)
(* and counts.  No address is blocked by its first candidate; while its    *)
(* lines are in order, none without the configured number of independent   *)
(* ones; and one whose candidates keep coming is blocked.  An attack never *)
(* lowers a score, and neither speed nor missing pages make one high.      *)
(***************************************************************************)
EXTENDS Detector, Calls, WindowProofs

Decisions == [ip : Sources, path : Pages, sec : Int, late : BOOLEAN, odd : BOOLEAN,
              case : Cases, blocked : BOOLEAN]

\* An observation began with a candidate of its address.
Began(a) ==
    \E i \in 1 .. Len(decided) : /\ decided[i].ip = a /\ NeedsConfirmation(decided[i])
                                 /\ decided[i].sec = observations[a].first

AnnouncedInv ==
    /\ decided \in Seq(Decisions) /\ time \in Nat
    /\ \A a \in DOMAIN observations : Began(a)
    /\ BlockIsAnnounced

\* Nothing is observed at first.
LEMMA InitDetector == DetectorInit => AnnouncedInv
<1> SUFFICES ASSUME DetectorInit PROVE AnnouncedInv
  OBVIOUS
<1>1. decided = <<>> /\ observations = <<>> /\ time \in Nat
  BY DetectorAssumption DEF DetectorInit, DetectorAssumption
<1>2. decided \in Seq(Decisions)
  BY <1>1
<1>3. DOMAIN observations = {}
  BY <1>1
<1>4. Newest = {}
  BY <1>1 DEF Newest
<1> QED  BY <1>1, <1>2, <1>3, <1>4 DEF AnnouncedInv, BlockIsAnnounced

\* A decision that is added leaves the earlier ones in their places.
LEMMA DecisionIsAdded ==
  ASSUME AnnouncedInv, NEW a \in Sources, NEW c \in Cases,
         NEW sec \in (time - MaxLate) .. time, NEW blocks \in BOOLEAN,
         Start(a, c.page, sec, c, blocks)
  PROVE  /\ decided' \in Seq(Decisions) /\ Len(decided') = Len(decided) + 1
         /\ Len(decided) \in Nat /\ sec \in Int
         /\ \A i \in 1 .. Len(decided) : decided'[i] = decided[i]
         /\ Newest' = {Len(decided')}
         /\ LET d == decided'[Len(decided')]
            IN  /\ d.ip = a /\ d.sec = sec /\ d.case = c /\ d.blocked = blocks
                /\ d.path = c.page /\ d.late = (sec < time)
<1> DEFINE d == [ip |-> a, path |-> c.page, sec |-> sec, late |-> sec < time,
                 odd |-> Odd(a, sec, c), case |-> c, blocked |-> blocks]
<1>1. decided \in Seq(Decisions) /\ decided' = Append(decided, d)
  BY DEF AnnouncedInv, Start
<1>2. sec \in Int
  BY DetectorAssumption DEF DetectorAssumption, AnnouncedInv
<1>3. c.page \in Pages
  BY DEF Pages
<1>4. Odd(a, sec, c) \in BOOLEAN
  BY DEF Odd
<1>5. d \in Decisions
  BY <1>2, <1>3, <1>4 DEF Decisions
<1>6. /\ d.ip = a /\ d.sec = sec /\ d.case = c /\ d.blocked = blocks
      /\ d.path = c.page /\ d.late = (sec < time)
  OBVIOUS
<1> HIDE DEF d
<1>7. /\ decided' \in Seq(Decisions) /\ Len(decided') = Len(decided) + 1
      /\ Len(decided) \in Nat
      /\ \A i \in 1 .. Len(decided) : decided'[i] = decided[i]
      /\ decided'[Len(decided) + 1] = d
  BY <1>1, <1>5, AppendProperties
<1>8. Newest' = {Len(decided')}
  <2>1. decided' # <<>>
    BY <1>7
  <2> QED  BY <2>1 DEF Newest
<1> QED  BY <1>2, <1>6, <1>7, <1>8

\* A request that is judged alone needs no confirmation, or blocks nothing.
LEMMA JudgeStep ==
  ASSUME AnnouncedInv, NEW a \in Sources, NEW c \in Cases,
         NEW sec \in (time - MaxLate) .. time, Judge(a, c.page, sec, c)
  PROVE  AnnouncedInv'
<1>1. PICK blocks \in BOOLEAN :
          /\ Start(a, c.page, sec, c, blocks)
          /\ blocks => Route(c) = "honeypot" \/ Immediate(c)
  BY DetectorAssumption DEF Judge, DetectorAssumption
<1>2. UNCHANGED <<observations, time>>
  BY DEF Judge
<1> DEFINE d == decided'[Len(decided')]
<1>3. /\ decided' \in Seq(Decisions) /\ Len(decided') = Len(decided) + 1
      /\ Len(decided) \in Nat
      /\ \A i \in 1 .. Len(decided) : decided'[i] = decided[i]
      /\ Newest' = {Len(decided')} /\ d.case = c /\ d.blocked = blocks
  BY <1>1, DecisionIsAdded
<1>4. d.blocked => ~NeedsConfirmation(d)
  BY <1>1, <1>3 DEF NeedsConfirmation
<1>5. \A b \in DOMAIN observations : Began(b)'
  BY <1>2, <1>3 DEF AnnouncedInv, Began
<1>6. BlockIsAnnounced'
  BY <1>3, <1>4 DEF BlockIsAnnounced
<1> QED  BY <1>2, <1>3, <1>5, <1>6 DEF AnnouncedInv

\* An observation that has not run out began with an earlier candidate; a new one begins
\* with this one.
LEMMA ObserveStep ==
  ASSUME AnnouncedInv, NEW a \in Sources, NEW c \in Cases,
         NEW sec \in (time - MaxLate) .. time, Observe(a, c.page, sec, c)
  PROVE  AnnouncedInv'
<1>1. CASE closed
  BY <1>1
     DEF Observe, AnnouncedInv, Began, NeedsConfirmation, BlockIsAnnounced, Newest
<1>2. CASE ~closed
  <2> DEFINE blocks == Confirms(a, c.page, sec)
  <2> DEFINE d == decided'[Len(decided')]
  <2>1. /\ Start(a, c.page, sec, c, blocks) /\ UNCHANGED time
        /\ Route(c) = "scored" /\ Score(c) >= High /\ ~Immediate(c)
        /\ observations' =
              [b \in DOMAIN observations \cup {a} |->
                  IF b # a THEN observations[b]
                  ELSE IF a \in DOMAIN observations
                       THEN Observed(observations[a], c.page, sec)
                       ELSE Observation(c.page, sec)]
    BY <1>2 DEF Observe
  <2>2. blocks \in BOOLEAN
    BY DEF Confirms
  <2>3. /\ decided' \in Seq(Decisions) /\ Len(decided') = Len(decided) + 1
        /\ Len(decided) \in Nat /\ sec \in Int
        /\ \A i \in 1 .. Len(decided) : decided'[i] = decided[i]
        /\ Newest' = {Len(decided')}
        /\ d.ip = a /\ d.sec = sec /\ d.case = c /\ d.blocked = blocks
    BY <2>1, <2>2, DecisionIsAdded
  <2>4. NeedsConfirmation(d)
    BY <2>1, <2>3 DEF NeedsConfirmation
  <2> HIDE DEF d
  <2>5. BlockIsAnnounced'
    <3>1. SUFFICES ASSUME blocks
                   PROVE  \E i \in 1 .. Len(decided) :
                             /\ decided[i].ip = a /\ NeedsConfirmation(decided[i])
                             /\ sec - decided[i].sec <= ObserveWindow
      BY <2>3 DEF BlockIsAnnounced, d, NeedsConfirmation
    <3>2. a \in DOMAIN observations /\ ~(sec - observations[a].first > ObserveWindow)
      BY <3>1 DEF Confirms, Expired
    <3>3. PICK i \in 1 .. Len(decided) : /\ decided[i].ip = a
                                         /\ NeedsConfirmation(decided[i])
                                         /\ decided[i].sec = observations[a].first
      BY <3>2 DEF AnnouncedInv, Began
    <3>4. decided[i].sec \in Int
      <4>1. decided[i] \in Decisions
        BY ElementOfSeq DEF AnnouncedInv
      <4> QED  BY <4>1 DEF Decisions
    <3> QED  BY <2>3, <3>2, <3>3, <3>4, DetectorAssumption DEF DetectorAssumption
  <2>6. \A b \in DOMAIN observations' : Began(b)'
    <3>1. ASSUME NEW b \in DOMAIN observations', b # a PROVE Began(b)'
      <4>1. b \in DOMAIN observations /\ observations'[b] = observations[b]
        BY <2>1, <3>1
      <4> QED  BY <2>3, <4>1 DEF AnnouncedInv, Began, NeedsConfirmation
    <3>2. ASSUME a \in DOMAIN observations, observations'[a].first = observations[a].first
          PROVE  Began(a)'
      BY <2>3, <3>2 DEF AnnouncedInv, Began, NeedsConfirmation
    <3>3. ASSUME observations'[a].first = sec PROVE Began(a)'
      BY <2>3, <2>4, <3>3 DEF Began, d, NeedsConfirmation
    <3>4. \/ a \in DOMAIN observations /\ observations'[a].first = observations[a].first
          \/ observations'[a].first = sec
      <4>1. ASSUME a \in DOMAIN observations
            PROVE  \/ Observed(observations[a], c.page, sec).first = observations[a].first
                   \/ Observed(observations[a], c.page, sec).first = sec
        BY DEF Observed, Observation, Counted
      <4> QED  BY <2>1, <4>1 DEF Observation
    <3> QED  BY <3>1, <3>2, <3>3, <3>4
  <2> QED  BY <2>1, <2>3, <2>5, <2>6 DEF AnnouncedInv
<1> QED  BY <1>1, <1>2

\* The other steps only forget observations.
LEMMA ForgetStep ==
  ASSUME AnnouncedInv, UNCHANGED decided, time' \in Nat,
         \A a \in DOMAIN observations' :
            a \in DOMAIN observations /\ observations'[a] = observations[a]
  PROVE  AnnouncedInv'
  BY DEF AnnouncedInv, Began, BlockIsAnnounced, Newest, NeedsConfirmation

\* No step breaks the invariant.
LEMMA DetectorStep == AnnouncedInv /\ [DetectorNext]_detectorVars => AnnouncedInv'
<1> SUFFICES ASSUME AnnouncedInv, [DetectorNext]_detectorVars PROVE AnnouncedInv'
  OBVIOUS
<1>1. ASSUME UNCHANGED <<observations, decided>>, time' \in Nat PROVE AnnouncedInv'
  BY <1>1, ForgetStep
<1>2. CASE UNCHANGED detectorVars
  BY <1>1, <1>2 DEF detectorVars, AnnouncedInv
<1>3. ASSUME NEW a \in Sources, NEW c \in Cases, NEW sec \in (time - MaxLate) .. time,
             Judge(a, c.page, sec, c) \/ Observe(a, c.page, sec, c)
      PROVE  AnnouncedInv'
  BY <1>3, JudgeStep, ObserveStep
<1>4. CASE \E accepted \in BOOLEAN : Trigger(accepted)
  BY <1>1, <1>4 DEF Trigger, AnnouncedInv
<1>5. CASE Clear \/ EvictObservations \/ Close
  <2>1. UNCHANGED <<decided, time>>
    BY <1>5 DEF Clear, EvictObservations, Close
  <2>2. CASE Clear
    BY <2>1, <2>2, ForgetStep DEF Clear, AnnouncedInv
  <2>3. CASE EvictObservations
    BY <2>1, <2>3, ForgetStep DEF EvictObservations, AnnouncedInv
  <2>4. CASE Close
    <3>1. DOMAIN observations' = {}
      BY <2>4 DEF Close
    <3> QED  BY <2>1, <3>1, ForgetStep DEF AnnouncedInv
  <2> QED  BY <1>5, <2>2, <2>3, <2>4
<1>6. CASE Tick
  BY <1>1, <1>6 DEF Tick, AnnouncedInv
<1> QED  BY <1>2, <1>3, <1>4, <1>5, <1>6 DEF DetectorNext

\* A request without a fatal feature blocks its address only if an earlier candidate of
\* that address lies within the observation window, whatever is merged, evicted and late.
THEOREM NoBlockAtOnce == DetectorSpec => []BlockIsAnnounced
<1>1. AnnouncedInv => BlockIsAnnounced
  BY DEF AnnouncedInv
<1> QED  BY <1>1, InitDetector, DetectorStep, PTL DEF DetectorSpec

-----------------------------------------------------------------------------
(* Confirmation, while the lines of an address arrive in their order.         *)

\* The lines of each address are in order.
LinesAscend(ds) ==
    \A i, j \in 1 .. Len(ds) : i < j /\ ds[i].ip = ds[j].ip => ds[i].sec <= ds[j].sec

\* s are n candidates of address a among the decisions ds, none before first, each
\* independent of the one before.
Linked(ds, a, first, n, s) ==
    /\ \A k \in 1 .. n : /\ ds[s[k]].ip = a /\ NeedsConfirmation(ds[s[k]])
                         /\ ds[s[k]].sec >= first
    /\ \A k \in 1 .. (n - 1) : s[k] < s[k + 1] /\ Apart(ds[s[k]], ds[s[k + 1]])

\* What an observation is.
Kept == [first : Int, last : Int, count : Nat \ {0}, path : Pages]

\* Of the decisions ds, s are the candidates of address a that its observation o counts.
Chain(ds, a, o, s) ==
    /\ o \in Kept
    /\ s \in [1 .. o.count -> 1 .. Len(ds)]
    /\ Linked(ds, a, o.first, o.count, s)
    /\ ds[s[o.count]].sec <= o.last /\ ds[s[o.count]].path = o.path
    /\ \E i \in 1 .. Len(ds) : ds[i].ip = a /\ ds[i].sec = o.last

ChainsHold ==
    LinesAscend(decided) =>
        \A a \in DOMAIN observations : \E s : Chain(decided, a, observations[a], s)

ConfirmedInv == AnnouncedInv /\ ChainsHold /\ BlockIsConfirmed

\* es is ds with one more decision.
Extends(es, ds) ==
    /\ ds \in Seq(Decisions) /\ es \in Seq(Decisions) /\ Len(es) = Len(ds) + 1
    /\ \A i \in 1 .. Len(ds) : es[i] = ds[i]

\* What was decided keeps its place.
LEMMA ExtendsKeeps ==
  ASSUME NEW ds, NEW es, Extends(es, ds)
  PROVE  /\ Len(ds) \in Nat /\ Len(es) \in 1 .. Len(es) /\ Len(es) \notin 1 .. Len(ds)
         /\ \A i \in 1 .. Len(ds) : i \in 1 .. Len(es) /\ i < Len(es)
         /\ LinesAscend(es) => LinesAscend(ds)
         /\ \A i \in 1 .. Len(es) : es[i] \in Decisions /\ es[i].sec \in Int
         /\ \A i \in 1 .. Len(ds) : ds[i] \in Decisions /\ ds[i].sec \in Int
<1>1. Len(ds) \in Nat /\ Len(es) = Len(ds) + 1
  BY DEF Extends
<1>2. \A i \in 1 .. Len(es) : es[i] \in Decisions
  BY ElementOfSeq DEF Extends
<1>3. \A i \in 1 .. Len(ds) : ds[i] \in Decisions
  BY ElementOfSeq DEF Extends
<1>4. LinesAscend(es) => LinesAscend(ds)
  BY <1>1 DEF LinesAscend, Extends
<1> QED  BY <1>1, <1>2, <1>3, <1>4 DEF Decisions

\* The observation of an address that got no event stands for what it stood for.
LEMMA ChainKeeps ==
  ASSUME NEW ds, NEW es, Extends(es, ds), NEW a, NEW o, NEW s, Chain(ds, a, o, s)
  PROVE  Chain(es, a, o, s)
<1>1. Len(ds) \in Nat /\ Len(es) = Len(ds) + 1 /\ \A i \in 1 .. Len(ds) : i \in 1 .. Len(es)
  BY ExtendsKeeps DEF Extends
<1>2. o.count \in Nat \ {0} /\ \A k \in 1 .. o.count : s[k] \in 1 .. Len(ds)
  BY DEF Kept, Chain, Linked
<1>3. \A k \in 1 .. o.count : es[s[k]] = ds[s[k]]
  BY <1>2 DEF Extends
<1>4. \A k \in 1 .. (o.count - 1) : k \in 1 .. o.count /\ k + 1 \in 1 .. o.count
  BY <1>2
<1>5. o.count \in 1 .. o.count
  BY <1>2
<1>6. s \in [1 .. o.count -> 1 .. Len(es)]
  BY <1>1 DEF Kept, Chain, Linked
<1>7. \E i \in 1 .. Len(es) : es[i].ip = a /\ es[i].sec = o.last
  BY <1>1 DEF Kept, Chain, Linked, Extends
<1> QED  BY <1>3, <1>4, <1>5, <1>6, <1>7 DEF Kept, Chain, Linked

\* What an observation last saw is not later than an event that comes after it.
LEMMA LastBefore ==
  ASSUME NEW ds, NEW es, Extends(es, ds), LinesAscend(es), NEW o, NEW s,
         Chain(ds, es[Len(es)].ip, o, s)
  PROVE  o.last <= es[Len(es)].sec
<1>1. PICK i \in 1 .. Len(ds) : ds[i].ip = es[Len(es)].ip /\ ds[i].sec = o.last
  BY DEF Kept, Chain, Linked
<1>2. /\ es[i] = ds[i] /\ i \in 1 .. Len(es) /\ i < Len(es) /\ Len(es) \in 1 .. Len(es)
  BY ExtendsKeeps DEF Extends
<1> QED  BY <1>1, <1>2 DEF LinesAscend

\* A candidate that is not merged is independent of the last one counted.
LEMMA LastIndependent ==
  ASSUME NEW ds, NEW es, Extends(es, ds), LinesAscend(es), NEW o, NEW s, NEW d, d = es[Len(es)],
         Chain(ds, d.ip, o, s), NeedsConfirmation(d), ~Merges(o, d.path, d.sec)
  PROVE  /\ s[o.count] < Len(es) /\ Apart(es[s[o.count]], d)
         /\ o.first <= d.sec
<1> DEFINE e == es[s[o.count]]
<1>1. o.count \in 1 .. o.count /\ s[o.count] \in 1 .. Len(ds)
  BY DEF Kept, Chain, Linked
<1>2. /\ e = ds[s[o.count]] /\ s[o.count] < Len(es) /\ e.sec \in Int /\ d.sec \in Int
  BY <1>1, ExtendsKeeps DEF Extends
<1>3. /\ e.ip = d.ip /\ NeedsConfirmation(e) /\ e.sec >= o.first /\ e.sec <= o.last
      /\ e.path = o.path /\ o.first \in Int /\ o.last \in Int
  BY <1>1, <1>2 DEF Kept, Chain, Linked
<1> HIDE DEF e
<1>4. o.last <= d.sec
  BY LastBefore
<1>5. MergeWindow > 0 => /\ e.sec < d.sec
                         /\ e.path = d.path => d.sec - e.sec > MergeWindow
  BY <1>2, <1>3, <1>4, DetectorAssumption DEF DetectorAssumption, Merges
<1> QED  BY <1>2, <1>3, <1>4, <1>5 DEF Apart, e

\* It makes what the observation counts longer by one.
LEMMA ChainGrows ==
  ASSUME NEW ds, NEW es, Extends(es, ds), LinesAscend(es), NEW o, NEW s, NEW d, d = es[Len(es)],
         Chain(ds, d.ip, o, s), NeedsConfirmation(d), ~Merges(o, d.path, d.sec),
         NEW n, n = o.count + 1,
         NEW t, t[n] = Len(es), \A k \in 1 .. o.count : t[k] = s[k]
  PROVE  Linked(es, d.ip, o.first, n, t)
<1> DEFINE m == o.count
<1>1. /\ m \in Nat \ {0} /\ s \in [1 .. m -> 1 .. Len(ds)] /\ o.first \in Int
  BY DEF Kept, Chain, Linked
<1>2. Chain(es, d.ip, o, s)
  BY ChainKeeps
<1>3. /\ \A k \in 1 .. m : /\ es[s[k]].ip = d.ip /\ NeedsConfirmation(es[s[k]])
                           /\ es[s[k]].sec >= o.first
      /\ \A k \in 1 .. (m - 1) : s[k] < s[k + 1] /\ Apart(es[s[k]], es[s[k + 1]])
  BY <1>2 DEF Kept, Chain, Linked
<1>4. s[m] < Len(es) /\ Apart(es[s[m]], d) /\ o.first <= d.sec
  BY LastIndependent
<1>5. Len(es) \in 1 .. Len(es) /\ \A i \in 1 .. Len(ds) : i \in 1 .. Len(es)
      /\ d.sec \in Int
  BY ExtendsKeeps
<1> HIDE DEF m
<1>6. n = m + 1 /\ n \in Nat \ {0} /\ \A k \in 1 .. n : k = n \/ k \in 1 .. m
  BY <1>1 DEF m
<1>8. t[n] = Len(es) /\ \A k \in 1 .. m : t[k] = s[k]
  BY DEF m
<1>9. ASSUME NEW k \in 1 .. n
      PROVE  /\ es[t[k]].ip = d.ip /\ NeedsConfirmation(es[t[k]])
             /\ es[t[k]].sec >= o.first
  BY <1>1, <1>3, <1>4, <1>5, <1>6, <1>8
<1>10. ASSUME NEW k \in 1 .. (n - 1)
       PROVE  t[k] < t[k + 1] /\ Apart(es[t[k]], es[t[k + 1]])
  <2>1. CASE k = m
    <3>1. t[k] = s[m] /\ t[k + 1] = Len(es)
      BY <1>1, <1>6, <1>8, <2>1
    <3> QED  BY <1>4, <3>1
  <2>2. CASE k \in 1 .. (m - 1)
    <3>1. k \in 1 .. m /\ k + 1 \in 1 .. m
      BY <1>1, <2>2
    <3>2. t[k] = s[k] /\ t[k + 1] = s[k + 1]
      BY <1>8, <3>1
    <3> QED  BY <1>3, <2>2, <3>2
  <2> QED  BY <1>1, <1>6, <2>1, <2>2
<1> QED  BY <1>9, <1>10 DEF Linked

\* A chain long enough, all of it within the observation window, confirms a block.
LEMMA ChainConfirms ==
  ASSUME NEW es \in Seq(Decisions), NEW n \in Nat \ {0}, NEW t \in [1 .. n -> 1 .. Len(es)],
         NEW first \in Int, NEW a, Linked(es, a, first, n, t),
         t[n] = Len(es), ConfirmCount \in Nat, 1 < ConfirmCount, ConfirmCount <= n,
         es[Len(es)].sec - first <= ObserveWindow
  PROVE  \E u \in [1 .. ConfirmCount -> 1 .. Len(es)] :
            /\ u[ConfirmCount] = Len(es)
            /\ \A k \in 1 .. (ConfirmCount - 1) :
                  u[k] < u[k + 1] /\ Apart(es[u[k]], es[u[k + 1]])
            /\ es[u[1]].sec >= es[Len(es)].sec - ObserveWindow
<1> DEFINE u == [k \in 1 .. ConfirmCount |-> t[n - ConfirmCount + k]]
<1>1. \A k \in 1 .. ConfirmCount : n - ConfirmCount + k \in 1 .. n
  OBVIOUS
<1>2. u \in [1 .. ConfirmCount -> 1 .. Len(es)]
  BY <1>1
<1>3. u[ConfirmCount] = Len(es)
  BY <1>1
<1>4. ASSUME NEW k \in 1 .. (ConfirmCount - 1)
      PROVE  u[k] < u[k + 1] /\ Apart(es[u[k]], es[u[k + 1]])
  <2>0. /\ n \in Nat /\ ConfirmCount \in Nat /\ ConfirmCount <= n
        /\ k \in 1 .. (ConfirmCount - 1)
    OBVIOUS
  <2>1. /\ n - ConfirmCount + k \in 1 .. (n - 1)
        /\ (n - ConfirmCount + k) + 1 = n - ConfirmCount + (k + 1)
        /\ k \in 1 .. ConfirmCount /\ k + 1 \in 1 .. ConfirmCount
    BY ONLY <2>0
  <2>2. u[k] = t[n - ConfirmCount + k] /\ u[k + 1] = t[(n - ConfirmCount + k) + 1]
    BY <2>1
  <2> QED  BY <2>1, <2>2 DEF Linked
<1>5. es[u[1]].sec >= es[Len(es)].sec - ObserveWindow
  <2>1. u[1] = t[n - ConfirmCount + 1] /\ n - ConfirmCount + 1 \in 1 .. n
    BY <1>1
  <2>2. es[u[1]].sec >= first /\ u[1] \in 1 .. Len(es) /\ t[n] \in 1 .. Len(es)
    BY <2>1 DEF Linked
  <2>3. es[u[1]] \in Decisions /\ es[t[n]] \in Decisions
    <3> HIDE DEF u
    <3> QED  BY <2>2, ElementOfSeq
  <2>4. es[u[1]].sec \in Int /\ es[Len(es)].sec \in Int
    BY <2>3 DEF Decisions
  <2> QED  BY <2>2, <2>4, DetectorAssumption DEF DetectorAssumption
<1> HIDE DEF u
<1> QED  BY <1>2, <1>3, <1>4, <1>5

\* What counting one more candidate makes of an observation.
LEMMA CountedIs ==
  ASSUME NEW o \in Kept, NEW path \in Pages, NEW sec \in Int,
         NEW p, p = Counted(o, path, sec)
  PROVE  /\ p \in Kept /\ p.first = o.first /\ o.first \in Int
         /\ p.last = sec /\ p.path = path /\ p.count = o.count + 1
<1> USE DEF Kept
<1> DEFINE q == [[o EXCEPT !.last = sec] EXCEPT !.path = path]
<1>1. p = [q EXCEPT !.count = @ + 1]
  BY DEF Counted
<1>2. /\ q \in Kept
      /\ q.first = o.first /\ q.last = sec /\ q.path = path /\ q.count = o.count
      /\ o.first \in Int
  OBVIOUS
<1> HIDE DEF q
<1> QED  BY <1>1, <1>2

\* A request that needs confirmation extends what its observation counts, or begins
\* it anew; and blocks only when the count is reached.
LEMMA ObserveConfirmed ==
  ASSUME ConfirmedInv, NEW a \in Sources, NEW c \in Cases,
         NEW sec \in (time - MaxLate) .. time, Observe(a, c.page, sec, c)
  PROVE  ChainsHold' /\ BlockIsConfirmed'
<1>0. AnnouncedInv
  BY DEF ConfirmedInv
<1>1. CASE closed
  <2>1. UNCHANGED <<observations, decided>>
    BY <1>1 DEF Observe
  <2> QED  BY <2>1 DEF ConfirmedInv, ChainsHold, BlockIsConfirmed, Newest, InOrderTo,
                       Independent, Confirmed
<1>2. CASE ~closed
  <2> DEFINE blocks == Confirms(a, c.page, sec)
             d == decided'[Len(decided')]
             es == decided'
  <2>1. /\ Start(a, c.page, sec, c, blocks) /\ UNCHANGED time
        /\ Route(c) = "scored" /\ Score(c) >= High /\ ~Immediate(c)
        /\ observations' =
              [b \in DOMAIN observations \cup {a} |->
                  IF b # a THEN observations[b]
                  ELSE IF a \in DOMAIN observations
                       THEN Observed(observations[a], c.page, sec)
                       ELSE Observation(c.page, sec)]
    BY <1>2 DEF Observe
  <2>2. blocks \in BOOLEAN
    BY DEF Confirms
  <2>3. /\ decided' \in Seq(Decisions) /\ Len(decided') = Len(decided) + 1
        /\ Len(decided) \in Nat /\ sec \in Int
        /\ \A i \in 1 .. Len(decided) : decided'[i] = decided[i]
        /\ Newest' = {Len(decided')}
        /\ d.ip = a /\ d.sec = sec /\ d.case = c /\ d.blocked = blocks
    BY <1>0, <2>1, <2>2, DecisionIsAdded
  <2>4. Extends(es, decided)
    BY <1>0, <2>3 DEF Extends, AnnouncedInv
  <2>5. d.path = c.page /\ c.page \in Pages
    <3>1. decided' = Append(decided, [ip |-> a, path |-> c.page, sec |-> sec,
                                      late |-> sec < time, odd |-> Odd(a, sec, c),
                                      case |-> c, blocked |-> blocks])
      BY <2>1 DEF Start
    <3> QED  BY <1>0, <2>3, <3>1 DEF AnnouncedInv, Pages
  <2>6. NeedsConfirmation(d)
    BY <2>1, <2>3 DEF NeedsConfirmation
  <2>7. InOrderTo(Len(decided))' <=> LinesAscend(es)
    BY DEF InOrderTo, LinesAscend
  <2> DEFINE Goal == /\ \A b \in DOMAIN observations' : \E s : Chain(es, b, observations'[b], s)
                     /\ blocks => Confirmed(Len(decided))'
  <2>8. SUFFICES ASSUME LinesAscend(es) PROVE Goal
    BY <2>3, <2>7 DEF Kept, ChainsHold, BlockIsConfirmed
  <2> HIDE DEF d, blocks, es
  <2>9. \A b \in DOMAIN observations : \E s : Chain(decided, b, observations[b], s)
    BY <2>4, <2>8, ExtendsKeeps DEF ConfirmedInv, ChainsHold
  <2>10. \A b \in DOMAIN observations' \ {a} : \E s : Chain(es, b, observations'[b], s)
    BY <2>1, <2>4, <2>9, ChainKeeps
  <2>11. es[Len(es)] = d /\ Len(es) \in 1 .. Len(es)
    BY <2>4, ExtendsKeeps DEF es, d
  <2>12. ASSUME observations'[a] = Observation(c.page, sec)
         PROVE  \E s : Chain(es, a, observations'[a], s)
    <3> DEFINE s == [k \in 1 .. 1 |-> Len(es)]
               p == Observation(c.page, sec)
    <3>1. /\ p \in Kept
          /\ p.first = sec /\ p.last = sec /\ p.count = 1 /\ p.path = c.page
      BY <2>3, <2>5 DEF Kept, Observation
    <3>2. s \in [1 .. 1 -> 1 .. Len(es)] /\ s[1] = Len(es) /\ \A k \in 1 .. 1 : k = 1
      BY <2>11
    <3> HIDE DEF s, p
    <3>3. Chain(es, a, p, s)
      BY <2>3, <2>5, <2>6, <2>11, <3>1, <3>2 DEF Kept, Chain, Linked
    <3> QED  BY <2>12, <3>3 DEF p
  <2>13. ASSUME ~blocks, \E s : Chain(es, a, observations'[a], s) PROVE Goal
    BY <2>10, <2>13
  <2>14. CASE a \notin DOMAIN observations
    <3>1. ~blocks /\ observations'[a] = Observation(c.page, sec)
      BY <2>1, <2>14 DEF Confirms, blocks
    <3> QED  BY <2>12, <2>13, <3>1
  <2>15. CASE a \in DOMAIN observations
    <3> DEFINE o == observations[a]
    <3>1. PICK s : Chain(decided, a, o, s)
      BY <2>9, <2>15
    <3>2. observations'[a] = Observed(o, c.page, sec)
      BY <2>1, <2>15
    <3>3. blocks => ~Merges(o, c.page, sec) /\ ~Expired(o, sec) /\ o.count + 1 >= ConfirmCount
      BY DEF blocks, Confirms
    <3> HIDE DEF o
    <3>4. CASE Merges(o, c.page, sec)
      <4> DEFINE p == [o EXCEPT !.last = sec]
      <4>1. observations'[a] = p
        BY <3>2, <3>4 DEF Observed
      <4>2. Chain(es, a, o, s)
        BY <2>4, <3>1, ChainKeeps
      <4>3. o.last <= sec
        BY <2>3, <2>4, <2>8, <2>11, <3>1, LastBefore
      <4>4. /\ o \in Kept
            /\ p \in Kept
            /\ p.first = o.first /\ p.last = sec /\ p.count = o.count /\ p.path = o.path
        BY <2>3, <4>2 DEF Kept, Chain, Linked
      <4> HIDE DEF p
      <4>5. es[s[o.count]].sec <= sec
        <5>1. s[o.count] \in 1 .. Len(es) /\ es[s[o.count]].sec <= o.last
          BY <4>2, <4>4 DEF Kept, Chain, Linked
        <5>2. es[s[o.count]].sec \in Int
          BY <2>4, <5>1, ExtendsKeeps
        <5> QED  BY <2>3, <4>3, <4>4, <5>1, <5>2 DEF Kept
      <4>6. Chain(es, a, p, s)
        BY <2>3, <2>11, <4>2, <4>4, <4>5 DEF Kept, Chain, Linked
      <4> QED  BY <2>13, <3>3, <3>4, <4>1, <4>6
    <3>5. CASE ~Merges(o, c.page, sec) /\ Expired(o, sec)
      <4>1. observations'[a] = Observation(c.page, sec)
        BY <3>2, <3>5 DEF Observed
      <4> QED  BY <2>12, <2>13, <3>3, <3>5, <4>1
    <3>6. CASE ~Merges(o, c.page, sec) /\ ~Expired(o, sec)
      <4> DEFINE n == o.count + 1
                 t == [k \in 1 .. n |-> IF k = n THEN Len(es) ELSE s[k]]
                 p == Counted(o, c.page, sec)
      <4>9. o \in Kept
        BY <3>1 DEF Kept, Chain, Linked
      <4>1. /\ n \in Nat \ {0} /\ t \in [1 .. n -> 1 .. Len(es)]
            /\ Linked(es, a, o.first, n, t) /\ t[n] = Len(es)
        <5>1. d = es[Len(es)] /\ d.ip = a /\ NeedsConfirmation(d)
              /\ Chain(decided, d.ip, o, s) /\ ~Merges(o, d.path, d.sec)
          BY <2>3, <2>5, <2>6, <2>11, <3>1, <3>6
        <5>2. /\ n \in Nat \ {0} /\ n = o.count + 1 /\ n \in 1 .. n
              /\ \A k \in 1 .. n : k = n \/ k \in 1 .. o.count
              /\ \A k \in 1 .. o.count : k \in 1 .. n /\ k # n
          BY <4>9 DEF Kept
        <5>3. \A k \in 1 .. o.count : s[k] \in 1 .. Len(es)
          BY <2>4, <3>1, ExtendsKeeps DEF Kept, Chain, Linked
        <5>4. /\ t \in [1 .. n -> 1 .. Len(es)] /\ t[n] = Len(es)
              /\ \A k \in 1 .. o.count : t[k] = s[k]
          <6> HIDE DEF n
          <6> QED  BY <2>11, <5>2, <5>3
        <5> HIDE DEF n, t
        <5>5. Linked(es, d.ip, o.first, n, t)
          BY <2>4, <2>8, <5>1, <5>2, <5>4, ChainGrows
        <5> QED  BY <5>1, <5>2, <5>4, <5>5
      <4>2. /\ p \in Kept
            /\ p.first = o.first /\ p.last = sec /\ p.count = n /\ p.path = c.page
            /\ o.first \in Int
        <5>1. o \in Kept /\ c.page \in Pages /\ sec \in Int
          BY <2>3, <2>5, <4>9 DEF Kept
        <5> HIDE DEF n
        <5>2. /\ p \in Kept /\ p.first = o.first /\ o.first \in Int
              /\ p.last = sec /\ p.path = c.page /\ p.count = o.count + 1
          <6>1. p = Counted(o, c.page, sec)
            OBVIOUS
          <6> HIDE DEF p
          <6> QED  BY <5>1, <6>1, CountedIs
        <5> QED  BY <5>2 DEF n, Kept
      <4>3. observations'[a] = p
        BY <3>2, <3>6 DEF Observed
      <4>4. t[n] = Len(es) /\ n \in 1 .. n
        BY <4>1
      <4>5. blocks => n >= ConfirmCount
        BY <3>3
      <4> HIDE DEF n, t, p
      <4>6. Chain(es, a, p, t)
        <5>1. es[t[n]].sec <= p.last /\ es[t[n]].path = p.path
          BY <2>3, <2>5, <2>11, <4>2, <4>4
        <5>2. \E i \in 1 .. Len(es) : es[i].ip = a /\ es[i].sec = p.last
          BY <2>3, <2>11, <4>2
        <5> QED  BY <4>1, <4>2, <5>1, <5>2 DEF Kept, Chain, Linked
      <4>7. ASSUME blocks PROVE Confirmed(Len(decided))'
        <5>1. ConfirmCount \in Nat /\ 1 < ConfirmCount /\ ConfirmCount <= n
          BY <2>1, <4>1, <4>5, <4>7, DetectorAssumption DEF DetectorAssumption, Immediate
        <5>2. es[Len(es)].sec - o.first <= ObserveWindow
          BY <2>3, <2>11, <3>6, <4>2, DetectorAssumption DEF DetectorAssumption, Expired
        <5>3. \E u \in [1 .. ConfirmCount -> 1 .. Len(es)] :
                 /\ u[ConfirmCount] = Len(es)
                 /\ \A k \in 1 .. (ConfirmCount - 1) :
                       u[k] < u[k + 1] /\ Apart(es[u[k]], es[u[k + 1]])
                 /\ es[u[1]].sec >= es[Len(es)].sec - ObserveWindow
          BY <2>3, <4>1, <4>2, <4>4, <5>1, <5>2, ChainConfirms DEF es
        <5> QED  BY <5>3 DEF Confirmed, Independent, es
      <4> QED  BY <2>10, <4>3, <4>6, <4>7
    <3> QED  BY <3>4, <3>5, <3>6
  <2> QED  BY <2>14, <2>15
<1> QED  BY <1>1, <1>2

\* A request that is judged alone leaves every observation as it is.
LEMMA JudgeConfirmed ==
  ASSUME ConfirmedInv, NEW a \in Sources, NEW c \in Cases,
         NEW sec \in (time - MaxLate) .. time, Judge(a, c.page, sec, c)
  PROVE  ChainsHold' /\ BlockIsConfirmed'
<1>0. AnnouncedInv
  BY DEF ConfirmedInv
<1>1. PICK blocks \in BOOLEAN :
          /\ Start(a, c.page, sec, c, blocks)
          /\ blocks => Route(c) = "honeypot" \/ Immediate(c)
  BY DetectorAssumption DEF Judge, DetectorAssumption
<1> DEFINE d == decided'[Len(decided')]
<1>2. /\ Extends(decided', decided) /\ UNCHANGED observations
      /\ Newest' = {Len(decided')} /\ d.case = c /\ d.blocked = blocks
  BY <1>0, <1>1, DecisionIsAdded DEF Judge, AnnouncedInv, Extends
<1>3. d.blocked => ~NeedsConfirmation(d)
  BY <1>1, <1>2 DEF NeedsConfirmation
<1>4. BlockIsConfirmed'
  BY <1>2, <1>3 DEF BlockIsConfirmed, NeedsConfirmation
<1>5. ChainsHold'
  <2> SUFFICES ASSUME LinesAscend(decided'), NEW b \in DOMAIN observations
               PROVE  \E s : Chain(decided', b, observations[b], s)
    BY <1>2 DEF Kept, ChainsHold
  <2>1. PICK s : Chain(decided, b, observations[b], s)
    BY <1>2, ExtendsKeeps DEF ConfirmedInv, ChainsHold
  <2> QED  BY <1>2, <2>1, ChainKeeps
<1> QED  BY <1>4, <1>5

\* The other steps only forget observations.
LEMMA ForgetConfirmed ==
  ASSUME ConfirmedInv, UNCHANGED decided,
         \A a \in DOMAIN observations' :
            a \in DOMAIN observations /\ observations'[a] = observations[a]
  PROVE  ChainsHold' /\ BlockIsConfirmed'
<1>1. BlockIsConfirmed'
  BY DEF ConfirmedInv, BlockIsConfirmed, Newest, InOrderTo, Confirmed, Independent
<1>2. ChainsHold'
  BY DEF ConfirmedInv, ChainsHold
<1> QED  BY <1>1, <1>2

\* No step breaks it.
LEMMA ConfirmedStep == ConfirmedInv /\ [DetectorNext]_detectorVars => ConfirmedInv'
<1> SUFFICES ASSUME ConfirmedInv, [DetectorNext]_detectorVars
             PROVE  ChainsHold' /\ BlockIsConfirmed'
  BY DetectorStep DEF ConfirmedInv
<1>1. ASSUME NEW a \in Sources, NEW c \in Cases, NEW sec \in (time - MaxLate) .. time,
             Judge(a, c.page, sec, c) \/ Observe(a, c.page, sec, c)
      PROVE  ChainsHold' /\ BlockIsConfirmed'
  BY <1>1, JudgeConfirmed, ObserveConfirmed
<1>2. CASE \/ UNCHANGED detectorVars \/ (\E accepted \in BOOLEAN : Trigger(accepted)) \/ Tick
  <2>1. UNCHANGED <<observations, decided>>
    BY <1>2 DEF detectorVars, Trigger, Tick
  <2> QED  BY <2>1, ForgetConfirmed
<1>3. CASE Clear \/ EvictObservations
  BY <1>3, ForgetConfirmed DEF Clear, EvictObservations
<1>4. CASE Close
  <2>1. DOMAIN observations' = {} /\ UNCHANGED decided
    BY <1>4 DEF Close
  <2> QED  BY <2>1, ForgetConfirmed
<1> QED  BY <1>1, <1>2, <1>3, <1>4 DEF DetectorNext

\* While the lines of an address arrive in their order, a request without a fatal feature
\* blocks it only after ConfirmCount independent candidates within the observation window,
\* for any addresses, paths, windows and counts, however blocks are refused and observations
\* merged, evicted and forgotten.
THEOREM EveryBlockConfirmed == DetectorSpec => []BlockIsConfirmed
<1>1. DetectorInit => ConfirmedInv
  <2> SUFFICES ASSUME DetectorInit PROVE ConfirmedInv
    OBVIOUS
  <2>1. decided = <<>> /\ DOMAIN observations = {} /\ AnnouncedInv
    BY InitDetector DEF DetectorInit
  <2>2. Newest = {}
    BY <2>1 DEF Newest
  <2> QED  BY <2>1, <2>2 DEF ConfirmedInv, ChainsHold, BlockIsConfirmed
<1>2. ConfirmedInv => BlockIsConfirmed
  BY DEF ConfirmedInv
<1> QED  BY <1>1, <1>2, ConfirmedStep, PTL DEF DetectorSpec

-----------------------------------------------------------------------------
(* Persistence: who comes back often enough is blocked.                       *)

\* The candidates of address a from time w on.
Mine(ds, a, w) ==
    {i \in 1 .. Len(ds) : ds[i].ip = a /\ NeedsConfirmation(ds[i]) /\ ds[i].sec >= w}

\* Those of them that observation o may count.
Counts(ds, a, w, o) == {i \in Mine(ds, a, w) : ds[i].sec >= o.first}

\* The lines of a come in time, its candidates are apart, and nothing blocked it since w.
Calm(ds, a, w) ==
    /\ \A i \in 1 .. Len(ds) :
          ds[i].ip = a => ~ds[i].late /\ (ds[i].sec >= w => ~ds[i].blocked)
    /\ \A i, k \in Mine(ds, a, w) : i < k => ds[k].sec - ds[i].sec > MergeWindow

\* Observation o of a has followed its candidates since w: it counts all since it began,
\* and fewer than ConfirmCount came before that.
Follows(ds, a, w, o) ==
    /\ \E m \in Mine(ds, a, w) : ds[m].sec = o.last
    /\ Cardinality(Counts(ds, a, w, o)) <= o.count
    /\ Cardinality(Mine(ds, a, w)) <= Cardinality(Counts(ds, a, w, o)) + ConfirmCount - 1
    /\ o.first < w => Cardinality(Mine(ds, a, w)) <= ConfirmCount - 1
    /\ Cardinality(Mine(ds, a, w)) >= 2 => o.count <= ConfirmCount - 1

\* These sets are finite.
LEMMA MineIsFinite ==
  ASSUME NEW ds \in Seq(Decisions), NEW a, NEW w, NEW o
  PROVE  /\ IsFiniteSet(Mine(ds, a, w)) /\ Cardinality(Mine(ds, a, w)) \in Nat
         /\ IsFiniteSet(Counts(ds, a, w, o)) /\ Cardinality(Counts(ds, a, w, o)) \in Nat
<1>1. IsFiniteSet(1 .. Len(ds))
  BY FS_Interval
<1>2. Mine(ds, a, w) \in SUBSET (1 .. Len(ds)) /\ Counts(ds, a, w, o) \in SUBSET (1 .. Len(ds))
  BY DEF Mine, Counts
<1>3. IsFiniteSet(Mine(ds, a, w)) /\ IsFiniteSet(Counts(ds, a, w, o))
  BY <1>1, <1>2, FS_Subset
<1> QED  BY <1>3, FS_CardinalityType

\* One more decision is one more candidate, or none.
LEMMA MineGrows ==
  ASSUME NEW ds, NEW es, Extends(es, ds), NEW a, NEW w, NEW d, d = es[Len(es)]
  PROVE  /\ d.ip = a /\ NeedsConfirmation(d) /\ d.sec >= w
               => Mine(es, a, w) = Mine(ds, a, w) \cup {Len(es)}
         /\ ~(d.ip = a /\ NeedsConfirmation(d) /\ d.sec >= w)
               => Mine(es, a, w) = Mine(ds, a, w)
         /\ Len(es) \notin Mine(ds, a, w)
<1>1. /\ Len(ds) \in Nat /\ Len(es) = Len(ds) + 1 /\ Len(es) \notin 1 .. Len(ds)
      /\ \A i \in 1 .. Len(ds) : es[i] = ds[i]
      /\ \A i \in 1 .. Len(es) : i = Len(es) \/ i \in 1 .. Len(ds)
      /\ \A i \in 1 .. Len(ds) : i \in 1 .. Len(es)
      /\ Len(es) \in 1 .. Len(es)
  BY ExtendsKeeps DEF Extends
<1> QED  BY <1>1 DEF Mine

\* What was calm was so before the last decision.
LEMMA WasCalm ==
  ASSUME NEW ds, NEW es, Extends(es, ds), NEW a, NEW w, Calm(es, a, w)
  PROVE  Calm(ds, a, w)
<1>1. \A i \in 1 .. Len(ds) : i \in 1 .. Len(es) /\ es[i] = ds[i]
  BY ExtendsKeeps DEF Extends
<1>2. Mine(ds, a, w) \subseteq Mine(es, a, w) /\ Mine(ds, a, w) \subseteq 1 .. Len(ds)
  BY <1>1 DEF Mine
<1> QED  BY <1>1, <1>2 DEF Calm

\* A decision that is no candidate of a leaves its observation as it was.
LEMMA FollowsStill ==
  ASSUME NEW ds, NEW es, Extends(es, ds), NEW a, NEW w, NEW o, Follows(ds, a, w, o),
         Mine(es, a, w) = Mine(ds, a, w)
  PROVE  Follows(es, a, w, o)
<1>1. \A i \in Mine(ds, a, w) : es[i] = ds[i]
  BY DEF Mine, Extends
<1>2. Counts(es, a, w, o) = Counts(ds, a, w, o)
  BY <1>1 DEF Counts
<1> QED  BY <1>1, <1>2 DEF Follows

\* The first candidate since w is followed, whatever was observed before.
LEMMA FollowsFirst ==
  ASSUME NEW ds, NEW es, Extends(es, ds), NEW a, NEW w, NEW d, d = es[Len(es)],
         d.ip = a, NeedsConfirmation(d), d.sec >= w, Mine(ds, a, w) = {},
         NEW o \in Kept, o.last = d.sec, ConfirmCount \in Nat, 1 < ConfirmCount
  PROVE  Follows(es, a, w, o)
<1>1. Mine(es, a, w) = {Len(es)}
  BY MineGrows
<1>2. Cardinality(Mine(es, a, w)) = 1
  BY <1>1, FS_Singleton
<1>6. es \in Seq(Decisions)
  BY DEF Extends
<1>7. IsFiniteSet(Mine(es, a, w)) /\ Cardinality(Counts(es, a, w, o)) \in Nat
  BY <1>6, MineIsFinite
<1>8. Counts(es, a, w, o) \in SUBSET Mine(es, a, w)
  BY DEF Counts
<1>3. /\ IsFiniteSet(Mine(es, a, w)) /\ Cardinality(Counts(es, a, w, o)) \in Nat
      /\ Counts(es, a, w, o) \in SUBSET Mine(es, a, w)
  BY <1>7, <1>8
<1>4. Cardinality(Counts(es, a, w, o)) <= 1
  BY <1>2, <1>3, FS_Subset
<1>5. o.count \in Nat /\ o.count >= 1
  BY DEF Kept
<1> QED  BY <1>1, <1>2, <1>3, <1>4, <1>5 DEF Follows

\* A candidate that is apart from the others is not merged.
LEMMA ApartIsNotMerged ==
  ASSUME NEW ds, NEW es, Extends(es, ds), NEW a, NEW w, NEW d, d = es[Len(es)],
         d.ip = a, NeedsConfirmation(d), d.sec >= w, Calm(es, a, w),
         NEW o, Follows(ds, a, w, o)
  PROVE  ~Merges(o, d.path, d.sec)
<1>1. PICK m \in Mine(ds, a, w) : ds[m].sec = o.last
  BY DEF Follows
<1>2. /\ m \in Mine(es, a, w) /\ Len(es) \in Mine(es, a, w)
  BY MineGrows
<1>3. m \in 1 .. Len(ds) /\ m < Len(es) /\ es[m] = ds[m]
  BY ExtendsKeeps DEF Mine, Extends
<1>4. d.sec - o.last > MergeWindow
  BY <1>1, <1>2, <1>3 DEF Calm
<1>5. d.sec \in Int /\ o.last \in Int
  BY <1>1, <1>3, ExtendsKeeps
<1> QED  BY <1>4, <1>5, DetectorAssumption DEF Merges, DetectorAssumption

\* A candidate that is counted is followed.
LEMMA FollowsCounted ==
  ASSUME NEW ds, NEW es, Extends(es, ds), NEW a, NEW w \in Int, NEW d, d = es[Len(es)],
         d.ip = a, NeedsConfirmation(d), d.sec >= w,
         NEW o \in Kept, Follows(ds, a, w, o), o.first <= d.sec,
         NEW p \in Kept, p.first = o.first, p.last = d.sec, p.count = o.count + 1,
         ConfirmCount \in Nat, p.count <= ConfirmCount - 1
  PROVE  Follows(es, a, w, p)
<1> DEFINE M == Mine(ds, a, w)
           R == Counts(ds, a, w, o)
<1>1. Mine(es, a, w) = M \cup {Len(es)} /\ Len(es) \notin M
  BY MineGrows
<1>2. \A i \in M : es[i] = ds[i] /\ ds[i].sec \in Int /\ ds[i].sec >= w
  BY ExtendsKeeps DEF Mine, Extends
<1>3. Counts(es, a, w, p) = R \cup {Len(es)} /\ Len(es) \notin R
  BY <1>1, <1>2 DEF Counts
<1>4. /\ IsFiniteSet(M) /\ Cardinality(M) \in Nat
      /\ IsFiniteSet(R) /\ Cardinality(R) \in Nat
  BY MineIsFinite DEF Extends
<1>10. ASSUME NEW S, IsFiniteSet(S), NEW x, x \notin S
       PROVE  Cardinality(S \cup {x}) = Cardinality(S) + 1
  BY <1>10, FS_AddElement
<1>11. Cardinality(M \cup {Len(es)}) = Cardinality(M) + 1
  <2> HIDE DEF M
  <2> QED  BY <1>1, <1>4, <1>10
<1>12. Cardinality(R \cup {Len(es)}) = Cardinality(R) + 1
  <2> HIDE DEF R
  <2> QED  BY <1>3, <1>4, <1>10
<1>5. /\ Cardinality(Mine(es, a, w)) = Cardinality(M) + 1
      /\ Cardinality(Counts(es, a, w, p)) = Cardinality(R) + 1
  <2> HIDE DEF M, R
  <2> QED  BY <1>1, <1>3, <1>11, <1>12
<1>6. o.first < w => R = M
  BY <1>2 DEF Counts, Kept
<1>7. o.count \in Nat /\ o.first \in Int
  BY DEF Kept
<1>8. /\ Cardinality(R) <= o.count
      /\ Cardinality(M) <= Cardinality(R) + ConfirmCount - 1
  BY DEF Follows
<1>9. \E m \in Mine(es, a, w) : es[m].sec = p.last
  BY <1>1
<1> HIDE DEF M, R
<1> QED  BY <1>4, <1>5, <1>6, <1>7, <1>8, <1>9 DEF Follows

\* A candidate that comes when the observation has run out begins one that follows.
LEMMA FollowsAnew ==
  ASSUME NEW ds, NEW es, Extends(es, ds), NEW a, NEW w \in Int, NEW d, d = es[Len(es)],
         d.ip = a, NeedsConfirmation(d), d.sec >= w, Calm(es, a, w),
         NEW o \in Kept, Follows(ds, a, w, o), o.first < w,
         NEW p \in Kept, p.first = d.sec, p.last = d.sec, p.count = 1,
         ConfirmCount \in Nat, 1 < ConfirmCount
  PROVE  Follows(es, a, w, p)
<1> DEFINE M == Mine(ds, a, w)
<1>1. Mine(es, a, w) = M \cup {Len(es)} /\ Len(es) \notin M
  BY MineGrows
<1>2. ASSUME NEW i \in M PROVE ~(es[i].sec >= d.sec)
  <2>1. i \in 1 .. Len(ds) /\ i < Len(es) /\ i \in 1 .. Len(es) /\ i \in Mine(es, a, w)
        /\ Len(es) \in Mine(es, a, w)
    BY <1>1, ExtendsKeeps DEF Mine
  <2>2. d.sec - es[i].sec > MergeWindow
    BY <2>1 DEF Calm
  <2>3. d.sec \in Int /\ es[i].sec \in Int
    BY <2>1, ExtendsKeeps
  <2> QED  BY <2>2, <2>3, DetectorAssumption DEF DetectorAssumption
<1>3. d.sec \in Int
  BY ExtendsKeeps
<1>4. Counts(es, a, w, p) = {Len(es)}
  BY <1>1, <1>2, <1>3 DEF Counts
<1>5. IsFiniteSet(M) /\ Cardinality(M) \in Nat /\ Cardinality(M) <= ConfirmCount - 1
  BY MineIsFinite DEF Extends, Follows
<1>8. Cardinality(M \cup {Len(es)}) = Cardinality(M) + 1
  <2> HIDE DEF M
  <2> QED  BY <1>1, <1>5, FS_AddElement
<1>6. /\ Cardinality(Mine(es, a, w)) = Cardinality(M) + 1
      /\ Cardinality(Counts(es, a, w, p)) = 1
  <2> HIDE DEF M
  <2> QED  BY <1>1, <1>4, <1>8, FS_Singleton
<1>7. \E m \in Mine(es, a, w) : es[m].sec = p.last
  BY <1>1
<1> HIDE DEF M
<1> QED  BY <1>3, <1>5, <1>6, <1>7 DEF Follows

\* An observation that follows has not seen 2 * ConfirmCount - 1 candidates.
LEMMA FollowsFew ==
  ASSUME NEW ds \in Seq(Decisions), NEW a, NEW w, NEW o \in Kept, Follows(ds, a, w, o),
         ConfirmCount \in Nat, 1 < ConfirmCount
  PROVE  Cardinality(Mine(ds, a, w)) < 2 * ConfirmCount - 1
<1>1. Cardinality(Mine(ds, a, w)) \in Nat /\ Cardinality(Counts(ds, a, w, o)) \in Nat
  BY MineIsFinite
<1>2. o.count \in Nat
  BY DEF Kept
<1> QED  BY <1>1, <1>2 DEF Follows

\* The next candidate is followed: by what it is counted in, or by what it begins.
LEMMA FollowsNext ==
  ASSUME NEW ds, NEW es, Extends(es, ds), NEW a, NEW w \in Int, NEW d, d = es[Len(es)],
         d.ip = a, NeedsConfirmation(d), d.sec >= w, d.sec - ObserveWindow <= w,
         Calm(es, a, w), NEW o \in Kept, Follows(ds, a, w, o), o.first <= d.sec,
         ~Expired(o, d.sec) => o.count + 1 < ConfirmCount,
         NEW p, p = Observed(o, d.path, d.sec), ConfirmCount \in Nat, 1 < ConfirmCount
  PROVE  Follows(es, a, w, p)
<1>1. d.sec \in Int /\ d.path \in Pages /\ o.first \in Int /\ o.count \in Nat
  BY ExtendsKeeps DEF Decisions, Kept
<1>2. ~Merges(o, d.path, d.sec)
  BY ApartIsNotMerged
<1>3. CASE Expired(o, d.sec)
  <2>1. p = Observation(d.path, d.sec)
    BY <1>2, <1>3 DEF Observed
  <2>2. p \in Kept /\ p.first = d.sec /\ p.last = d.sec /\ p.count = 1
    BY <1>1, <2>1 DEF Observation, Kept
  <2>3. o.first < w
    BY <1>1, <1>3, DetectorAssumption DEF Expired, DetectorAssumption
  <2> QED  BY <2>2, <2>3, FollowsAnew
<1>4. CASE ~Expired(o, d.sec)
  <2>1. p = Counted(o, d.path, d.sec)
    BY <1>2, <1>4 DEF Observed
  <2>2. /\ p \in Kept /\ p.first = o.first /\ p.last = d.sec /\ p.count = o.count + 1
    BY <1>1, <2>1, CountedIs
  <2>3. p.count <= ConfirmCount - 1
    BY <1>1, <1>4, <2>2
  <2> QED  BY <2>2, <2>3, FollowsCounted
<1> QED  BY <1>3, <1>4

\* What is observed of an address is an observation, and it has seen the last candidate.
LEMMA ObservedIs ==
  ASSUME NEW o \in Kept, NEW path \in Pages, NEW sec \in Int,
         NEW p, p = Observed(o, path, sec) \/ p = Observation(path, sec)
  PROVE  p \in Kept /\ p.last = sec
<1>1. CASE p = [o EXCEPT !.last = sec]
  BY <1>1 DEF Kept
<1>2. CASE p = Observation(path, sec)
  BY <1>2 DEF Kept, Observation
<1>3. CASE p = Counted(o, path, sec)
  BY <1>3, CountedIs
<1> QED  BY <1>1, <1>2, <1>3 DEF Observed

\* Nothing decided is of the future, and only a late line is older than one before it.
Timely(ds, now) ==
    \A i \in 1 .. Len(ds) :
        /\ ds[i].sec <= now
        /\ \A k \in 1 .. Len(ds) : i < k => ds[k].late \/ ds[i].sec <= ds[k].sec

\* What the event loop carries out is the block it decided last.
Processed ==
    \/ processing = Free
    \/ /\ Len(decided) \in 1 .. Len(decided) /\ decided[Len(decided)].blocked
       /\ \E step, honeypot : processing = [step |-> step, ip |-> decided[Len(decided)].ip,
                                            honeypot |-> honeypot]

\* The observation of every calm address with candidates since w follows them.
Followed(ds, seen, now) ==
    \A a \in Sources, w \in Int :
        w >= now - ObserveWindow /\ Calm(ds, a, w) /\ Mine(ds, a, w) # {} =>
            a \in DOMAIN seen /\ Follows(ds, a, w, seen[a])

PersistInv ==
    /\ AnnouncedInv
    /\ \A a \in DOMAIN observations : observations[a] \in Kept
    /\ Timely(decided, time)
    /\ Processed
    /\ ~ReportOnly /\ ~closed => Followed(decided, observations, time)
    /\ PersistentIsBlocked

\* A decision that comes in time is the latest.
LEMMA TimelyGrows ==
  ASSUME NEW ds, NEW es, Extends(es, ds), NEW now \in Int, Timely(ds, now),
         NEW d, d = es[Len(es)], d.sec <= now, d.late = (d.sec < now)
  PROVE  Timely(es, now)
<1>1. /\ Len(ds) \in Nat /\ Len(es) = Len(ds) + 1 /\ d.sec \in Int
      /\ \A i \in 1 .. Len(ds) : es[i] = ds[i] /\ ds[i].sec \in Int
  BY ExtendsKeeps DEF Extends
<1>2. \A i \in 1 .. Len(es) : i = Len(es) \/ (i \in 1 .. Len(ds) /\ i < Len(es))
  BY <1>1
<1>3. \A i, k \in 1 .. Len(es) : i < k => i \in 1 .. Len(ds)
  BY <1>1
<1>4. ASSUME NEW i \in 1 .. Len(es) PROVE es[i].sec <= now
  BY <1>1, <1>2 DEF Timely
<1>5. ASSUME NEW i \in 1 .. Len(es), NEW k \in 1 .. Len(es), i < k
      PROVE  es[k].late \/ es[i].sec <= es[k].sec
  <2>1. i \in 1 .. Len(ds) /\ es[i] = ds[i] /\ ds[i].sec <= now
    BY <1>1, <1>3, <1>5 DEF Timely
  <2>2. CASE k = Len(es)
    <3>1. d.sec < now => d.late
      OBVIOUS
    <3>2. ~(d.sec < now) => d.sec = now
      BY <1>1
    <3> QED  BY <2>1, <2>2, <3>1, <3>2
  <2>3. CASE k \in 1 .. Len(ds)
    BY <1>1, <1>5, <2>1, <2>3 DEF Timely
  <2> QED  BY <1>2, <2>2, <2>3
<1> QED  BY <1>4, <1>5 DEF Timely

\* A decision that is no candidate leaves what is followed as it is.
LEMMA FollowedStill ==
  ASSUME NEW ds, NEW es, Extends(es, ds), NEW seen, NEW now, Followed(ds, seen, now),
         ~NeedsConfirmation(es[Len(es)])
  PROVE  Followed(es, seen, now)
<1> SUFFICES ASSUME NEW a \in Sources, NEW w \in Int, w >= now - ObserveWindow,
                    Calm(es, a, w), Mine(es, a, w) # {}
             PROVE  a \in DOMAIN seen /\ Follows(es, a, w, seen[a])
  BY DEF Followed
<1>1. Mine(es, a, w) = Mine(ds, a, w)
  BY MineGrows
<1>2. Calm(ds, a, w)
  BY WasCalm
<1> QED  BY <1>1, <1>2, FollowsStill DEF Followed

\* When nobody blocked the address of the last candidate, an observation that follows shows
\* that it did not come often enough.
LEMMA FollowedIsFew ==
  ASSUME NEW ds \in Seq(Decisions), NEW seen, NEW now \in Int, Followed(ds, seen, now),
         \A a \in DOMAIN seen : seen[a] \in Kept,
         NEW d \in Decisions, Len(ds) \in 1 .. Len(ds), d = ds[Len(ds)],
         NeedsConfirmation(d), d.sec = now, NEW w, w = d.sec - ObserveWindow,
         Calm(ds, d.ip, w), ConfirmCount \in Nat, 1 < ConfirmCount
  PROVE  Cardinality(Mine(ds, d.ip, w)) < 2 * ConfirmCount - 1
<1>1. d.ip \in Sources /\ d.sec \in Int /\ w \in Int /\ d.sec >= w
  BY DetectorAssumption DEF Decisions, DetectorAssumption
<1>2. Len(ds) \in Mine(ds, d.ip, w)
  BY <1>1 DEF Mine
<1>3. d.ip \in DOMAIN seen /\ Follows(ds, d.ip, w, seen[d.ip])
  BY <1>1, <1>2 DEF Followed
<1> QED  BY <1>3, FollowsFew

\* A request that needs confirmation is followed by its observation, and so blocks its
\* address in time.
LEMMA ObservePersists ==
  ASSUME PersistInv, NEW a \in Sources, NEW c \in Cases,
         NEW sec \in (time - MaxLate) .. time, Observe(a, c.page, sec, c), ~closed
  PROVE  PersistInv'
<1> DEFINE blocks == Confirms(a, c.page, sec)
           es == decided'
           d == decided'[Len(decided')]
<1>1. /\ Start(a, c.page, sec, c, blocks) /\ UNCHANGED <<time, closed>>
      /\ Route(c) = "scored" /\ Score(c) >= High /\ ~Immediate(c) /\ ~ReportOnly
      /\ observations' =
            [b \in DOMAIN observations \cup {a} |->
                IF b # a THEN observations[b]
                ELSE IF a \in DOMAIN observations
                     THEN Observed(observations[a], c.page, sec)
                     ELSE Observation(c.page, sec)]
  BY DEF Observe
<1>2. blocks \in BOOLEAN
  BY DEF Confirms
<1>3. AnnouncedInv /\ AnnouncedInv'
  BY ObserveStep DEF PersistInv
<1>4. /\ Extends(es, decided) /\ sec \in Int /\ Newest' = {Len(es)}
      /\ d.ip = a /\ d.sec = sec /\ d.case = c /\ d.blocked = blocks /\ d.path = c.page
      /\ d.late = (sec < time)
  BY <1>1, <1>2, <1>3, DecisionIsAdded DEF Extends, AnnouncedInv
<1>5. NeedsConfirmation(d) /\ ConfirmCount \in Nat /\ 1 < ConfirmCount
  BY <1>1, <1>4, DetectorAssumption DEF NeedsConfirmation, Immediate, DetectorAssumption
<1>6. time \in Int /\ sec <= time /\ c.page \in Pages
  BY <1>3, <1>4 DEF AnnouncedInv, Pages
<1> HIDE DEF d, es, blocks
<1>15. ~d.late => d.sec = time
  <2>1. sec < time => d.late
    BY <1>4
  <2> QED  BY <1>4, <1>6, <2>1
<1>7. /\ d = es[Len(es)] /\ Len(es) \in 1 .. Len(es) /\ es \in Seq(Decisions) /\ d \in Decisions
      /\ \A i \in 1 .. Len(es) : es[i].sec \in Int
      /\ \A i \in 1 .. Len(decided) : decided[i].sec \in Int
  BY <1>4, ExtendsKeeps DEF d, es, Extends
<1>8. /\ \A b \in DOMAIN observations : observations[b] \in Kept
      /\ Timely(decided, time) /\ (~ReportOnly /\ ~closed => Followed(decided, observations, time))
  BY DEF PersistInv
<1>9. /\ observations'[a] \in Kept /\ observations'[a].last = sec
      /\ a \in DOMAIN observations'
      /\ \A b \in DOMAIN observations' : b = a \/ b \in DOMAIN observations
      /\ \A b \in DOMAIN observations :
            b \in DOMAIN observations' /\ (b # a => observations'[b] = observations[b])
  <2>1. /\ a \in DOMAIN observations'
        /\ \A b \in DOMAIN observations' : b = a \/ b \in DOMAIN observations
        /\ \A b \in DOMAIN observations :
              b \in DOMAIN observations' /\ (b # a => observations'[b] = observations[b])
    BY <1>1
  <2>2. CASE a \in DOMAIN observations
    <3>1. observations'[a] = Observed(observations[a], c.page, sec)
      BY <1>1, <2>2
    <3> QED  BY <1>4, <1>6, <1>8, <2>1, <2>2, <3>1, ObservedIs
  <2>3. CASE a \notin DOMAIN observations
    <3>1. observations'[a] = Observation(c.page, sec)
      BY <1>1, <2>3
    <3> QED  BY <1>4, <1>6, <2>1, <3>1 DEF Observation, Kept
  <2> QED  BY <2>1, <2>2, <2>3
<1>10. \A b \in DOMAIN observations' : observations'[b] \in Kept
  BY <1>8, <1>9
<1>11. Timely(es, time)
  BY <1>4, <1>6, <1>7, <1>8, TimelyGrows
<1>12. Processed'
  <2>1. processing' = IF blocks THEN [step |-> "trigger", ip |-> a, honeypot |-> c.honeypot]
                      ELSE Free
    BY <1>1 DEF Start
  <2> QED  BY <1>4, <1>7, <2>1 DEF Processed, es, d
<1>13. Followed(es, observations', time)
  <2> SUFFICES ASSUME NEW b \in Sources, NEW w \in Int, w >= time - ObserveWindow,
                      Calm(es, b, w), Mine(es, b, w) # {}
               PROVE  b \in DOMAIN observations' /\ Follows(es, b, w, observations'[b])
    BY DEF Followed
  <2>1. Calm(decided, b, w)
    BY <1>4, WasCalm
  <2>2. CASE b # a
    <3>1. Mine(es, b, w) = Mine(decided, b, w)
      BY <1>4, <1>7, <2>2, MineGrows
    <3>2. b \in DOMAIN observations /\ Follows(decided, b, w, observations[b])
      BY <1>1, <1>8, <2>1, <3>1 DEF Followed
    <3> QED  BY <1>4, <1>9, <2>2, <3>1, <3>2, FollowsStill
  <2>3. CASE b = a
    <3>1. sec = time
      <4>1. ~d.late
        BY <1>4, <1>7, <2>3 DEF Calm
      <4> QED  BY <1>4, <1>15, <4>1
    <3>2. sec >= w
      <4>1. PICK i \in Mine(es, b, w) : TRUE
        OBVIOUS
      <4>2. i \in 1 .. Len(es) /\ es[i].sec >= w /\ es[i].sec <= time
        BY <1>11, <4>1 DEF Mine, Timely
      <4> QED  BY <1>4, <1>6, <1>7, <3>1, <4>2
    <3>3. CASE Mine(decided, a, w) = {}
      <4>1. Follows(es, a, w, observations'[a])
        <5> DEFINE p == observations'[a]
        <5>1. p \in Kept /\ p.last = d.sec /\ d.sec >= w
          BY <1>4, <1>9, <3>2
        <5> HIDE DEF p
        <5>2. /\ Extends(es, decided) /\ d = es[Len(es)]
              /\ d.ip = a /\ NeedsConfirmation(d) /\ Mine(decided, a, w) = {}
              /\ ConfirmCount \in Nat /\ 1 < ConfirmCount
          BY <1>4, <1>5, <1>7, <3>3
        <5>3. Follows(es, a, w, p)
          BY ONLY <5>1, <5>2, FollowsFirst
        <5> QED  BY <5>3 DEF p
      <4> QED  BY <1>9, <2>3, <4>1
    <3>4. CASE Mine(decided, a, w) # {}
      <4> DEFINE o == observations[a]
      <4>1. a \in DOMAIN observations /\ Follows(decided, a, w, o)
        BY <1>1, <1>8, <2>1, <2>3, <3>4 DEF Followed
      <4>2. observations'[a] = Observed(o, d.path, d.sec)
        BY <1>1, <1>4, <4>1
      <4>3. ~blocks
        BY <1>4, <1>7, <2>3, <3>2 DEF Calm
      <4>4. o \in Kept /\ o.first \in Int /\ o.count \in Nat
        BY <1>8, <4>1 DEF Kept
      <4>5. o.first <= d.sec
        <5>1. PICK i \in 1 .. Len(decided) : decided[i].sec = o.first
          BY <1>3, <4>1 DEF AnnouncedInv, Began
        <5> QED  BY <1>4, <1>8, <3>1, <5>1 DEF Timely
      <4>6. ~Expired(o, d.sec) => o.count + 1 < ConfirmCount
        <5>1. SUFFICES ASSUME ~Expired(o, d.sec), ~(o.count + 1 < ConfirmCount) PROVE FALSE
          OBVIOUS
        <5>4. /\ Extends(es, decided) /\ d = es[Len(es)] /\ d.ip = a /\ NeedsConfirmation(d)
              /\ d.sec >= w /\ Calm(es, a, w) /\ Follows(decided, a, w, o)
          BY <1>4, <1>5, <1>7, <2>3, <3>2, <4>1
        <5>2. ~Merges(o, d.path, d.sec)
          BY ONLY <5>4, ApartIsNotMerged
        <5>3. o.count + 1 >= ConfirmCount
          BY <1>5, <4>4, <5>1
        <5> QED  BY <1>4, <4>1, <4>3, <5>1, <5>2, <5>3 DEF blocks, Confirms
      <4>7. d.sec - ObserveWindow <= w
        BY <1>4, <1>6, <3>1
      <4>8. d.ip = a /\ d.sec >= w /\ Calm(es, a, w)
        BY <1>4, <2>3, <3>2
      <4> HIDE DEF o
      <4>9. Follows(es, a, w, observations'[a])
        <5> DEFINE p == observations'[a]
        <5>1. p = Observed(o, d.path, d.sec)
          BY <4>2
        <5> HIDE DEF p
        <5>2. /\ Extends(es, decided) /\ d = es[Len(es)]
              /\ d.ip = a /\ NeedsConfirmation(d) /\ d.sec >= w
              /\ d.sec - ObserveWindow <= w /\ Calm(es, a, w)
              /\ o \in Kept /\ Follows(decided, a, w, o) /\ o.first <= d.sec
              /\ ConfirmCount \in Nat /\ 1 < ConfirmCount
          BY <1>4, <1>5, <1>7, <4>1, <4>4, <4>5, <4>7, <4>8
        <5>3. Follows(es, a, w, p)
          BY ONLY w \in Int, <4>6, <5>1, <5>2, FollowsNext
        <5> QED  BY <5>3 DEF p
      <4> QED  BY <1>9, <2>3, <4>9
    <3> QED  BY <3>3, <3>4
  <2> QED  BY <2>2, <2>3
<1>14. PersistentIsBlocked'
  <2> DEFINE w == d.sec - ObserveWindow
  <2>1. SUFFICES ASSUME Persistent(Len(decided))',
                        \A i \in 1 .. Len(es) :
                           ~(es[i].ip = d.ip /\ es[i].blocked /\ es[i].sec >= w)
                 PROVE  FALSE
    BY <1>4 DEF PersistentIsBlocked, es, d
  <2> HIDE DEF w
  <2>2. /\ \A i \in 1 .. Len(es) : es[i].ip = d.ip => ~es[i].late
        /\ \A i, k \in Mine(es, d.ip, w) : i < k => es[k].sec - es[i].sec > MergeWindow
        /\ Cardinality(Mine(es, d.ip, w)) >= 2 * ConfirmCount - 1
    <3>1. Mine(es, d.ip, w) =
             {i \in 1 .. Len(es) : es[i].ip = es[Len(es)].ip /\ NeedsConfirmation(es[i])
                                     /\ es[i].sec >= es[Len(es)].sec - ObserveWindow}
      BY <1>7 DEF Mine, w
    <3> QED  BY <2>1, <3>1 DEF Persistent, NeedsConfirmation, es, d
  <2>3. Calm(es, d.ip, w)
    BY <2>1, <2>2 DEF Calm
  <2>4. d.sec = time
    BY <1>7, <1>15, <2>2
  <2>5. Cardinality(Mine(es, d.ip, w)) < 2 * ConfirmCount - 1
    BY <1>5, <1>6, <1>7, <1>10, <1>13, <2>3, <2>4, FollowedIsFew DEF w
  <2>6. Cardinality(Mine(es, d.ip, w)) \in Nat
    BY <1>7, MineIsFinite
  <2> QED  BY <1>5, <2>2, <2>5, <2>6
<1> QED  BY <1>1, <1>3, <1>10, <1>11, <1>12, <1>13, <1>14 DEF PersistInv, es

\* A request that is judged alone is no candidate.
LEMMA JudgePersists ==
  ASSUME PersistInv, NEW a \in Sources, NEW c \in Cases,
         NEW sec \in (time - MaxLate) .. time, Judge(a, c.page, sec, c)
  PROVE  PersistInv'
<1> DEFINE es == decided'
           d == decided'[Len(decided')]
<1>1. PICK blocks \in BOOLEAN :
          /\ Start(a, c.page, sec, c, blocks)
          /\ ~ReportOnly => Route(c) = "honeypot" \/ Immediate(c)
  BY DetectorAssumption DEF Judge, DetectorAssumption
<1>2. UNCHANGED <<observations, closed, time>>
  BY DEF Judge
<1>3. AnnouncedInv /\ AnnouncedInv'
  BY JudgeStep DEF PersistInv
<1>4. /\ Extends(es, decided) /\ sec \in Int /\ Newest' = {Len(es)}
      /\ d.ip = a /\ d.sec = sec /\ d.case = c /\ d.blocked = blocks
      /\ d.late = (sec < time)
  BY <1>1, <1>3, DecisionIsAdded DEF Extends, AnnouncedInv
<1>5. ~ReportOnly => ~NeedsConfirmation(d)
  BY <1>1, <1>4 DEF NeedsConfirmation
<1>6. time \in Int /\ sec <= time
  BY <1>3, <1>4 DEF AnnouncedInv
<1> HIDE DEF d, es
<1>7. d = es[Len(es)] /\ Len(es) \in 1 .. Len(es)
  BY <1>4, ExtendsKeeps DEF d, es, Extends
<1>8. /\ \A b \in DOMAIN observations : observations[b] \in Kept
      /\ Timely(decided, time) /\ (~ReportOnly /\ ~closed => Followed(decided, observations, time))
  BY DEF PersistInv
<1>9. Timely(es, time)
  BY <1>4, <1>6, <1>7, <1>8, TimelyGrows
<1>10. Processed'
  <2>1. processing' = IF blocks THEN [step |-> "trigger", ip |-> a, honeypot |-> c.honeypot]
                      ELSE Free
    BY <1>1 DEF Start
  <2> QED  BY <1>4, <1>7, <2>1 DEF Processed, es, d
<1>11. ~ReportOnly /\ ~closed => Followed(es, observations, time)
  BY <1>4, <1>5, <1>7, <1>8, FollowedStill
<1>12. PersistentIsBlocked'
  BY <1>4, <1>5 DEF PersistentIsBlocked, Persistent, NeedsConfirmation, es, d
<1> QED  BY <1>2, <1>3, <1>8, <1>9, <1>10, <1>11, <1>12 DEF PersistInv, es

\* Who is cleared was blocked last, and has no candidates since.
LEMMA ClearPersists ==
  ASSUME AnnouncedInv, Timely(decided, time), Processed, Clear,
         Followed(decided, observations, time)
  PROVE  Followed(decided, observations', time)
<1> DEFINE d == decided[Len(decided)]
<1>1. /\ Len(decided) \in 1 .. Len(decided) /\ d.blocked /\ processing.ip = d.ip
  BY DEF Clear, Processed, Free
<1>2. \A i \in 1 .. Len(decided) : decided[i] \in Decisions
  BY ElementOfSeq DEF AnnouncedInv
<1>3. \A i \in 1 .. Len(decided) : decided[i].sec \in Int /\ i <= Len(decided)
  BY <1>2 DEF Decisions, AnnouncedInv
<1> SUFFICES ASSUME NEW a \in Sources, NEW w \in Int, w >= time - ObserveWindow,
                    Calm(decided, a, w), Mine(decided, a, w) # {}
             PROVE  a \in DOMAIN observations' /\ Follows(decided, a, w, observations'[a])
  BY DEF Followed
<1>4. a \in DOMAIN observations /\ Follows(decided, a, w, observations[a])
  BY DEF Followed
<1>5. a # d.ip
  <2>1. SUFFICES ASSUME a = d.ip PROVE FALSE
    OBVIOUS
  <2>2. PICK i \in Mine(decided, a, w) : TRUE
    OBVIOUS
  <2>3. i \in 1 .. Len(decided) /\ decided[i].sec >= w
    BY <2>2 DEF Mine
  <2>4. ~d.late /\ ~(d.sec >= w)
    BY <1>1, <2>1 DEF Calm
  <2>5. decided[i].sec <= d.sec
    <3>1. i < Len(decided) \/ i = Len(decided)
      BY <1>1, <2>3
    <3> QED  BY <1>1, <1>3, <2>3, <2>4, <3>1 DEF Timely
  <2> QED  BY <1>1, <1>3, <2>3, <2>4, <2>5
<1>6. a \in DOMAIN observations' /\ observations'[a] = observations[a]
  BY <1>1, <1>4, <1>5 DEF Clear
<1> QED  BY <1>4, <1>6

\* An observation that follows is not stale.
LEMMA EvictPersists ==
  ASSUME AnnouncedInv, EvictObservations, Followed(decided, observations, time)
  PROVE  Followed(decided, observations', time)
<1> SUFFICES ASSUME NEW a \in Sources, NEW w \in Int, w >= time - ObserveWindow,
                    Calm(decided, a, w), Mine(decided, a, w) # {}
             PROVE  a \in DOMAIN observations' /\ Follows(decided, a, w, observations'[a])
  BY DEF Followed
<1>1. a \in DOMAIN observations /\ Follows(decided, a, w, observations[a])
  BY DEF Followed
<1>2. PICK m \in Mine(decided, a, w) : decided[m].sec = observations[a].last
  BY <1>1 DEF Follows
<1>3. m \in 1 .. Len(decided) /\ decided[m].sec >= w
  BY <1>2 DEF Mine
<1>7. decided[m] \in Decisions
  BY <1>3, ElementOfSeq DEF AnnouncedInv
<1>4. decided[m].sec \in Int /\ time \in Int
  BY <1>7 DEF AnnouncedInv, Decisions
<1>5. a \notin Stale
  BY <1>2, <1>3, <1>4, DetectorAssumption DEF Stale, DetectorAssumption
<1>6. a \in DOMAIN observations' /\ observations'[a] = observations[a]
  BY <1>1, <1>5 DEF EvictObservations
<1> QED  BY <1>1, <1>6

\* The other steps decide nothing.
LEMMA ForgetPersists ==
  ASSUME PersistInv, UNCHANGED decided, time' \in Nat, time <= time', Processed',
         \A a \in DOMAIN observations' :
            a \in DOMAIN observations /\ observations'[a] = observations[a],
         ~ReportOnly /\ ~closed' => Followed(decided, observations', time')
  PROVE  PersistInv'
<1>1. AnnouncedInv'
  BY ForgetStep DEF PersistInv
<1>2. \A i \in 1 .. Len(decided) : decided[i] \in Decisions
  BY ElementOfSeq DEF AnnouncedInv, PersistInv
<1>3. time \in Nat /\ \A i \in 1 .. Len(decided) : decided[i].sec \in Int
  BY <1>2 DEF Decisions, AnnouncedInv, PersistInv
<1>4. Timely(decided, time')
  BY <1>3 DEF PersistInv, Timely
<1>5. PersistentIsBlocked'
  BY DEF PersistInv, PersistentIsBlocked, Persistent, Newest, NeedsConfirmation
<1>6. \A a \in DOMAIN observations' : observations'[a] \in Kept
  BY DEF PersistInv
<1> QED  BY <1>1, <1>4, <1>5, <1>6 DEF PersistInv

\* No step breaks it.
LEMMA PersistStep == PersistInv /\ [DetectorNext]_detectorVars => PersistInv'
<1> SUFFICES ASSUME PersistInv, [DetectorNext]_detectorVars PROVE PersistInv'
  OBVIOUS
<1>1. /\ AnnouncedInv /\ Timely(decided, time) /\ Processed /\ time \in Nat
      /\ ~ReportOnly /\ ~closed => Followed(decided, observations, time)
  BY DEF PersistInv, AnnouncedInv
<1>2. ASSUME NEW a \in Sources, NEW c \in Cases, NEW sec \in (time - MaxLate) .. time,
             Judge(a, c.page, sec, c) \/ Observe(a, c.page, sec, c)
      PROVE  PersistInv'
  <2>1. CASE Observe(a, c.page, sec, c) /\ closed
    <3>1. UNCHANGED <<observations, processing, closed, time, decided>>
      BY <2>1 DEF Observe
    <3>2. Processed'
      BY <1>1, <3>1 DEF Processed
    <3> QED  BY <1>1, <3>1, <3>2, ForgetPersists
  <2> QED  BY <1>2, <2>1, JudgePersists, ObservePersists
<1>3. CASE UNCHANGED detectorVars
  <2>1. UNCHANGED <<observations, processing, closed, time, decided>>
    BY <1>3 DEF detectorVars
  <2>2. Processed'
    BY <1>1, <2>1 DEF Processed
  <2> QED  BY <1>1, <2>1, <2>2, ForgetPersists
<1>4. ASSUME NEW accepted \in BOOLEAN, Trigger(accepted) PROVE PersistInv'
  <2>1. UNCHANGED <<observations, closed, time, decided>>
    BY <1>4 DEF Trigger
  <2>2. Processed'
    <3>1. CASE processing' = Free
      BY <3>1 DEF Processed
    <3>2. CASE processing' = [processing EXCEPT !.step = "clear"]
      <4>1. processing # Free
        BY <1>4 DEF Trigger, Free
      <4>2. PICK step, honeypot :
               processing = [step |-> step, ip |-> decided[Len(decided)].ip,
                             honeypot |-> honeypot]
        BY <1>1, <4>1 DEF Processed
      <4>3. processing' = [step |-> "clear", ip |-> decided[Len(decided)].ip,
                           honeypot |-> honeypot]
        BY <3>2, <4>2
      <4> QED  BY <1>1, <2>1, <4>1, <4>3 DEF Processed
    <3> QED  BY <1>4, <3>1, <3>2 DEF Trigger
  <2> QED  BY <1>1, <2>1, <2>2, ForgetPersists
<1>5. CASE Clear
  <2>1. /\ UNCHANGED <<closed, time, decided>> /\ processing' = Free
        /\ \A a \in DOMAIN observations' :
              a \in DOMAIN observations /\ observations'[a] = observations[a]
    BY <1>5 DEF Clear
  <2>2. Processed'
    BY <2>1 DEF Processed
  <2>3. ~ReportOnly /\ ~closed' => Followed(decided, observations', time')
    BY <1>1, <1>5, <2>1, ClearPersists
  <2> QED  BY <1>1, <2>1, <2>2, <2>3, ForgetPersists
<1>6. CASE EvictObservations
  <2>1. /\ UNCHANGED <<closed, time, decided, processing>>
        /\ \A a \in DOMAIN observations' :
              a \in DOMAIN observations /\ observations'[a] = observations[a]
    BY <1>6 DEF EvictObservations
  <2>2. Processed'
    BY <1>1, <2>1 DEF Processed
  <2>3. ~ReportOnly /\ ~closed' => Followed(decided, observations', time')
    BY <1>1, <1>6, <2>1, EvictPersists
  <2> QED  BY <1>1, <2>1, <2>2, <2>3, ForgetPersists
<1>7. CASE Close
  <2>1. /\ UNCHANGED <<time, decided, processing>> /\ closed' /\ DOMAIN observations' = {}
    BY <1>7 DEF Close
  <2>2. Processed'
    BY <1>1, <2>1 DEF Processed
  <2> QED  BY <1>1, <2>1, <2>2, ForgetPersists
<1>8. CASE Tick
  <2>1. /\ UNCHANGED <<observations, closed, decided, processing>> /\ time' = time + 1
    BY <1>8 DEF Tick
  <2>2. Processed'
    BY <1>1, <2>1 DEF Processed
  <2>3. ~ReportOnly /\ ~closed' => Followed(decided, observations', time')
    <3>1. \A w \in Int : w >= time' - ObserveWindow => w >= time - ObserveWindow
      BY <1>1, <2>1, DetectorAssumption DEF DetectorAssumption
    <3> QED  BY <1>1, <2>1, <3>1 DEF Followed
  <2> QED  BY <1>1, <2>1, <2>2, <2>3, ForgetPersists
<1> QED  BY <1>2, <1>3, <1>4, <1>5, <1>6, <1>7, <1>8 DEF DetectorNext

\* Whoever comes back often enough within one observation window is blocked, for any
\* addresses, windows and counts, however blocks are refused, observations merged, evicted
\* and forgotten, and whatever other addresses and requests come between.
THEOREM PersistentAreBlocked == DetectorSpec => []PersistentIsBlocked
<1>1. DetectorInit => PersistInv
  <2> SUFFICES ASSUME DetectorInit PROVE PersistInv
    OBVIOUS
  <2>1. decided = <<>> /\ DOMAIN observations = {} /\ AnnouncedInv /\ processing = Free
    BY InitDetector DEF DetectorInit
  <2>2. Newest = {} /\ Len(decided) = 0 /\ (1 .. 0) = {}
    BY <2>1 DEF Newest
  <2>3. Timely(decided, time)
    BY <2>2 DEF Timely
  <2>4. \A a, w : Mine(decided, a, w) = {}
    BY <2>2 DEF Mine
  <2> QED  BY <2>1, <2>2, <2>3, <2>4 DEF PersistInv, PersistentIsBlocked, Processed, Followed
<1>2. PersistInv => PersistentIsBlocked
  BY DEF PersistInv
<1> QED  BY <1>1, <1>2, PersistStep, PTL DEF DetectorSpec
-----------------------------------------------------------------------------
(* The scores: an attack never lowers one, and neither speed alone nor a browser's user *)
(* makes one high. *)

\* Division keeps the order.
LEMMA DivKeepsOrder ==
    ASSUME NEW k \in Nat \ {0}, NEW a \in Nat, NEW b \in Nat, a <= b
    PROVE  a \div k \in Nat /\ b \div k \in Nat /\ a \div k <= b \div k
PROOF
<1> DEFINE p == a \div k
           q == b \div k
<1>1. p \in Int /\ q \in Int
  OBVIOUS
<1>2. k * p <= a /\ b < k * q + k /\ a < k * p + k
  OBVIOUS
<1>3. CASE p >= q + 1
  <2>1. k * p >= k * (q + 1)
    BY <1>1, <1>3
  <2>2. k * (q + 1) = k * q + k
    BY <1>1
  <2> HIDE DEF p, q
  <2> QED BY <1>1, <1>2, <2>1, <2>2
<1>4. p >= 0 /\ q >= 0
  <2>1. p >= 0
    <3> SUFFICES ASSUME p <= 0 - 1 PROVE FALSE
      BY <1>1
    <3>1. k * p <= k * (0 - 1)
      BY <1>1
    <3>2. k * (0 - 1) = 0 - k
      OBVIOUS
    <3> HIDE DEF p, q
    <3> QED BY <1>1, <1>2, <3>1, <3>2
  <2>2. q >= 0
    <3> SUFFICES ASSUME q <= 0 - 1 PROVE FALSE
      BY <1>1
    <3>1. k * q <= k * (0 - 1)
      BY <1>1
    <3>2. k * (0 - 1) = 0 - k
      OBVIOUS
    <3> HIDE DEF p, q
    <3> QED BY <1>1, <1>2, <3>1, <3>2
  <2> QED BY <2>1, <2>2
<1>5. p <= q
  BY <1>1, <1>3
<1> QED BY <1>1, <1>4, <1>5

LEMMA TimesKeepsOrder ==
    ASSUME NEW k \in Nat, NEW a \in Nat, NEW b \in Nat, a <= b
    PROVE  a * k \in Nat /\ b * k \in Nat /\ a * k <= b * k
PROOF OBVIOUS

\* A sum grows with its parts.
LEMMA TotalKeepsOrder ==
    ASSUME NEW S, IsFiniteSet(S), NEW f, NEW g,
           \A x \in S : f[x] \in Nat /\ g[x] \in Nat /\ f[x] <= g[x]
    PROVE  Total(f, S) \in Nat /\ Total(g, S) \in Nat /\ Total(f, S) <= Total(g, S)
PROOF
<1> DEFINE Bad == {s \in SUBSET S : ~(Total(f, s) <= Total(g, s))}
<1>1. \A s \in SUBSET S : IsFiniteSet(s) /\ Total(f, s) \in Nat /\ Total(g, s) \in Nat
  BY FS_Subset, TotalType
<1>2. Bad = {}
  <2> SUFFICES ASSUME Bad # {} PROVE FALSE
    OBVIOUS
  <2>1. Bad \in SUBSET (SUBSET S)
    OBVIOUS
  <2> HIDE DEF Bad
  <2>2. PICK s \in Bad : IsFiniteSet(s) /\ \A x \in s : s \ {x} \notin Bad
    BY <2>1, Smallest
  <2> USE DEF Bad
  <2>3. s \in SUBSET S /\ ~(Total(f, s) <= Total(g, s))
    BY <2>2
  <2>4. s # {}
    BY <2>3, TotalOfNone
  <2>5. PICK x \in s : TRUE
    BY <2>4
  <2> DEFINE r == s \ {x}
  <2>6. r \in SUBSET S /\ x \notin r /\ s = r \cup {x} /\ x \in S
    BY <2>3, <2>5
  <2>7. Total(f, r) <= Total(g, r)
    BY <2>2, <2>5, <2>6
  <2> HIDE DEF r, Bad
  <2>8. /\ IsFiniteSet(r) /\ \A y \in r : f[y] \in Nat /\ g[y] \in Nat
        /\ f[x] \in Nat /\ g[x] \in Nat /\ f[x] <= g[x]
    BY <1>1, <2>6
  <2>9. Total(f, r \cup {x}) = Total(f, r) + f[x] /\ Total(g, r \cup {x}) = Total(g, r) + g[x]
    BY <2>6, <2>8, TotalInsert
  <2>10. Total(f, r) \in Nat /\ Total(g, r) \in Nat
    BY <1>1, <2>6
  <2> QED BY <2>3, <2>6, <2>7, <2>8, <2>9, <2>10
<1> QED BY <1>1, <1>2

LEMMA MapSumIsTotal == \A f, S : MapThenSumSet(LAMBDA d : f[d], S) = Total(f, S)
PROOF BY DEF MapThenSumSet, Total, SumFunctionOnSet, FoldFunctionOnSet

LEMMA RelDimsFinite == IsFiniteSet(RelDims)
PROOF
<1>1. \A x, D : IsFiniteSet(D) => IsFiniteSet(D \cup {x})
  BY FS_AddElement
<1>2. IsFiniteSet({}) /\ RelDims = {} \cup {"qps"} \cup {"status4xx"} \cup {"status5xx"}
        \cup {"status404"} \cup {"authFail"} \cup {"sensPath"} \cup {"botUA"}
        \cup {"emptyRef"} \cup {"head"}
  BY FS_EmptySet DEF RelDims
<1> QED BY <1>1, <1>2
-----------------------------------------------------------------------------
\* An address in the same window with as many requests, errors and signs of a user, and
\* at least as many hits of what attacks do.
Worse(c, e) ==
    /\ \A f \in {"total", "status4xx", "status5xx", "status404", "authFail", "emptyRef", "head",
                  "staticRes", "browser", "distinct4xx"} : e[f] = c[f]
    /\ \A f \in {"danger", "traversal", "method", "upload", "botUA", "sensPath"} : e[f] >= c[f]

LEMMA WorseFields ==
    ASSUME NEW c \in CountsOfWindow, NEW e \in CountsOfWindow, Worse(c, e)
    PROVE  /\ e.total = c.total /\ e.status4xx = c.status4xx /\ e.status5xx = c.status5xx
           /\ e.status404 = c.status404 /\ e.authFail = c.authFail /\ e.emptyRef = c.emptyRef
           /\ e.head = c.head /\ e.staticRes = c.staticRes /\ e.browser = c.browser
           /\ e.distinct4xx = c.distinct4xx /\ e.danger >= c.danger
           /\ e.traversal >= c.traversal /\ e.method >= c.method /\ e.upload >= c.upload
           /\ e.botUA >= c.botUA /\ e.sensPath >= c.sensPath
PROOF BY DEF Worse, CountsOfWindow

LEMMA RatioType ==
    ASSUME NEW n \in Nat, NEW t \in Nat PROVE Ratio(n, t) \in Nat
PROOF BY DivKeepsOrder DEF Ratio

LEMMA RatioKeepsOrder ==
    ASSUME NEW n \in Nat, NEW m \in Nat, NEW t \in Nat, n <= m
    PROVE  Ratio(n, t) <= Ratio(m, t)
PROOF BY DivKeepsOrder DEF Ratio

LEMMA DeviationType ==
    ASSUME NEW v \in Nat, NEW p \in Nat PROVE Deviation(v, p) \in Nat
PROOF BY DivKeepsOrder DEF Deviation, Least

LEMMA DeviationKeepsOrder ==
    ASSUME NEW v \in Nat, NEW u \in Nat, NEW p \in Nat, v <= u
    PROVE  Deviation(v, p) <= Deviation(u, p)
PROOF BY DivKeepsOrder DEF Deviation, Least

LEMMA QpsType ==
    ASSUME NEW c \in CountsOfWindow, NEW b \in BaselineOfWindow PROVE Qps(c, b) \in Nat
PROOF
<1>1. c.total * 1000 \in Nat /\ b.windowSec \in Nat \ {0}
  BY DEF CountsOfWindow, BaselineOfWindow
<1> QED BY <1>1, DivKeepsOrder DEF Qps

\* The deviations are natural numbers, ...
LEMMA DeviationsType ==
    ASSUME NEW c \in CountsOfWindow, NEW b \in BaselineOfWindow, NEW ip \in RatesOfAddress
    PROVE  Deviations(c, b, ip) \in [RelDims -> Nat]
PROOF
<1> SUFFICES ASSUME NEW d \in RelDims PROVE Deviations(c, b, ip)[d] \in Nat
  BY DEF Deviations
<1>1. b.p95[d] \in Nat /\ Qps(c, b) \in Nat
  BY QpsType DEF BaselineOfWindow
<1>2. CASE d = "qps"
  <2> DEFINE own == IF ip.seen > 20 /\ ip.qpsEMA > 0 THEN (Qps(c, b) * 10) \div ip.qpsEMA ELSE 0
  <2>1. ip.qpsEMA \in Nat /\ Qps(c, b) * 10 \in Nat
    BY <1>1 DEF RatesOfAddress
  <2>2. own \in Nat
    <3>1. ip.qpsEMA > 0 => (Qps(c, b) * 10) \div ip.qpsEMA \in Nat
      BY <2>1, DivKeepsOrder
    <3> QED BY <3>1
  <2> HIDE DEF own
  <2>3. Deviation(Qps(c, b), b.p95["qps"]) \in Nat
    BY <1>1, <1>2, DeviationType
  <2>4. Deviations(c, b, ip)[d] = Most(Deviation(Qps(c, b), b.p95["qps"]), own)
    BY <1>2 DEF Deviations, own
  <2> QED BY <2>2, <2>3, <2>4 DEF Most
<1>3. CASE d # "qps"
  <2>1. c[d] \in Nat /\ c.total \in Nat
    BY <1>3 DEF CountsOfWindow, RelDims
  <2>2. Ratio(c[d], c.total) \in Nat
    BY <2>1, RatioType
  <2>3. Deviation(Ratio(c[d], c.total), b.p95[d]) \in Nat
    BY <1>1, <2>2, DeviationType
  <2> QED BY <1>3, <2>3 DEF Deviations
<1> QED BY <1>2, <1>3

\* ... and those of the hits grow with the hits.
LEMMA DeviationsGrow ==
    ASSUME NEW c \in CountsOfWindow, NEW e \in CountsOfWindow, Worse(c, e),
           NEW b \in BaselineOfWindow, NEW ip \in RatesOfAddress, NEW d \in RelDims
    PROVE  /\ Deviations(c, b, ip)[d] <= Deviations(e, b, ip)[d]
           /\ d \notin {"botUA", "sensPath"} => Deviations(e, b, ip)[d] = Deviations(c, b, ip)[d]
PROOF
<1>1. Deviations(c, b, ip)[d] \in Nat /\ Deviations(e, b, ip)[d] \in Nat
  BY DeviationsType
<1>2. CASE d = "qps"
  <2>1. Qps(e, b) = Qps(c, b)
    BY WorseFields DEF Qps
  <2>2. Deviations(e, b, ip)[d] = Deviations(c, b, ip)[d]
    BY <1>2, <2>1 DEF Deviations
  <2> QED BY <1>1, <2>2
<1>3. CASE d # "qps"
  <2>1. c[d] \in Nat /\ e[d] \in Nat /\ c.total \in Nat /\ b.p95[d] \in Nat
    BY <1>3 DEF CountsOfWindow, RelDims, BaselineOfWindow
  <2>2. c[d] <= e[d] /\ e.total = c.total /\ (d \notin {"botUA", "sensPath"} => e[d] = c[d])
    BY <1>3, <2>1 DEF Worse, RelDims
  <2>3. Ratio(c[d], c.total) \in Nat /\ Ratio(e[d], c.total) \in Nat
        /\ Ratio(c[d], c.total) <= Ratio(e[d], c.total)
    BY <2>1, <2>2, RatioType, RatioKeepsOrder
  <2>4. Deviation(Ratio(c[d], c.total), b.p95[d]) <= Deviation(Ratio(e[d], c.total), b.p95[d])
    BY <2>1, <2>3, DeviationKeepsOrder
  <2> QED BY <1>3, <2>2, <2>4 DEF Deviations
<1> QED BY <1>2, <1>3

\* The parts of Relative by name.
Tolerance(b, ip) == b.thresholds[EffectiveSensitivity(ip.seen)]

RawScores(c, b, ip) ==
    [d \in RelDims |->
        IF c.total >= 5 THEN DeviationToScore(Deviations(c, b, ip)[d], Tolerance(b, ip)) ELSE 0]

IsUser(c, b, ip) == LegitimateUser(c, Deviations(c, b, ip), EffectiveSensitivity(ip.seen))

IsOnePage(c, b, ip) == Concentrated4xx(c, Deviations(c, b, ip), RawScores(c, b, ip)["status4xx"])

LEMMA RelativeIs ==
    ASSUME NEW c, NEW b, NEW ip
    PROVE  Relative(c, b, ip) =
             [d \in RelDims |->
                CASE d = "qps" -> Least(QpsMitigated(RawScores(c, b, ip)[d], c, b), RelCap)
                  [] d = "status4xx" -> Least(Mitigated(RawScores(c, b, ip)[d], IsUser(c, b, ip),
                                                        IsOnePage(c, b, ip)), RelCap)
                  [] d = "status404" -> Least(Mitigated(RawScores(c, b, ip)[d], IsUser(c, b, ip),
                                                        FALSE), RelCap)
                  [] d = "emptyRef" -> EmptyReferer(RawScores(c, b, ip)[d], c,
                                                    Deviations(c, b, ip), Tolerance(b, ip))
                  [] OTHER -> Least(RawScores(c, b, ip)[d], RelCap)]
PROOF BY DEF Relative, Tolerance, RawScores, IsUser, IsOnePage

LEMMA SensitivityType ==
    ASSUME NEW ip \in RatesOfAddress PROVE EffectiveSensitivity(ip.seen) \in 1..3
PROOF BY ScorerAssumption DEF EffectiveSensitivity, ScorerAssumption, RatesOfAddress

LEMMA ToleranceType ==
    ASSUME NEW b \in BaselineOfWindow, NEW ip \in RatesOfAddress PROVE Tolerance(b, ip) \in Nat
PROOF BY SensitivityType DEF Tolerance, BaselineOfWindow

LEMMA RelCapType == RelCap \in Nat /\ ScoreHigh \div 4 \in Nat /\ ScoreHigh \div 2 \in Nat
PROOF BY ScorerAssumption DEF ScorerAssumption, RelCap

LEMMA RawType ==
    ASSUME NEW c \in CountsOfWindow, NEW b \in BaselineOfWindow, NEW ip \in RatesOfAddress
    PROVE  /\ RawScores(c, b, ip) \in [RelDims -> Nat]
           /\ \A d \in RelDims : RawScores(c, b, ip)[d] <= 100
PROOF
<1> SUFFICES ASSUME NEW d \in RelDims
             PROVE RawScores(c, b, ip)[d] \in Nat /\ RawScores(c, b, ip)[d] <= 100
  BY DEF RawScores
<1>1. Deviations(c, b, ip)[d] \in Nat /\ Tolerance(b, ip) \in Nat
  BY DeviationsType, ToleranceType
<1> QED BY <1>1 DEF RawScores, DeviationToScore, Least

LEMMA RawGrows ==
    ASSUME NEW c \in CountsOfWindow, NEW e \in CountsOfWindow, Worse(c, e),
           NEW b \in BaselineOfWindow, NEW ip \in RatesOfAddress, NEW d \in RelDims
    PROVE  /\ RawScores(c, b, ip)[d] <= RawScores(e, b, ip)[d]
           /\ d \notin {"botUA", "sensPath"} => RawScores(e, b, ip)[d] = RawScores(c, b, ip)[d]
PROOF
<1> DEFINE x == Deviations(c, b, ip)[d]
           y == Deviations(e, b, ip)[d]
           t == Tolerance(b, ip)
<1>1. /\ x \in Nat /\ y \in Nat /\ t \in Nat /\ x <= y /\ e.total = c.total
      /\ d \notin {"botUA", "sensPath"} => y = x
  BY DeviationsType, DeviationsGrow, ToleranceType, WorseFields
<1>2. /\ RawScores(c, b, ip)[d] = IF c.total >= 5 THEN DeviationToScore(x, t) ELSE 0
      /\ RawScores(e, b, ip)[d] = IF e.total >= 5 THEN DeviationToScore(y, t) ELSE 0
  BY DEF RawScores
<1> HIDE DEF x, y, t
<1>3. DeviationToScore(x, t) <= DeviationToScore(y, t)
  BY <1>1 DEF DeviationToScore, Least
<1> QED BY <1>1, <1>2, <1>3

\* The weights of the features that need no baseline.
LEMMA AbsoluteType ==
    ASSUME NEW c \in CountsOfWindow
    PROVE  /\ Absolute(c).danger \in Nat /\ Absolute(c).traversal \in Nat
           /\ Absolute(c).method \in Nat /\ Absolute(c).upload \in Nat
PROOF
<1>1. /\ Weights.danger \in Nat /\ Weights.method \in Nat /\ Weights.upload \in Nat
      /\ c.danger \in Nat /\ c.traversal \in Nat /\ c.method \in Nat /\ c.upload \in Nat
  BY ScorerAssumption DEF ScorerAssumption, CountsOfWindow
<1>2. /\ c.danger * Weights.danger \in Nat /\ c.traversal * Weights.danger \in Nat
      /\ c.method * Weights.method \in Nat /\ c.upload * Weights.upload \in Nat
      /\ 3 * Weights.method \in Nat /\ ScoreHigh \div 2 \in Nat /\ ScoreHigh \in Nat
  BY <1>1, TimesKeepsOrder, RelCapType, ScorerAssumption DEF ScorerAssumption
<1> QED BY <1>2 DEF Absolute, Least

LEMMA AbsoluteGrows ==
    ASSUME NEW c \in CountsOfWindow, NEW e \in CountsOfWindow, Worse(c, e)
    PROVE  /\ Absolute(c).danger <= Absolute(e).danger
           /\ Absolute(c).traversal <= Absolute(e).traversal
           /\ Absolute(c).method <= Absolute(e).method
           /\ Absolute(c).upload <= Absolute(e).upload
PROOF
<1>1. /\ Weights.danger \in Nat /\ Weights.method \in Nat /\ Weights.upload \in Nat
      /\ c.danger \in Nat /\ c.traversal \in Nat /\ c.method \in Nat /\ c.upload \in Nat
      /\ e.danger \in Nat /\ e.traversal \in Nat /\ e.method \in Nat /\ e.upload \in Nat
      /\ c.danger <= e.danger /\ c.traversal <= e.traversal /\ c.method <= e.method
      /\ c.upload <= e.upload
  BY ScorerAssumption, WorseFields DEF ScorerAssumption, CountsOfWindow
<1>2. \A a, b, k \in Nat : a <= b => a * k \in Nat /\ b * k \in Nat /\ a * k <= b * k
  BY TimesKeepsOrder
<1>3. \A a, b, k \in Nat : a <= b => Least(a, k) <= Least(b, k)
  BY DEF Least
<1>4. ScoreHigh \div 2 \in Nat /\ ScoreHigh \in Nat /\ 3 * Weights.method \in Nat
  BY <1>1, RelCapType, ScorerAssumption DEF ScorerAssumption
<1>5. Absolute(c).danger <= Absolute(e).danger
  BY <1>1, <1>2, <1>3, <1>4 DEF Absolute
<1>6. Absolute(c).traversal <= Absolute(e).traversal
  BY <1>1, <1>2, <1>3, <1>4 DEF Absolute
<1>7. Absolute(c).method <= Absolute(e).method
  BY <1>1, <1>2, <1>3, <1>4 DEF Absolute
<1>8. Absolute(c).upload <= Absolute(e).upload
  BY <1>1, <1>2, <1>3, <1>4 DEF Absolute
<1> QED BY <1>5, <1>6, <1>7, <1>8

\* What excuses the one with more hits excuses the other, ...
LEMMA UserGrows ==
    ASSUME NEW c \in CountsOfWindow, NEW e \in CountsOfWindow, Worse(c, e),
           NEW b \in BaselineOfWindow, NEW ip \in RatesOfAddress, IsUser(e, b, ip)
    PROVE  IsUser(c, b, ip)
PROOF
<1>1. /\ c.danger \in Nat /\ c.traversal \in Nat /\ c.method \in Nat /\ c.upload \in Nat
      /\ c.botUA \in Nat /\ c.sensPath \in Nat /\ e.botUA \in Nat /\ e.sensPath \in Nat
      /\ c.total \in Nat
  BY DEF CountsOfWindow
<1>2. e.browser > 0 /\ e.total >= 3 /\ NoAttackFeature(e)
  BY DEF IsUser, LegitimateUser
<1>3. PureBrowser(c) <=> PureBrowser(e)
  BY WorseFields DEF PureBrowser
<1>4. NoFatalAttack(c)
  BY <1>1, <1>2, WorseFields DEF NoAttackFeature, NoFatalAttack
<1>5. NoAttackFeature(c)
  BY <1>1, <1>2, <1>3, <1>4, WorseFields DEF NoAttackFeature
<1>6. \A d \in {"qps", "status4xx", "status404"} :
         Deviations(e, b, ip)[d] = Deviations(c, b, ip)[d]
  BY DeviationsGrow DEF RelDims
<1> QED BY <1>2, <1>5, <1>6, WorseFields DEF IsUser, LegitimateUser

LEMMA OnePageGrows ==
    ASSUME NEW c \in CountsOfWindow, NEW e \in CountsOfWindow, Worse(c, e),
           NEW b \in BaselineOfWindow, NEW ip \in RatesOfAddress, IsOnePage(e, b, ip)
    PROVE  IsOnePage(c, b, ip)
PROOF
<1>1. c.botUA \in Nat /\ e.botUA \in Nat
  BY DEF CountsOfWindow
<1>2. /\ Deviations(e, b, ip)["status4xx"] = Deviations(c, b, ip)["status4xx"]
      /\ RawScores(e, b, ip)["status4xx"] = RawScores(c, b, ip)["status4xx"]
  BY DeviationsGrow, RawGrows DEF RelDims
<1> QED BY <1>1, <1>2, WorseFields DEF IsOnePage, Concentrated4xx

LEMMA MitigatedGrows ==
    ASSUME NEW s \in Nat, NEW l \in BOOLEAN, NEW m \in BOOLEAN, m => l,
           NEW o \in BOOLEAN, NEW p \in BOOLEAN, p => o
    PROVE  /\ Mitigated(s, l, o) \in Nat /\ Mitigated(s, m, p) \in Nat
           /\ Mitigated(s, l, o) <= Mitigated(s, m, p)
           /\ Mitigated(s, l, o) <= s /\ (l => Mitigated(s, l, o) <= s \div 10)
PROOF
<1>1. s \div 10 \in Nat /\ s \div 10 <= s
  OBVIOUS
<1>2. \A x \in Nat : (x * 5) \div 10 \in Nat /\ (x * 5) \div 10 <= x
  OBVIOUS
<1>3. \A x, y \in Nat : x <= y => (x * 5) \div 10 <= (y * 5) \div 10
  OBVIOUS
<1>4. \A x, y \in Nat : x <= y => (x * 5) \div 10 <= y
  BY <1>2
<1> QED BY <1>1, <1>2, <1>3, <1>4 DEF Mitigated

\* ... and the score of the rate is mitigated at most as much.
LEMMA QpsGrows ==
    ASSUME NEW c \in CountsOfWindow, NEW e \in CountsOfWindow, Worse(c, e),
           NEW b \in BaselineOfWindow, NEW s \in Nat
    PROVE  /\ QpsMitigated(s, c, b) \in Nat /\ QpsMitigated(s, e, b) \in Nat
           /\ QpsMitigated(s, c, b) <= QpsMitigated(s, e, b)
PROOF
<1> DEFINE Attack(x) == \E f \in {"danger", "botUA", "traversal", "method", "upload"} : x[f] > 0
<1>1. Attack(c) => Attack(e)
  <2>1. \A f \in {"danger", "botUA", "traversal", "method", "upload"} :
            c[f] \in Nat /\ e[f] \in Nat /\ e[f] >= c[f]
    BY DEF CountsOfWindow, Worse
  <2> QED BY <2>1
<1>2. b.confidence \in Nat
  BY DEF BaselineOfWindow
<1>3. /\ (s * 5) \div 10 \in Nat /\ (s * 3) \div 10 \in Nat /\ (s * 3) \div 10 <= s
  OBVIOUS
<1>4. \A x : QpsMitigated(s, x, b) = CASE b.confidence < 30 -> (s * 5) \div 10
                 [] b.confidence >= 30 /\ ~Attack(x) -> (s * 3) \div 10
                 [] OTHER -> s
  BY DEF QpsMitigated
<1> HIDE DEF Attack
<1>5. CASE b.confidence < 30
  BY <1>2, <1>3, <1>4, <1>5
<1>6. CASE b.confidence >= 30
  <2>1. ~(b.confidence < 30)
    BY <1>2, <1>6
  <2>2. \A x : QpsMitigated(s, x, b) = IF Attack(x) THEN s ELSE (s * 3) \div 10
    BY <1>4, <1>6, <2>1
  <2> QED BY <1>1, <1>3, <2>2
<1> QED BY <1>2, <1>5, <1>6

LEMMA EmptyRefererGrows ==
    ASSUME NEW c \in CountsOfWindow, NEW e \in CountsOfWindow, Worse(c, e),
           NEW b \in BaselineOfWindow, NEW ip \in RatesOfAddress, NEW s \in Nat
    PROVE  /\ EmptyReferer(s, c, Deviations(c, b, ip), Tolerance(b, ip)) \in Nat
           /\ EmptyReferer(s, e, Deviations(e, b, ip), Tolerance(b, ip)) \in Nat
           /\ EmptyReferer(s, c, Deviations(c, b, ip), Tolerance(b, ip))
                  <= EmptyReferer(s, e, Deviations(e, b, ip), Tolerance(b, ip))
PROOF
<1> DEFINE t == Tolerance(b, ip)
           Beside(x) == \/ \E d \in RelDims \ {"emptyRef", "head"} : Deviations(x, b, ip)[d] >= t
                        \/ Absolute(x).danger > 0 \/ Absolute(x).method > 0
           Cap(x) == IF x.total >= 5 /\ x.status404 > 0 /\ (x.status404 * 100) \div x.total >= 50
                     THEN ScoreHigh \div 2 ELSE ScoreHigh \div 4
<1>1. \A x : EmptyReferer(s, x, Deviations(x, b, ip), t)
              = Least(Least(IF Beside(x) THEN s ELSE s \div 5, Cap(x)), RelCap)
  BY DEF EmptyReferer
<1>2. Beside(c) => Beside(e)
  <2>1. \A d \in RelDims : /\ Deviations(c, b, ip)[d] \in Nat /\ Deviations(e, b, ip)[d] \in Nat
                           /\ Deviations(c, b, ip)[d] <= Deviations(e, b, ip)[d]
    BY DeviationsGrow, DeviationsType
  <2>2. t \in Nat
    BY ToleranceType
  <2>3. /\ Absolute(c).danger \in Nat /\ Absolute(c).method \in Nat
        /\ Absolute(e).danger \in Nat /\ Absolute(e).method \in Nat
        /\ Absolute(c).danger <= Absolute(e).danger /\ Absolute(c).method <= Absolute(e).method
    BY AbsoluteType, AbsoluteGrows
  <2> HIDE DEF t
  <2>4. ASSUME NEW d \in RelDims \ {"emptyRef", "head"}, Deviations(c, b, ip)[d] >= t
        PROVE  Deviations(e, b, ip)[d] >= t
    BY <2>1, <2>2, <2>4
  <2> QED BY <2>3, <2>4
<1>3. Cap(c) = Cap(e) /\ Cap(c) \in Nat
  BY WorseFields, RelCapType
<1>4. s \div 5 \in Nat /\ s \div 5 <= s
  OBVIOUS
<1> HIDE DEF Beside, Cap, t
<1> DEFINE p == IF Beside(c) THEN s ELSE s \div 5
           q == IF Beside(e) THEN s ELSE s \div 5
<1>5. p \in Nat /\ q \in Nat /\ p <= q
  BY <1>2, <1>4
<1>6. /\ EmptyReferer(s, c, Deviations(c, b, ip), t) = Least(Least(p, Cap(c)), RelCap)
      /\ EmptyReferer(s, e, Deviations(e, b, ip), t) = Least(Least(q, Cap(c)), RelCap)
  BY <1>1, <1>3
<1> HIDE DEF p, q
<1>7. RelCap \in Nat
  BY RelCapType
<1>8. /\ Least(Least(p, Cap(c)), RelCap) <= Least(Least(q, Cap(c)), RelCap)
      /\ Least(Least(p, Cap(c)), RelCap) \in Nat /\ Least(Least(q, Cap(c)), RelCap) \in Nat
  BY <1>3, <1>5, <1>7 DEF Least
<1> QED BY <1>6, <1>8 DEF t

LEMMA RelativeGrows ==
    ASSUME NEW c \in CountsOfWindow, NEW e \in CountsOfWindow, Worse(c, e),
           NEW b \in BaselineOfWindow, NEW ip \in RatesOfAddress, NEW d \in RelDims
    PROVE  /\ Relative(c, b, ip)[d] \in Nat /\ Relative(e, b, ip)[d] \in Nat
           /\ Relative(c, b, ip)[d] <= Relative(e, b, ip)[d]
PROOF
<1> DEFINE x == RawScores(c, b, ip)[d]
           y == RawScores(e, b, ip)[d]
<1>1. x \in Nat /\ y \in Nat /\ x <= y /\ (d \notin {"botUA", "sensPath"} => y = x)
  BY RawType, RawGrows
<1>2. \A m, n \in Nat : m <= n => /\ Least(m, RelCap) \in Nat /\ Least(n, RelCap) \in Nat
                                 /\ Least(m, RelCap) <= Least(n, RelCap)
  BY RelCapType DEF Least
<1>3. CASE d = "qps"
  <2>1. y = x
    BY <1>1, <1>3
  <2>2. /\ Relative(c, b, ip)[d] = Least(QpsMitigated(x, c, b), RelCap)
        /\ Relative(e, b, ip)[d] = Least(QpsMitigated(x, e, b), RelCap)
    BY <1>3, <2>1, RelativeIs
  <2> HIDE DEF x, y
  <2>3. /\ QpsMitigated(x, c, b) \in Nat /\ QpsMitigated(x, e, b) \in Nat
        /\ QpsMitigated(x, c, b) <= QpsMitigated(x, e, b)
    BY <1>1, QpsGrows
  <2> QED BY <1>2, <2>2, <2>3
<1>4. CASE d \in {"status4xx", "status404"}
  <2> DEFINE o(z) == IF d = "status4xx" THEN IsOnePage(z, b, ip) ELSE FALSE
  <2>1. y = x
    BY <1>1, <1>4
  <2>2. /\ Relative(c, b, ip)[d] = Least(Mitigated(x, IsUser(c, b, ip), o(c)), RelCap)
        /\ Relative(e, b, ip)[d] = Least(Mitigated(x, IsUser(e, b, ip), o(e)), RelCap)
    BY <1>4, <2>1, RelativeIs
  <2>3. /\ IsUser(c, b, ip) \in BOOLEAN /\ IsUser(e, b, ip) \in BOOLEAN
        /\ o(c) \in BOOLEAN /\ o(e) \in BOOLEAN
    BY DEF IsUser, LegitimateUser, IsOnePage, Concentrated4xx
  <2>4. (IsUser(e, b, ip) => IsUser(c, b, ip)) /\ (o(e) => o(c))
    BY UserGrows, OnePageGrows
  <2> HIDE DEF x, y, o
  <2>5. /\ Mitigated(x, IsUser(c, b, ip), o(c)) \in Nat
        /\ Mitigated(x, IsUser(e, b, ip), o(e)) \in Nat
        /\ Mitigated(x, IsUser(c, b, ip), o(c)) <= Mitigated(x, IsUser(e, b, ip), o(e))
    BY <1>1, <2>3, <2>4, MitigatedGrows
  <2> QED BY <1>2, <2>2, <2>5
<1>5. CASE d = "emptyRef"
  <2>1. y = x
    BY <1>1, <1>5
  <2>2. /\ Relative(c, b, ip)[d] = EmptyReferer(x, c, Deviations(c, b, ip), Tolerance(b, ip))
        /\ Relative(e, b, ip)[d] = EmptyReferer(x, e, Deviations(e, b, ip), Tolerance(b, ip))
    BY <1>5, <2>1, RelativeIs
  <2> HIDE DEF x, y
  <2> QED BY <1>1, <2>2, EmptyRefererGrows
<1>6. CASE d \notin {"qps", "status4xx", "status404", "emptyRef"}
  <2>1. Relative(c, b, ip)[d] = Least(x, RelCap) /\ Relative(e, b, ip)[d] = Least(y, RelCap)
    BY <1>6, RelativeIs
  <2> HIDE DEF x, y
  <2> QED BY <1>1, <1>2, <2>1
<1> QED BY <1>3, <1>4, <1>5, <1>6

\* The relative scores and their sum.
LEMMA ActiveGrows ==
    ASSUME NEW c \in CountsOfWindow, NEW e \in CountsOfWindow, Worse(c, e),
           NEW b \in BaselineOfWindow, NEW ip \in RatesOfAddress, NEW d \in RelDims
    PROVE  /\ ActiveScores(c, b, ip)[d] \in Nat /\ ActiveScores(e, b, ip)[d] \in Nat
           /\ ActiveScores(c, b, ip)[d] <= ActiveScores(e, b, ip)[d]
PROOF
<1>1. Inactive(e, b) <=> Inactive(c, b)
  BY WorseFields DEF Inactive, Qps
<1>2. CASE Inactive(c, b)
  BY <1>1, <1>2 DEF ActiveScores
<1>3. CASE ~Inactive(c, b)
  BY <1>1, <1>3, RelativeGrows DEF ActiveScores
<1> QED BY <1>2, <1>3

LEMMA CappedIs ==
    ASSUME NEW rel, NEW abs
    PROVE  Capped(rel, abs) = IF Cardinality(ActiveDims(rel)) <= 1 /\ abs = 0
                              THEN Least(Total(rel, RelDims), ScoreMedium) ELSE Total(rel, RelDims)
PROOF
<1>1. MapThenSumSet(LAMBDA d : rel[d], RelDims) = Total(rel, RelDims)
  BY MapSumIsTotal
<1> QED BY <1>1 DEF Capped

LEMMA CappedGrows ==
    ASSUME NEW r, NEW s, NEW a \in Nat, NEW h \in Nat, a <= h,
           \A d \in RelDims : r[d] \in Nat /\ s[d] \in Nat /\ r[d] <= s[d]
    PROVE  /\ Capped(r, a) \in Nat /\ Capped(s, h) \in Nat
           /\ Capped(r, a) <= Capped(s, h)
PROOF
<1> DEFINE m == Total(r, RelDims)
           n == Total(s, RelDims)
<1>1. m \in Nat /\ n \in Nat /\ m <= n
  BY RelDimsFinite, TotalKeepsOrder
<1>2. Cardinality(ActiveDims(s)) <= 1 => Cardinality(ActiveDims(r)) <= 1
  <2>1. ActiveDims(r) \subseteq ActiveDims(s) /\ ActiveDims(s) \subseteq RelDims
    BY DEF ActiveDims
  <2>2. IsFiniteSet(ActiveDims(s)) /\ IsFiniteSet(ActiveDims(r))
    BY <2>1, RelDimsFinite, FS_Subset
  <2>3. /\ Cardinality(ActiveDims(r)) \in Nat /\ Cardinality(ActiveDims(s)) \in Nat
        /\ Cardinality(ActiveDims(r)) <= Cardinality(ActiveDims(s))
    BY <2>1, <2>2, FS_Subset, FS_CardinalityType
  <2> QED BY <2>3
<1>3. /\ Capped(r, a) = IF Cardinality(ActiveDims(r)) <= 1 /\ a = 0
                        THEN Least(m, ScoreMedium) ELSE m
      /\ Capped(s, h) = IF Cardinality(ActiveDims(s)) <= 1 /\ h = 0
                        THEN Least(n, ScoreMedium) ELSE n
  BY CappedIs
<1> HIDE DEF m, n
<1>4. ScoreMedium \in Nat
  BY ScorerAssumption DEF ScorerAssumption
<1>5. h = 0 => a = 0
  OBVIOUS
<1>6. /\ Least(m, ScoreMedium) <= Least(n, ScoreMedium) /\ Least(m, ScoreMedium) <= m
      /\ Least(m, ScoreMedium) <= n /\ Least(m, ScoreMedium) \in Nat
      /\ Least(n, ScoreMedium) \in Nat
  BY <1>1, <1>4 DEF Least
<1> QED BY <1>1, <1>2, <1>3, <1>5, <1>6

\* What is given back is never more.
LEMMA BonusShrinks ==
    ASSUME NEW c \in CountsOfWindow, NEW e \in CountsOfWindow, Worse(c, e),
           NEW l \in BOOLEAN, NEW m \in BOOLEAN, m => l
    PROVE  Bonus(c, l) \in Int /\ Bonus(e, m) \in Int /\ Bonus(e, m) <= Bonus(c, l)
PROOF
<1> DEFINE Probes(x) == IF PureBrowser(x) /\ x.botUA = 0 /\ x.staticRes > 0
                        THEN x.status404 \div 2 ELSE 0
           Base(x) == x.staticRes * 3 + (x.total - x.emptyRef) + Probes(x)
<1>1. /\ c.botUA \in Nat /\ e.botUA \in Nat /\ c.status404 \in Nat /\ c.staticRes \in Nat
      /\ c.total \in Nat /\ c.emptyRef \in Nat
  BY DEF CountsOfWindow
<1>2. /\ e.status404 = c.status404 /\ e.staticRes = c.staticRes /\ e.total = c.total
      /\ e.emptyRef = c.emptyRef /\ e.botUA >= c.botUA
  BY WorseFields
<1>3. PureBrowser(e) <=> PureBrowser(c)
  BY WorseFields DEF PureBrowser
<1>4. c.status404 \div 2 \in Nat
  BY <1>1
<1>5. Probes(c) \in Nat /\ Probes(e) \in Nat /\ Probes(e) <= Probes(c)
  BY <1>1, <1>2, <1>3, <1>4
<1> HIDE DEF Probes
<1>6. Base(c) \in Int /\ Base(e) \in Int /\ Base(e) <= Base(c)
  BY <1>1, <1>2, <1>5
<1>7. \A x, k : Bonus(x, k) = IF k /\ Base(x) > 0 THEN (Base(x) * 15) \div 10 ELSE Base(x)
  BY DEF Bonus, Probes
<1> HIDE DEF Base
<1>8. \A x \in Int : x > 0 => (x * 15) \div 10 \in Int /\ x <= (x * 15) \div 10
  OBVIOUS
<1>9. \A x, y \in Int : x <= y => (x * 15) \div 10 <= (y * 15) \div 10
  OBVIOUS
<1>10. Base(c) > 0 => /\ (Base(c) * 15) \div 10 \in Int /\ Base(c) <= (Base(c) * 15) \div 10
                      /\ Base(e) <= (Base(c) * 15) \div 10
  BY <1>6, <1>8
<1>11. Base(e) > 0 => /\ (Base(e) * 15) \div 10 \in Int
                      /\ (Base(e) * 15) \div 10 <= (Base(c) * 15) \div 10 /\ Base(c) > 0
  BY <1>6, <1>8, <1>9
<1> QED BY <1>6, <1>7, <1>10, <1>11

LEMMA AbsoluteScoreGrows ==
    ASSUME NEW c \in CountsOfWindow, NEW e \in CountsOfWindow, Worse(c, e)
    PROVE  /\ AbsoluteScore(c) \in Nat /\ AbsoluteScore(e) \in Nat
           /\ AbsoluteScore(c) <= AbsoluteScore(e)
PROOF BY AbsoluteType, AbsoluteGrows DEF AbsoluteScore

\* The score of a window, and of an address.
LEMMA WindowScoreIs ==
    ASSUME NEW c, NEW b, NEW ip
    PROVE  WindowScore(c, b, ip)
             = IF Inactive(c, b) /\ AbsoluteScore(c) < ScoreMedium
               THEN Least(Capped(ActiveScores(c, b, ip), AbsoluteScore(c)) + AbsoluteScore(c)
                            - Bonus(c, IsUser(c, b, ip)), ScoreMedium)
               ELSE Capped(ActiveScores(c, b, ip), AbsoluteScore(c)) + AbsoluteScore(c)
                      - Bonus(c, IsUser(c, b, ip))
PROOF BY DEF WindowScore, IsUser

LEMMA WindowScoreGrows ==
    ASSUME NEW c \in CountsOfWindow, NEW e \in CountsOfWindow, Worse(c, e),
           NEW b \in BaselineOfWindow, NEW ip \in RatesOfAddress
    PROVE  /\ WindowScore(c, b, ip) \in Int /\ WindowScore(e, b, ip) \in Int
           /\ WindowScore(c, b, ip) <= WindowScore(e, b, ip)
PROOF
<1> DEFINE r == Capped(ActiveScores(c, b, ip), AbsoluteScore(c))
           s == Capped(ActiveScores(e, b, ip), AbsoluteScore(e))
           a == AbsoluteScore(c)
           h == AbsoluteScore(e)
           p == Bonus(c, IsUser(c, b, ip))
           q == Bonus(e, IsUser(e, b, ip))
<1>1. a \in Nat /\ h \in Nat /\ a <= h
  BY AbsoluteScoreGrows
<1>2. \A d \in RelDims : /\ ActiveScores(c, b, ip)[d] \in Nat /\ ActiveScores(e, b, ip)[d] \in Nat
                         /\ ActiveScores(c, b, ip)[d] <= ActiveScores(e, b, ip)[d]
  BY ActiveGrows
<1>3. r \in Nat /\ s \in Nat /\ r <= s
  BY <1>1, <1>2, CappedGrows
<1>4. IsUser(e, b, ip) => IsUser(c, b, ip)
  BY UserGrows
<1>5. IsUser(c, b, ip) \in BOOLEAN /\ IsUser(e, b, ip) \in BOOLEAN
  BY DEF IsUser, LegitimateUser
<1>6. p \in Int /\ q \in Int /\ q <= p
  BY <1>4, <1>5, BonusShrinks
<1>7. Inactive(e, b) <=> Inactive(c, b)
  BY WorseFields DEF Inactive, Qps
<1>8. /\ WindowScore(c, b, ip) = IF Inactive(c, b) /\ a < ScoreMedium
                                 THEN Least(r + a - p, ScoreMedium) ELSE r + a - p
      /\ WindowScore(e, b, ip) = IF Inactive(c, b) /\ h < ScoreMedium
                                 THEN Least(s + h - q, ScoreMedium) ELSE s + h - q
  BY <1>7, WindowScoreIs
<1> HIDE DEF r, s, a, h, p, q
<1>9. ScoreMedium \in Nat
  BY ScorerAssumption DEF ScorerAssumption
<1> QED BY <1>1, <1>3, <1>6, <1>8, <1>9 DEF Least

\* The highest score of the windows.
OrNone(w) == {w[k] : k \in 1..3} \cup {0}

LEMMA HighestIs ==
    ASSUME NEW w, \A i \in 1..3 : w[i] \in Int
    PROVE  /\ Max(OrNone(w)) \in OrNone(w) /\ Max(OrNone(w)) \in Nat
           /\ \A i \in 1..3 : w[i] <= Max(OrNone(w))
PROOF
<1> DEFINE D == OrNone(w)
           m == Max(D)
<1>1. D = {w[1], w[2], w[3], 0} /\ w[1] \in Int /\ w[2] \in Int /\ w[3] \in Int
  BY 1..3 = {1, 2, 3} DEF OrNone
<1> HIDE DEF D
<1>2. \E x \in D : \A y \in D : x >= y
  BY <1>1
<1>3. m \in D /\ \A y \in D : m >= y
  BY <1>2 DEF Max
<1> HIDE DEF m
<1>4. m \in Int /\ m >= 0
  BY <1>1, <1>3
<1>5. \A i \in 1..3 : w[i] \in D
  BY DEF D, OrNone
<1>6. m \in Nat /\ \A i \in 1..3 : w[i] <= m
  BY <1>3, <1>4, <1>5
<1> QED BY <1>3, <1>6 DEF m, D

Scores(cs, bs, ip) == [i \in 1..3 |-> WindowScore(cs[i], bs[i], ip)]

Best(cs, bs, ip) == Least(Max(OrNone(Scores(cs, bs, ip))), 2 * ScoreHigh)

LEMMA FinalScoreIs ==
    ASSUME NEW cs, NEW bs, NEW ip
    PROVE  FinalScore(cs, bs, ip)
             = IF Best(cs, bs, ip) >= ScoreHigh /\ ScoreHigh > 0 /\ ~AnyConfident(bs)
               THEN ScoreHigh - 1 ELSE Best(cs, bs, ip)
PROOF
<1>1. OrNone(Scores(cs, bs, ip)) = {WindowScore(cs[i], bs[i], ip) : i \in 1..3} \cup {0}
  BY DEF Scores, OrNone
<1> QED BY <1>1 DEF FinalScore, Best

\* More hits in the windows never lower the score of an address.
LEMMA FinalScoreGrows ==
    ASSUME NEW cs \in [1..3 -> CountsOfWindow], NEW es \in [1..3 -> CountsOfWindow],
           \A i \in 1..3 : Worse(cs[i], es[i]),
           NEW bs \in ThreeBaselines, NEW ip \in RatesOfAddress
    PROVE  /\ FinalScore(cs, bs, ip) \in Nat /\ FinalScore(es, bs, ip) \in Nat
           /\ FinalScore(cs, bs, ip) <= FinalScore(es, bs, ip)
PROOF
<1> DEFINE v == Scores(cs, bs, ip)
           w == Scores(es, bs, ip)
           m == Max(OrNone(v))
           n == Max(OrNone(w))
           p == Best(cs, bs, ip)
           q == Best(es, bs, ip)
<1>1. \A i \in 1..3 : /\ WindowScore(cs[i], bs[i], ip) \in Int
                      /\ WindowScore(es[i], bs[i], ip) \in Int
                      /\ WindowScore(cs[i], bs[i], ip) <= WindowScore(es[i], bs[i], ip)
  BY WindowScoreGrows DEF ThreeBaselines
<1>2. \A i \in 1..3 : v[i] \in Int /\ w[i] \in Int /\ v[i] <= w[i]
  BY <1>1 DEF Scores
<1>3. p = Least(m, 2 * ScoreHigh) /\ q = Least(n, 2 * ScoreHigh)
  BY DEF Best
<1> HIDE DEF v, w, p, q
<1>4. /\ m \in OrNone(v) /\ m \in Nat /\ n \in Nat
      /\ \A i \in 1..3 : w[i] <= n
  BY <1>2, HighestIs
<1> HIDE DEF m, n
<1>5. m <= n
  BY <1>2, <1>4 DEF OrNone
<1>6. ScoreHigh \in Nat
  BY ScorerAssumption DEF ScorerAssumption
<1>7. p \in Nat /\ q \in Nat /\ p <= q
  BY <1>3, <1>4, <1>5, <1>6 DEF Least
<1>8. /\ FinalScore(cs, bs, ip) = IF p >= ScoreHigh /\ ScoreHigh > 0 /\ ~AnyConfident(bs)
                                  THEN ScoreHigh - 1 ELSE p
      /\ FinalScore(es, bs, ip) = IF q >= ScoreHigh /\ ScoreHigh > 0 /\ ~AnyConfident(bs)
                                  THEN ScoreHigh - 1 ELSE q
  BY FinalScoreIs DEF p, q
<1> QED BY <1>6, <1>7, <1>8

\* Scorer.ScoreWithDetail: whatever is counted and learnt, one more hit of an attack among
\* the same requests never lowers the score: no mitigation, cap or bonus makes an excuse
\* of it.
THEOREM AttacksNeverHelp ==
    ASSUME NEW cs \in [1..3 -> CountsOfWindow], NEW bs \in ThreeBaselines,
           NEW ip \in RatesOfAddress
    PROVE  AttackNeverLowers(cs, bs, ip)
PROOF
<1> SUFFICES ASSUME NEW f \in {"danger", "traversal", "method", "upload", "botUA", "sensPath"}
             PROVE  FinalScore(OneMore(cs, f), bs, ip) >= FinalScore(cs, bs, ip)
  BY DEF AttackNeverLowers
<1> DEFINE es == OneMore(cs, f)
<1>1. \A i \in 1..3 : /\ es[i] \in CountsOfWindow /\ Worse(cs[i], es[i])
  <2> SUFFICES ASSUME NEW i \in 1..3 PROVE es[i] \in CountsOfWindow /\ Worse(cs[i], es[i])
    OBVIOUS
  <2> DEFINE c == cs[i]
  <2>1. c \in CountsOfWindow /\ es[i] = [c EXCEPT ![f] = @ + 1]
    BY DEF OneMore
  <2> HIDE DEF c
  <2>2. c[f] \in Nat
    BY <2>1 DEF CountsOfWindow
  <2>3. [c EXCEPT ![f] = @ + 1] \in CountsOfWindow
    BY <2>1, <2>2 DEF CountsOfWindow
  <2>4. Worse(c, [c EXCEPT ![f] = @ + 1])
    BY <2>1, <2>2 DEF CountsOfWindow, Worse
  <2> QED BY <2>1, <2>3, <2>4 DEF c
<1>2. es \in [1..3 -> CountsOfWindow]
  BY <1>1 DEF OneMore
<1> HIDE DEF es
<1>3. /\ FinalScore(cs, bs, ip) \in Nat /\ FinalScore(es, bs, ip) \in Nat
      /\ FinalScore(cs, bs, ip) <= FinalScore(es, bs, ip)
  BY <1>1, <1>2, FinalScoreGrows
<1> QED BY <1>3 DEF es

\* The sum of a function that is zero but at a part of the set.
LEMMA TotalWithoutZeros ==
    ASSUME NEW f, NEW D, IsFiniteSet(D), NEW S \in SUBSET D, \A x \in S : f[x] \in Nat,
           \A x \in D \ S : f[x] = 0
    PROVE  Total(f, D) = Total(f, S)
PROOF
<1> DEFINE R == D \ S
<1>1. IsFiniteSet(S) /\ IsFiniteSet(R) /\ S \cap R = {} /\ S \cup R = D
  BY FS_Subset
<1>2. \A x \in S \cup R : f[x] \in Nat
  OBVIOUS
<1>3. \A x \in R : f[x] = 0
  OBVIOUS
<1> HIDE DEF R
<1>4. Total(f, R) = 0
  BY <1>1, <1>3, TotalOfEqual
<1>5. Total(f, S) \in Nat
  BY <1>1, <1>2, TotalType
<1>6. Total(f, S \cup R) = Total(f, S) + Total(f, R)
  BY <1>1, <1>2, TotalUnion
<1> QED BY <1>1, <1>4, <1>5, <1>6

LEMMA TotalOfOneMore ==
    ASSUME NEW f, NEW S, IsFiniteSet(S), \A y \in S : f[y] \in Nat, NEW x, f[x] \in Nat
    PROVE  Total(f, S \cup {x}) \in Nat /\ Total(f, S \cup {x}) <= Total(f, S) + f[x]
PROOF
<1>1. Total(f, S) \in Nat
  BY TotalType
<1>2. CASE x \in S
  <2>1. S \cup {x} = S
    BY <1>2
  <2>2. Total(f, S \cup {x}) = Total(f, S)
    BY ONLY <2>1
  <2> QED BY <1>1, <2>2
<1>3. CASE x \notin S
  <2>1. Total(f, S \cup {x}) = Total(f, S) + f[x]
    BY <1>3, TotalInsert
  <2> QED BY <1>1, <2>1
<1> QED BY <1>2, <1>3

LEMMA TotalOfThree ==
    ASSUME NEW f, NEW x, NEW y, NEW z, f[x] \in Nat, f[y] \in Nat, f[z] \in Nat
    PROVE  /\ Total(f, {x, y, z}) \in Nat
           /\ Total(f, {x, y, z}) <= f[x] + f[y] + f[z]
PROOF
<1>1. IsFiniteSet({}) /\ Total(f, {}) = 0
  BY FS_EmptySet, TotalOfNone
<1>2. Total(f, {} \cup {x}) \in Nat /\ Total(f, {} \cup {x}) <= Total(f, {}) + f[x]
  BY <1>1, TotalOfOneMore
<1>3. {} \cup {x} = {x} /\ {x} \cup {y} = {x, y} /\ {x, y} \cup {z} = {x, y, z}
  OBVIOUS
<1>4. IsFiniteSet({x}) /\ IsFiniteSet({x, y})
  BY <1>1, <1>3, FS_AddElement
<1>5. Total(f, {x} \cup {y}) \in Nat /\ Total(f, {x} \cup {y}) <= Total(f, {x}) + f[y]
  BY <1>4, TotalOfOneMore
<1>6. Total(f, {x, y} \cup {z}) \in Nat /\ Total(f, {x, y} \cup {z}) <= Total(f, {x, y}) + f[z]
  BY <1>4, TotalOfOneMore
<1>7. /\ Total(f, {x}) \in Nat /\ Total(f, {x}) <= f[x]
      /\ Total(f, {x, y}) \in Nat /\ Total(f, {x, y}) <= Total(f, {x}) + f[y]
      /\ Total(f, {x, y, z}) \in Nat /\ Total(f, {x, y, z}) <= Total(f, {x, y}) + f[z]
  BY <1>1, <1>2, <1>3, <1>5, <1>6
<1> QED BY <1>7

LEMMA WorseItself == \A c \in CountsOfWindow : Worse(c, c)
PROOF BY DEF Worse, CountsOfWindow

\* What is not hit adds nothing.
LEMMA NoHitNoScore ==
    ASSUME NEW c \in CountsOfWindow, NEW b \in BaselineOfWindow, NEW ip \in RatesOfAddress,
           NEW d \in RelDims \ {"qps"}, c[d] = 0
    PROVE  RawScores(c, b, ip)[d] = 0 /\ Relative(c, b, ip)[d] = 0
PROOF
<1>1. c.total \in Nat /\ b.p95[d] \in Nat /\ Tolerance(b, ip) \in Nat
  BY ToleranceType DEF CountsOfWindow, BaselineOfWindow
<1>2. \A k \in Nat \ {0} : 0 \div k = 0
  <2> SUFFICES ASSUME NEW k \in Nat \ {0} PROVE 0 \div k = 0
    OBVIOUS
  <2> DEFINE q == 0 \div k
  <2>1. q \in Nat /\ q <= q /\ q \in Int
    BY DivKeepsOrder
  <2>2. k * q <= 0
    OBVIOUS
  <2>3. q >= 1 => k * q >= k
    BY <2>1
  <2> HIDE DEF q
  <2>4. q = 0
    BY <2>1, <2>2, <2>3
  <2> QED BY <2>4 DEF q
<1>3. Ratio(c[d], c.total) = 0
  BY <1>1, <1>2 DEF Ratio
<1>4. Deviations(c, b, ip)[d] = 0
  BY <1>1, <1>2, <1>3 DEF Deviations, Deviation, Least
<1>5. RawScores(c, b, ip)[d] = 0
  BY <1>1, <1>4 DEF RawScores, DeviationToScore, Least
<1>6. Least(0, RelCap) = 0
  BY RelCapType DEF Least
<1>7. \A l, o \in BOOLEAN : Mitigated(0, l, o) = 0
  BY <1>2 DEF Mitigated
<1>8. IsUser(c, b, ip) \in BOOLEAN /\ IsOnePage(c, b, ip) \in BOOLEAN
  BY DEF IsUser, LegitimateUser, IsOnePage, Concentrated4xx
<1>9. CASE d = "emptyRef"
  <2>1. \A k \in Nat : Least(0, k) = 0
    BY DEF Least
  <2>2. EmptyReferer(0, c, Deviations(c, b, ip), Tolerance(b, ip)) = 0
    BY <1>2, <2>1, RelCapType DEF EmptyReferer
  <2> QED BY <1>5, <1>9, <2>2, RelativeIs
<1>10. CASE d \in {"status4xx", "status404"}
  BY <1>5, <1>6, <1>7, <1>8, <1>10, RelativeIs
<1>11. CASE d \notin {"qps", "emptyRef", "status4xx", "status404"}
  BY <1>5, <1>6, <1>11, RelativeIs
<1> QED BY <1>5, <1>9, <1>10, <1>11

LEMMA BonusType ==
    ASSUME NEW c \in CountsOfWindow, c.emptyRef <= c.total, NEW l \in BOOLEAN
    PROVE  /\ Bonus(c, l) \in Nat
           /\ l /\ c.staticRes > 0 /\ c.emptyRef = 0 /\ c.total >= 5 => Bonus(c, l) >= 12
PROOF
<1> DEFINE probes == IF PureBrowser(c) /\ c.botUA = 0 /\ c.staticRes > 0
                     THEN c.status404 \div 2 ELSE 0
           base == c.staticRes * 3 + (c.total - c.emptyRef) + probes
<1>1. /\ c.status404 \in Nat /\ c.staticRes \in Nat /\ c.total \in Nat /\ c.emptyRef \in Nat
  BY DEF CountsOfWindow
<1>2. probes \in Nat
  BY <1>1
<1> HIDE DEF probes
<1>3. /\ base \in Nat
      /\ c.staticRes > 0 /\ c.emptyRef = 0 /\ c.total >= 5 => base >= 8
  BY <1>1, <1>2
<1>4. Bonus(c, l) = IF l /\ base > 0 THEN (base * 15) \div 10 ELSE base
  BY DEF Bonus, probes
<1> HIDE DEF base
<1> QED BY <1>3, <1>4

\* A score below ScoreHigh in every window is one below it.
LEMMA NotHigh ==
    ASSUME NEW cs \in [1..3 -> CountsOfWindow], NEW bs \in ThreeBaselines,
           NEW ip \in RatesOfAddress,
           ScoreHigh > 0 => \A i \in 1..3 : WindowScore(cs[i], bs[i], ip) < ScoreHigh
    PROVE  ~IsHigh(FinalScore(cs, bs, ip))
PROOF
<1> DEFINE w == Scores(cs, bs, ip)
           m == Max(OrNone(w))
<1> SUFFICES ASSUME ScoreHigh > 0 PROVE ~(FinalScore(cs, bs, ip) >= ScoreHigh)
  BY DEF IsHigh
<1>1. \A i \in 1..3 : WindowScore(cs[i], bs[i], ip) \in Int
  BY WindowScoreGrows, WorseItself DEF ThreeBaselines
<1>2. \A i \in 1..3 : w[i] \in Int /\ w[i] < ScoreHigh
  BY <1>1 DEF Scores
<1>3. Best(cs, bs, ip) = Least(m, 2 * ScoreHigh)
  BY DEF Best
<1> HIDE DEF w
<1>4. m \in OrNone(w) /\ m \in Nat
  BY <1>2, HighestIs
<1> HIDE DEF m
<1>5. ScoreHigh \in Nat
  BY ScorerAssumption DEF ScorerAssumption
<1>6. m < ScoreHigh
  BY <1>2, <1>4, <1>5 DEF OrNone
<1>7. Best(cs, bs, ip) \in Nat /\ Best(cs, bs, ip) < ScoreHigh
  BY <1>3, <1>4, <1>5, <1>6 DEF Least
<1> QED BY <1>5, <1>7, FinalScoreIs

\* A window whose relative scores add up to less than ScoreHigh, after what is given
\* back, and that has no absolute one.
LEMMA WindowNotHigh ==
    ASSUME NEW c \in CountsOfWindow, NEW b \in BaselineOfWindow, NEW ip \in RatesOfAddress,
           c.emptyRef <= c.total, AbsoluteScore(c) = 0, NEW sum \in Nat,
           Total(ActiveScores(c, b, ip), RelDims) <= sum,
           sum < ScoreHigh + Bonus(c, IsUser(c, b, ip))
    PROVE  WindowScore(c, b, ip) < ScoreHigh
PROOF
<1> DEFINE a == ActiveScores(c, b, ip)
           t == Total(a, RelDims)
           p == Bonus(c, IsUser(c, b, ip))
<1>1. IsUser(c, b, ip) \in BOOLEAN
  BY DEF IsUser, LegitimateUser
<1>2. p \in Nat
  BY <1>1, BonusType
<1>3. \A d \in RelDims : a[d] \in Nat
  BY ActiveGrows, WorseItself
<1>4. t \in Nat
  BY <1>3, RelDimsFinite, TotalType
<1>5. Capped(a, 0) = IF Cardinality(ActiveDims(a)) <= 1 THEN Least(t, ScoreMedium) ELSE t
  BY CappedIs
<1>6. /\ WindowScore(c, b, ip) = IF Inactive(c, b) /\ 0 < ScoreMedium
                                 THEN Least(Capped(a, 0) + 0 - p, ScoreMedium)
                                 ELSE Capped(a, 0) + 0 - p
  BY WindowScoreIs
<1>7. t <= sum /\ sum < ScoreHigh + p
  OBVIOUS
<1> HIDE DEF a, t, p
<1>8. ScoreHigh \in Nat /\ ScoreMedium \in Nat
  BY ScorerAssumption DEF ScorerAssumption
<1>9. Capped(a, 0) \in Nat /\ Capped(a, 0) <= t
  BY <1>4, <1>5, <1>8 DEF Least
<1> QED BY <1>2, <1>4, <1>6, <1>7, <1>8, <1>9 DEF Least

LEMMA ActiveIsRelative ==
    ASSUME NEW c \in CountsOfWindow, NEW b \in BaselineOfWindow, NEW ip \in RatesOfAddress,
           NEW d \in RelDims
    PROVE  /\ Relative(c, b, ip)[d] \in Nat /\ ActiveScores(c, b, ip)[d] \in Nat
           /\ ActiveScores(c, b, ip)[d] <= Relative(c, b, ip)[d]
           /\ c.total < 5 /\ d # "emptyRef" => ActiveScores(c, b, ip)[d] = 0
PROOF
<1>1. Relative(c, b, ip)[d] \in Nat /\ ActiveScores(c, b, ip)[d] \in Nat
  BY RelativeGrows, ActiveGrows, WorseItself
<1>2. ActiveScores(c, b, ip)[d] <= Relative(c, b, ip)[d]
  BY <1>1 DEF ActiveScores
<1>3. ASSUME c.total < 5, d # "emptyRef" PROVE Relative(c, b, ip)[d] = 0
  <2>1. c.total \in Nat
    BY DEF CountsOfWindow
  <2>2. RawScores(c, b, ip)[d] = 0
    BY <1>3, <2>1 DEF RawScores
  <2>3. Least(0, RelCap) = 0
    BY RelCapType DEF Least
  <2>4. \A l, o \in BOOLEAN : Mitigated(0, l, o) = 0
    BY DEF Mitigated
  <2>5. QpsMitigated(0, c, b) = 0
    <3>1. b.confidence \in Nat
      BY DEF BaselineOfWindow
    <3> QED BY <3>1 DEF QpsMitigated
  <2>6. IsUser(c, b, ip) \in BOOLEAN /\ IsOnePage(c, b, ip) \in BOOLEAN
    BY DEF IsUser, LegitimateUser, IsOnePage, Concentrated4xx
  <2> QED BY <1>3, <2>2, <2>3, <2>4, <2>5, <2>6, RelativeIs
<1> QED BY <1>1, <1>2, <1>3

LEMMA RelativeBound ==
    ASSUME NEW c \in CountsOfWindow, NEW b \in BaselineOfWindow, NEW ip \in RatesOfAddress
    PROVE  /\ Relative(c, b, ip)["qps"] <= RelCap
           /\ c.status404 = 0 => Relative(c, b, ip)["emptyRef"] <= ScoreHigh \div 4
PROOF
<1>1. \A x \in Nat : Least(x, RelCap) <= RelCap
  BY RelCapType DEF Least
<1>2. \A d \in RelDims : RawScores(c, b, ip)[d] \in Nat
  BY RawType
<1>3. "qps" \in RelDims /\ "emptyRef" \in RelDims
  BY DEF RelDims
<1>4. QpsMitigated(RawScores(c, b, ip)["qps"], c, b) \in Nat
  BY <1>2, <1>3, QpsGrows, WorseItself
<1>5. Relative(c, b, ip)["qps"] <= RelCap
  BY <1>1, <1>3, <1>4, RelativeIs
<1>6. ASSUME c.status404 = 0 PROVE Relative(c, b, ip)["emptyRef"] <= ScoreHigh \div 4
  <2> DEFINE s == RawScores(c, b, ip)["emptyRef"]
             p == EmptyReferer(s, c, Deviations(c, b, ip), Tolerance(b, ip))
  <2>1. s \in Nat /\ s \div 5 \in Nat
    BY <1>2, <1>3
  <2>2. Relative(c, b, ip)["emptyRef"] = p
    BY <1>3, RelativeIs
  <2>3. ~(c.status404 > 0)
    BY <1>6
  <2> HIDE DEF s
  <2>4. \E x \in {s, s \div 5} : p = Least(Least(x, ScoreHigh \div 4), RelCap)
    BY <2>3 DEF EmptyReferer
  <2> HIDE DEF p
  <2>5. \A x \in Nat : Least(Least(x, ScoreHigh \div 4), RelCap) <= ScoreHigh \div 4
    BY RelCapType DEF Least
  <2>6. p <= ScoreHigh \div 4
    BY <2>1, <2>4, <2>5
  <2> QED BY <2>2, <2>6
<1> QED BY <1>5, <1>6

\* Scorer.ScoreWithDetail: however fast an address asks, and without any Referer, requests
\* that fail in no way and match nothing do not make it a candidate for a block.
THEOREM SpeedAloneIsNotHigh ==
    ASSUME NEW cs \in [1..3 -> CountsOfWindow], NEW bs \in ThreeBaselines,
           NEW ip \in RatesOfAddress, Referred(cs)
    PROVE  SpikeAloneIsNotHigh(cs, bs, ip)
PROOF
<1> SUFFICES ASSUME \A i \in 1..3 : /\ \A d \in RelDims \ {"qps", "emptyRef"} : cs[i][d] = 0
                                    /\ AbsoluteScore(cs[i]) = 0
             PROVE  ~IsHigh(FinalScore(cs, bs, ip))
  BY DEF SpikeAloneIsNotHigh
<1> SUFFICES ASSUME ScoreHigh > 0, NEW i \in 1..3
             PROVE  WindowScore(cs[i], bs[i], ip) < ScoreHigh
  BY NotHigh
<1> DEFINE c == cs[i]
           b == bs[i]
           a == ActiveScores(c, b, ip)
           D == {"qps", "emptyRef", "head"}
<1>1. /\ c \in CountsOfWindow /\ b \in BaselineOfWindow /\ c.emptyRef <= c.total
      /\ AbsoluteScore(c) = 0 /\ \A d \in RelDims \ {"qps", "emptyRef"} : c[d] = 0
  BY DEF ThreeBaselines, Referred
<1> HIDE DEF c, b
<1>2. \A d \in RelDims : a[d] \in Nat /\ a[d] <= Relative(c, b, ip)[d]
                          /\ Relative(c, b, ip)[d] \in Nat
  BY <1>1, ActiveIsRelative
<1>3. \A d \in RelDims \ {"qps", "emptyRef"} : a[d] = 0
  BY <1>1, <1>2, NoHitNoScore
<1>4. Relative(c, b, ip)["qps"] <= RelCap /\ Relative(c, b, ip)["emptyRef"] <= ScoreHigh \div 4
  <2>1. c.status404 = 0
    BY <1>1 DEF RelDims
  <2> QED BY <1>1, <2>1, RelativeBound
<1> HIDE DEF a
<1>5. D \in SUBSET RelDims /\ \A d \in RelDims \ D : a[d] = 0
  BY <1>3 DEF RelDims
<1>6. /\ a["qps"] \in Nat /\ a["emptyRef"] \in Nat /\ a["head"] \in Nat /\ a["head"] = 0
      /\ a["qps"] <= RelCap /\ a["emptyRef"] <= ScoreHigh \div 4
  BY <1>2, <1>3, <1>4, RelCapType DEF RelDims
<1>7. Total(a, D) <= a["qps"] + a["emptyRef"] + a["head"] /\ Total(a, D) \in Nat
  BY <1>6, TotalOfThree
<1>8. Total(a, RelDims) = Total(a, D)
  BY <1>2, <1>5, RelDimsFinite, TotalWithoutZeros
<1> DEFINE sum == RelCap + ScoreHigh \div 4
<1>9. sum \in Nat /\ sum < ScoreHigh /\ ScoreHigh \in Nat
  BY RelCapType, ScorerAssumption DEF ScorerAssumption, RelCap
<1>10. Total(a, RelDims) <= sum
  BY <1>6, <1>7, <1>8, RelCapType
<1>11. IsUser(c, b, ip) \in BOOLEAN
  BY DEF IsUser, LegitimateUser
<1>12. Bonus(c, IsUser(c, b, ip)) \in Nat
  BY <1>1, <1>11, BonusType
<1> HIDE DEF sum
<1>13. sum < ScoreHigh + Bonus(c, IsUser(c, b, ip))
  BY <1>9, <1>12
<1> QED BY <1>1, <1>9, <1>10, <1>13, WindowNotHigh DEF a, b, c

\* The default is 50; a configuration that sets 20 or less leaves no room for what a user
\* still gets for speed and missing pages.
ScoreHighIsUsual == ScoreHigh > 20

LEMMA UserBound ==
    ASSUME NEW c \in CountsOfWindow, NEW b \in BaselineOfWindow, NEW ip \in RatesOfAddress,
           IsUser(c, b, ip), c.botUA = 0
    PROVE  /\ Relative(c, b, ip)["qps"] <= 50 /\ Relative(c, b, ip)["status4xx"] <= 10
           /\ Relative(c, b, ip)["status404"] <= 10
PROOF
<1>1. \A x \in Nat : Least(x, RelCap) <= x
  BY RelCapType DEF Least
<1>2. \A d \in RelDims : RawScores(c, b, ip)[d] \in Nat /\ RawScores(c, b, ip)[d] <= 100
  BY RawType
<1>3. "qps" \in RelDims /\ "status4xx" \in RelDims /\ "status404" \in RelDims
  BY DEF RelDims
<1>4. Relative(c, b, ip)["qps"] <= 50
  <2> DEFINE s == RawScores(c, b, ip)["qps"]
             p == QpsMitigated(s, c, b)
  <2>1. s \in Nat /\ s <= 100
    BY <1>2, <1>3
  <2>2. Relative(c, b, ip)["qps"] = Least(p, RelCap)
    BY <1>3, RelativeIs
  <2>3. ~ \E f \in {"danger", "botUA", "traversal", "method", "upload"} : c[f] > 0
    BY DEF IsUser, LegitimateUser, NoAttackFeature, NoFatalAttack
  <2>4. b.confidence \in Nat
    BY DEF BaselineOfWindow
  <2> HIDE DEF s
  <2>5. p \in {(s * 5) \div 10, (s * 3) \div 10}
    BY <2>3, <2>4 DEF QpsMitigated
  <2> HIDE DEF p
  <2>6. p \in Nat /\ p <= 50
    BY <2>1, <2>5
  <2> QED BY <1>1, <2>2, <2>6, RelCapType DEF Least
<1>5. ASSUME NEW d \in {"status4xx", "status404"}
      PROVE  Relative(c, b, ip)[d] <= 10
  <2> DEFINE s == RawScores(c, b, ip)[d]
             o == IF d = "status4xx" THEN IsOnePage(c, b, ip) ELSE FALSE
             p == Mitigated(s, IsUser(c, b, ip), o)
  <2>1. s \in Nat /\ s <= 100
    BY <1>2, <1>3
  <2>2. Relative(c, b, ip)[d] = Least(p, RelCap)
    BY <1>3, RelativeIs
  <2>3. o \in BOOLEAN /\ IsUser(c, b, ip) = TRUE
    BY DEF IsOnePage, Concentrated4xx, IsUser, LegitimateUser
  <2> HIDE DEF s, o
  <2>4. p \in Nat /\ p <= s \div 10
    BY <2>1, <2>3, MitigatedGrows
  <2> HIDE DEF p
  <2>5. p <= 10
    BY <2>1, <2>4
  <2> QED BY <2>2, <2>4, <2>5, RelCapType DEF Least
<1> QED BY <1>4, <1>5

\* Scorer.ScoreWithDetail: a browser that loads the page's files, names the pages it comes
\* from and has no hit of an attack is no candidate, whatever pages are missing.
THEOREM UsersAreNotHigh ==
    ASSUME ScoreHighIsUsual, NEW cs \in [1..3 -> CountsOfWindow], NEW bs \in ThreeBaselines,
           NEW ip \in RatesOfAddress
    PROVE  UserIsNotHigh(cs, bs, ip)
PROOF
<1> SUFFICES ASSUME \A i \in 1..3 :
                       /\ cs[i].staticRes > 0
                       /\ \A d \in RelDims \ {"qps", "status4xx", "status404"} : cs[i][d] = 0
                       /\ IsUser(cs[i], bs[i], ip)
             PROVE  ~IsHigh(FinalScore(cs, bs, ip))
  BY DEF UserIsNotHigh, IsUser
<1> SUFFICES ASSUME NEW i \in 1..3 PROVE WindowScore(cs[i], bs[i], ip) < ScoreHigh
  BY NotHigh
<1> DEFINE c == cs[i]
           b == bs[i]
           a == ActiveScores(c, b, ip)
           D == {"qps", "status4xx", "status404"}
<1>1. /\ c \in CountsOfWindow /\ b \in BaselineOfWindow /\ c.staticRes > 0 /\ IsUser(c, b, ip)
      /\ \A d \in RelDims \ D : c[d] = 0
  BY DEF ThreeBaselines
<1> HIDE DEF c, b
<1>2. c.botUA = 0 /\ c.emptyRef = 0 /\ c.total \in Nat /\ c.emptyRef <= c.total
  BY <1>1 DEF RelDims, CountsOfWindow
<1>3. AbsoluteScore(c) = 0
  <2>1. c.danger = 0 /\ c.traversal = 0 /\ c.method = 0 /\ c.upload = 0
    BY <1>1 DEF IsUser, LegitimateUser, NoAttackFeature, NoFatalAttack
  <2>2. /\ Weights.danger \in Nat /\ Weights.method \in Nat /\ Weights.upload \in Nat
        /\ ScoreHigh \in Nat
    BY ScorerAssumption DEF ScorerAssumption
  <2>3. \A k \in Nat : 0 * k = 0 /\ Least(0, k) = 0
    BY DEF Least
  <2>4. Absolute(c).danger = 0 /\ Absolute(c).traversal = 0
        /\ Absolute(c).method = 0 /\ Absolute(c).upload = 0
    BY <2>1, <2>2, <2>3, RelCapType DEF Absolute
  <2> QED BY <2>4 DEF AbsoluteScore
<1>4. \A d \in RelDims : a[d] \in Nat /\ a[d] <= Relative(c, b, ip)[d]
                          /\ Relative(c, b, ip)[d] \in Nat
                          /\ (c.total < 5 /\ d # "emptyRef" => a[d] = 0)
  BY <1>1, ActiveIsRelative
<1>5. \A d \in RelDims \ D : a[d] = 0
  BY <1>1, <1>4, NoHitNoScore
<1>6. /\ Relative(c, b, ip)["qps"] <= 50 /\ Relative(c, b, ip)["status4xx"] <= 10
      /\ Relative(c, b, ip)["status404"] <= 10 /\ Relative(c, b, ip)["qps"] <= RelCap
  BY <1>1, <1>2, UserBound, RelativeBound
<1> HIDE DEF a
<1>7. D \in SUBSET RelDims
  BY DEF RelDims
<1>8. /\ a["qps"] \in Nat /\ a["status4xx"] \in Nat /\ a["status404"] \in Nat
      /\ a["qps"] <= RelCap /\ a["status4xx"] <= 10 /\ a["status404"] <= 10
      /\ (c.total < 5 => a["qps"] = 0 /\ a["status4xx"] = 0 /\ a["status404"] = 0)
  BY <1>4, <1>6, RelCapType DEF RelDims
<1>9. /\ Total(a, D) \in Nat
      /\ Total(a, D) <= a["qps"] + a["status4xx"] + a["status404"]
  BY <1>8, TotalOfThree
<1>10. Total(a, RelDims) = Total(a, D)
  BY <1>4, <1>5, <1>7, RelDimsFinite, TotalWithoutZeros
<1> DEFINE sum == IF c.total < 5 THEN 0 ELSE RelCap + 20
           p == Bonus(c, IsUser(c, b, ip))
<1>11. sum \in Nat /\ Total(a, RelDims) <= sum
  BY <1>8, <1>9, <1>10, RelCapType
<1>12. IsUser(c, b, ip) \in BOOLEAN
  BY DEF IsUser, LegitimateUser
<1>13. p \in Nat /\ (c.total >= 5 => p >= 12)
  BY <1>1, <1>2, <1>12, BonusType
<1>14. ScoreHigh \in Nat /\ ScoreHigh > 20 /\ RelCap + 8 < ScoreHigh
  BY ScorerAssumption DEF ScorerAssumption, ScoreHighIsUsual, RelCap
<1> HIDE DEF p
<1>15. sum < ScoreHigh + p
  BY <1>2, <1>13, <1>14, RelCapType
<1> HIDE DEF sum
<1> QED BY <1>1, <1>2, <1>3, <1>11, <1>15, WindowNotHigh DEF a, b, c, p

-----------------------------------------------------------------------------
(* The scores, as the detector asks for them. *)

\* Every call is one of those that the code makes.
LEMMA EveryCall == CallSpec => [](call \in Inputs)
PROOF
<1>1. CallInit => call \in Inputs
  BY DEF CallInit
<1>2. call \in Inputs /\ [CallNext]_call => (call \in Inputs)'
  BY DEF CallNext
<1> QED BY <1>1, <1>2, PTL DEF CallSpec

LEMMA CalledScores == ScoreHighIsUsual /\ call \in Inputs => ScoresAreFair
PROOF
<1> SUFFICES ASSUME ScoreHighIsUsual, call \in Inputs PROVE ScoresAreFair
  OBVIOUS
<1>1. IsCall(call)
  BY CallsAssumption
<1>2. call.f = "Score" => /\ call.cs \in [1..3 -> CountsOfWindow] /\ Referred(call.cs)
                          /\ call.bs \in ThreeBaselines /\ call.ip \in RatesOfAddress
  BY <1>1 DEF IsCall
<1>3. AttackScores
  BY <1>2, AttacksNeverHelp DEF AttackScores
<1>4. SpikeScores
  BY <1>2, SpeedAloneIsNotHigh DEF SpikeScores
<1>5. UserScores
  BY <1>2, UsersAreNotHigh DEF UserScores
<1> QED BY <1>3, <1>4, <1>5 DEF ScoresAreFair

\* Scorer.ScoreWithDetail, however it is called: an attack, a spike and a user's missing
\* pages each get the score they should, whatever the other counts are.
THEOREM EveryScoreFair == ScoreHighIsUsual /\ CallSpec => []ScoresAreFair
PROOF
<1> SUFFICES ASSUME ScoreHighIsUsual PROVE CallSpec => []ScoresAreFair
  OBVIOUS
<1>1. call \in Inputs => ScoresAreFair
  BY CalledScores
<1> QED BY <1>1, EveryCall, PTL
=============================================================================
