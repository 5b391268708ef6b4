----------------------------- MODULE WriterProofs ------------------------------
(***************************************************************************)
(* The writer, the registry and the tokens of a turn, proved for any       *)
(* sessions, log, queue, window, fingerprint and clock: which signals the  *)
(* registry keeps, what a lost hook may be behind, that a stop lasts, that *)
(* no offset stands past a turn that was not stored, and that the live     *)
(* registry is what the batch accounting makes of the log.                 *)
(*                                                                         *)
(* Three things carry the last: mates, events that one sum orders, are     *)
(* appended in the order of their instants (Timely); an event appended     *)
(* last adds one window to a sum, the one the registry credits             *)
(* (ObserveMatches); and a replay in that order is such appends one after  *)
(* the other.                                                              *)
(***************************************************************************)
EXTENDS Writer, TokenCapture, SumTheorems, FiniteSetTheorems, TLAPS

--------------------------------------------------------------------------------
(* The lemmas: greatest numbers, rows, and what one fold does.             *)

LEMMA Greatest == ASSUME NEW S \in SUBSET Nat, S # {}, NEW b \in Nat, \A n \in S : n <= b
  PROVE Max(S) \in S /\ \A n \in S : n <= Max(S)
<1> DEFINE U == {u \in Nat : \A n \in S : n <= u}
<1>1. PICK u \in U : \A v \in U : u <= v
  <2>1. b \in U /\ U \in SUBSET Nat
    OBVIOUS
  <2> HIDE DEF U
  <2> QED BY <2>1, Smallest
<1>2. u \in S
  <2>1. ASSUME u \notin S PROVE FALSE
    <3>1. PICK n \in S : TRUE
      OBVIOUS
    <3>2. u > 0
      BY <1>1, <2>1, <3>1
    <3>3. u - 1 \in U
      BY <1>1, <2>1, <3>2
    <3> QED BY <1>1, <3>2, <3>3
  <2> QED BY <2>1
<1>3. \A n \in S : u >= n
  BY <1>1
<1>4. Max(S) \in S /\ \A n \in S : Max(S) >= n
  BY <1>2, <1>3 DEF Max
<1> QED BY <1>4

--------------------------------------------------------------------------------
(* The registry's fold. *)

ManualKinds == {"mstart", "mtick", "mstop"}
Events == [id : Nat, session : Agents, kind : HookKinds, at : Int]
            \cup [id : Nat, session : Manuals, kind : ManualKinds, at : Int]
Lives == [started : Int, last : Int, opens : BOOLEAN, active : Nat, engaged : Nat,
          signal : BOOLEAN, ended : BOOLEAN]
Openers == [at : Int, session : Sessions \cup {NoOne}]
IsRegistry(l, o) == l \in [DOMAIN l -> Lives] /\ DOMAIN l \subseteq Sessions /\ o \in Openers

LEMMA GapIsNat == ASSUME NEW g \in Int, NEW b \in BOOLEAN PROVE GapSeconds(g, b) \in Nat
<1>1. MaxSpan \in Nat /\ AgentIdle \in Nat
  BY WriterConfig
<1> QED BY <1>1 DEF GapSeconds

\* One event touches its own session: it is there afterwards, with the event's
\* signal added and its end decided by the event alone.
LEMMA TouchFolds ==
  ASSUME NEW l, l \in [DOMAIN l -> Lives], DOMAIN l \subseteq Sessions, NEW ev \in Events
  PROVE  LET t == Touch(l, ev) IN
         /\ t \in [DOMAIN l \cup {ev.session} -> Lives]
         /\ \A s \in DOMAIN l \ {ev.session} : t[s] = l[s]
         /\ t[ev.session].ended <=> Terminal(ev.kind)
         /\ Signal(ev.kind) => t[ev.session].signal
         /\ ev.session \in DOMAIN l /\ l[ev.session].signal => t[ev.session].signal
<1> DEFINE e      == IF ev.session \in DOMAIN l THEN l[ev.session] ELSE Fresh(ev)
           earned == e.active + GapSeconds(ev.at - e.last, e.opens)
           opens  == ev.kind = "pre"
           signal == e.signal \/ Signal(ev.kind)
           ended  == Terminal(ev.kind)
           n == [e EXCEPT !.active = earned, !.last = ev.at, !.opens = opens,
                          !.signal = signal, !.ended = ended]
<1>1. ev.at \in Int /\ ev.session \in Sessions
  BY DEF Events, Sessions
<1>2. e \in Lives
  BY <1>1 DEF Fresh, Lives
<1>3. earned \in Nat
  <2>1. ev.at - e.last \in Int /\ e.opens \in BOOLEAN /\ e.active \in Nat
    BY <1>1, <1>2 DEF Lives
  <2>2. GapSeconds(ev.at - e.last, e.opens) \in Nat
    BY <2>1, GapIsNat
  <2> QED BY <2>1, <2>2
<1>4. opens \in BOOLEAN /\ signal \in BOOLEAN /\ ended \in BOOLEAN
  BY DEF Terminal
<1>5. Touch(l, ev) = Put(l, ev.session, n)
  BY DEF Touch
<1>6. Signal(ev.kind) \/ e.signal => signal
  OBVIOUS
<1>7. ev.session \in DOMAIN l => e = l[ev.session]
  OBVIOUS
<1>a. ended <=> Terminal(ev.kind)
  OBVIOUS
<1> HIDE DEF e, earned, opens, signal, ended
<1>8. n \in Lives /\ n.ended = ended /\ n.signal = signal
  BY <1>1, <1>2, <1>3, <1>4 DEF Lives
<1> HIDE DEF n
<1>9. /\ Put(l, ev.session, n) \in [DOMAIN l \cup {ev.session} -> Lives]
      /\ Put(l, ev.session, n)[ev.session] = n
      /\ \A s \in DOMAIN l \ {ev.session} : Put(l, ev.session, n)[s] = l[s]
  BY <1>8 DEF Put
<1> QED BY <1>5, <1>6, <1>7, <1>8, <1>9, <1>a

\* A credit changes no more than the engaged time of one session.
LEMMA CreditFolds ==
  ASSUME NEW l, l \in [DOMAIN l -> Lives], NEW o \in Openers, NEW ev \in Events
  PROVE  LET c == Credit(l, o, ev) IN
         /\ c \in [DOMAIN l -> Lives]
         /\ \A s \in DOMAIN l : c[s].signal = l[s].signal /\ c[s].ended = l[s].ended
<1>1. ev.at \in Int /\ o.at \in Int
  BY DEF Events, Sessions, Openers
<1>2. CASE Credit(l, o, ev) = l
  BY <1>2
<1>3. CASE Credit(l, o, ev) # l
  <2> DEFINE gap == ev.at - o.at
             n   == [l[o.session] EXCEPT !.engaged = @ + gap]
  <2>1. /\ o.session \in DOMAIN l /\ gap > 0
        /\ Credit(l, o, ev) = [l EXCEPT ![o.session].engaged = @ + gap]
    BY <1>3 DEF Credit
  <2>2. n \in Lives /\ n.signal = l[o.session].signal /\ n.ended = l[o.session].ended
    BY <1>1, <2>1 DEF Lives
  <2>3. Credit(l, o, ev) = [l EXCEPT ![o.session] = n]
    BY <2>1
  <2> HIDE DEF n
  <2> QED BY <2>1, <2>2, <2>3
<1> QED BY <1>2, <1>3

LEMMA ObserveFolds ==
  ASSUME NEW r, IsRegistry(r.live, r.opener), NEW ev \in Events
  PROVE  LET n == Observe(r, ev) IN
         /\ IsRegistry(n.live, n.opener)
         /\ DOMAIN n.live = DOMAIN r.live \cup {ev.session}
         /\ \A s \in DOMAIN r.live :
              /\ r.live[s].signal => n.live[s].signal
              /\ s # ev.session => n.live[s].ended = r.live[s].ended
         /\ Signal(ev.kind) => n.live[ev.session].signal
         /\ n.live[ev.session].ended <=> Terminal(ev.kind)
<1> DEFINE t == Touch(r.live, ev)
           c == Credit(t, r.opener, ev)
           n == Observe(r, ev)
<1>1. ev.session \in Sessions /\ ev.at \in Int
  BY DEF Events, Sessions
<1>2. /\ t \in [DOMAIN r.live \cup {ev.session} -> Lives]
      /\ \A s \in DOMAIN r.live \ {ev.session} : t[s] = r.live[s]
      /\ t[ev.session].ended <=> Terminal(ev.kind)
      /\ Signal(ev.kind) => t[ev.session].signal
      /\ ev.session \in DOMAIN r.live /\ r.live[ev.session].signal => t[ev.session].signal
  BY TouchFolds DEF IsRegistry
<1>3. /\ n.live = c
      /\ n.opener = IF Human(ev.kind) THEN [at |-> ev.at, session |-> ev.session] ELSE r.opener
  BY DEF Observe
<1> HIDE DEF t
<1>4. DOMAIN t = DOMAIN r.live \cup {ev.session} /\ t \in [DOMAIN t -> Lives]
  BY <1>2
<1>5. c \in [DOMAIN t -> Lives]
      /\ \A s \in DOMAIN t : c[s].signal = t[s].signal /\ c[s].ended = t[s].ended
  BY <1>4, CreditFolds DEF IsRegistry
<1>6. n.opener \in Openers
  BY <1>1, <1>3 DEF IsRegistry, Openers
<1> HIDE DEF c, n
<1>7. IsRegistry(n.live, n.opener) /\ DOMAIN n.live = DOMAIN r.live \cup {ev.session}
  BY <1>1, <1>3, <1>4, <1>5, <1>6 DEF IsRegistry
<1> QED BY <1>2, <1>3, <1>4, <1>5, <1>7 DEF n

--------------------------------------------------------------------------------
(* The replay: a recursive function, so that it has to be shown to exist.  *)

FirstFold == [live |-> live, opener |-> opener]
IsReplayed(g, n) ==
  /\ g = [i \in 0 .. n |-> g[i]]
  /\ g[0] = FirstFold
  /\ \A i \in 1 .. n : g[i] = Observe(g[i - 1], replay[i])

LEMMA PrefixIsReplayed == ASSUME NEW n \in Nat PROVE \E g : IsReplayed(g, n)
<1> DEFINE Bad == {m \in Nat : ~ \E g : IsReplayed(g, m)}
<1>1. ASSUME Bad # {} PROVE FALSE
  <2>1. PICK m \in Bad : \A k \in Bad : m <= k
    BY <1>1, Smallest
  <2>2. CASE m = 0
    <3>1. IsReplayed([i \in 0 .. 0 |-> FirstFold], 0)
      BY DEF IsReplayed
    <3> QED BY <2>1, <2>2, <3>1
  <2>3. CASE m # 0
    <3>1. m - 1 \in Nat /\ m - 1 \notin Bad
      BY <2>1, <2>3
    <3>2. PICK g : IsReplayed(g, m - 1)
      BY <3>1
    <3> DEFINE h == [i \in 0 .. m |-> IF i = m THEN Observe(g[m - 1], replay[m]) ELSE g[i]]
    <3>3. h[0] = FirstFold
      BY <2>3, <3>2 DEF IsReplayed
    <3>4. \A i \in 1 .. m : h[i] = Observe(h[i - 1], replay[i])
      <4>1. \A i \in 1 .. m - 1 : h[i] = g[i] /\ h[i - 1] = g[i - 1]
        BY <2>1
      <4>2. h[m] = Observe(g[m - 1], replay[m]) /\ h[m - 1] = g[m - 1]
        BY <2>1, <2>3, <3>1
      <4> HIDE DEF h
      <4>3. \A i \in 1 .. m - 1 : h[i] = Observe(h[i - 1], replay[i])
        BY <3>2, <4>1 DEF IsReplayed
      <4>4. \A i \in 1 .. m : i = m \/ i \in 1 .. m - 1
        BY <2>1
      <4> QED BY <4>2, <4>3, <4>4
    <3>5. h = [i \in 0 .. m |-> h[i]]
      OBVIOUS
    <3> HIDE DEF h
    <3>6. IsReplayed(h, m)
      BY <3>3, <3>4, <3>5 DEF IsReplayed
    <3> QED BY <2>1, <3>6
  <2> QED BY <2>2, <2>3
<1> QED BY <1>1

LEMMA ReplayedFolds ==
  ASSUME Len(replay) \in Nat
  PROVE  /\ replayed[0] = FirstFold
         /\ \A i \in 1 .. Len(replay) : replayed[i] = Observe(replayed[i - 1], replay[i])
<1> DEFINE Step(g) == [i \in 0 .. Len(replay) |->
                         IF i = 0 THEN FirstFold ELSE Observe(g[i - 1], replay[i])]
<1>1. replayed = CHOOSE g : g = Step(g)
  BY Zenon DEF replayed, FirstFold
<1>2. \E g : g = Step(g)
  <2>1. PICK g : IsReplayed(g, Len(replay))
    BY PrefixIsReplayed
  <2>2. \A i \in 0 .. Len(replay) : g[i] = Step(g)[i]
    <3>1. \A i \in 0 .. Len(replay) : i = 0 \/ i \in 1 .. Len(replay)
      OBVIOUS
    <3> QED BY <2>1, <3>1 DEF IsReplayed
  <2>3. g = Step(g)
    BY <2>1, <2>2 DEF IsReplayed
  <2> QED BY <2>3
<1>3. replayed = Step(replayed)
  <2> HIDE DEF Step
  <2> QED BY <1>1, <1>2
<1> QED BY <1>3

\* The j-th replayed event is the last of s among n, and ended it or not.
EndedBy(l, s, j, n) ==
  /\ replay[j].session = s /\ \A k \in 1 .. n : j < k => replay[k].session # s
  /\ l[s].ended <=> Terminal(replay[j].kind)

\* Whatever is replayed over a registry leaves a registry: with the sessions it
\* had and the replayed ones, each ended or not by its last event, and a signal
\* wherever one was replayed.
LEMMA ReplayKeeps ==
  ASSUME replay \in Seq(Events), IsRegistry(live, opener)
  PROVE  LET r == replayed[Len(replay)] IN
         /\ IsRegistry(r.live, r.opener)
         /\ \A s \in DOMAIN r.live :
              s \in DOMAIN live \/ \E j \in 1 .. Len(replay) : EndedBy(r.live, s, j, Len(replay))
         /\ \A j \in 1 .. Len(replay) : Signal(replay[j].kind) =>
              replay[j].session \in DOMAIN r.live /\ r.live[replay[j].session].signal
<1> DEFINE Good(i) ==
      /\ IsRegistry(replayed[i].live, replayed[i].opener)
      /\ \A s \in DOMAIN replayed[i].live :
           s \in DOMAIN live \/ \E j \in 1 .. i : EndedBy(replayed[i].live, s, j, i)
      /\ \A j \in 1 .. i : Signal(replay[j].kind) =>
           /\ replay[j].session \in DOMAIN replayed[i].live
           /\ replayed[i].live[replay[j].session].signal
<1>1. Len(replay) \in Nat /\ \A j \in 1 .. Len(replay) : replay[j] \in Events
  OBVIOUS
<1>2. /\ replayed[0] = FirstFold
      /\ \A i \in 1 .. Len(replay) : replayed[i] = Observe(replayed[i - 1], replay[i])
  BY <1>1, ReplayedFolds
<1>3. Good(0)
  BY <1>2 DEF FirstFold
<1>4. ASSUME NEW i \in 1 .. Len(replay), Good(i - 1) PROVE Good(i)
  <2> DEFINE r == replayed[i - 1]
             n == replayed[i]
             ev == replay[i]
  <2>1. ev \in Events /\ n = Observe(r, ev) /\ IsRegistry(r.live, r.opener)
    BY <1>1, <1>2, <1>4
  <2> HIDE DEF r, n, ev
  <2>2. /\ IsRegistry(n.live, n.opener)
        /\ DOMAIN n.live = DOMAIN r.live \cup {ev.session}
        /\ \A s \in DOMAIN r.live :
             /\ r.live[s].signal => n.live[s].signal
             /\ s # ev.session => n.live[s].ended = r.live[s].ended
        /\ Signal(ev.kind) => n.live[ev.session].signal
        /\ n.live[ev.session].ended <=> Terminal(ev.kind)
    BY <2>1, ObserveFolds
  <2> USE DEF r, n, ev
  <2>3. \A j \in 1 .. i : j = i \/ j \in 1 .. i - 1
    BY <1>1
  <2>4. ASSUME NEW s \in DOMAIN n.live, s \notin DOMAIN live
        PROVE  \E j \in 1 .. i : EndedBy(n.live, s, j, i)
    <3>1. i \in 1 .. i /\ 1 .. i - 1 \subseteq 1 .. i /\ \A k \in 1 .. i : ~(i < k)
      BY <1>1
    <3>2. CASE s = ev.session
      <4>1. EndedBy(n.live, s, i, i)
        BY <2>2, <3>1, <3>2 DEF EndedBy
      <4> QED BY <3>1, <4>1
    <3>3. CASE s # ev.session
      <4>1. PICK j \in 1 .. i - 1 : EndedBy(r.live, s, j, i - 1)
        BY <1>4, <2>2, <2>4, <3>3
      <4>2. EndedBy(n.live, s, j, i)
        BY <2>2, <2>3, <2>4, <3>3, <4>1 DEF EndedBy
      <4> QED BY <3>1, <4>1, <4>2
    <3> QED BY <3>2, <3>3
  <2>5. \A j \in 1 .. i : Signal(replay[j].kind) =>
          replay[j].session \in DOMAIN n.live /\ n.live[replay[j].session].signal
    BY <1>4, <2>2, <2>3
  <2> QED BY <2>2, <2>4, <2>5
<1>5. \A i \in 0 .. Len(replay) : Good(i)
  <2> DEFINE Bad == {i \in 0 .. Len(replay) : ~Good(i)}
  <2>1. ASSUME Bad # {} PROVE FALSE
    <3>1. PICK m \in Bad : \A k \in Bad : m <= k
      <4>1. Bad \in SUBSET Nat
        BY <1>1
      <4> HIDE DEF Bad
      <4> QED BY <4>1, <2>1, Smallest
    <3>2. m # 0 /\ m \in 1 .. Len(replay)
      BY <1>1, <1>3, <3>1
    <3>3. m - 1 \in 0 .. Len(replay) /\ m - 1 \notin Bad
      BY <1>1, <3>1, <3>2
    <3> HIDE DEF Good
    <3>4. Good(m - 1)
      BY <3>3
    <3> QED BY <1>4, <3>1, <3>2, <3>4
  <2> QED BY <2>1
<1>6. Good(Len(replay))
  <2> HIDE DEF Good
  <2> QED BY <1>1, <1>5
<1> QED BY <1>6

--------------------------------------------------------------------------------
(* Types *)

Typed ==
  /\ clock \in 1 .. MaxClock /\ made \in 0 .. MaxEvents
  /\ queue \in Seq(Events) /\ Len(queue) <= QueueCap
  /\ outbox \in [{"control", "ticker"} -> Seq(Events)]
  /\ hand \in Events \cup {None}
  /\ log \in [DOMAIN log -> Events] /\ \E b \in Nat : DOMAIN log \subseteq 1 .. b
  /\ IsRegistry(live, opener)
  /\ marks \in [DOMAIN marks -> Int] /\ DOMAIN marks \subseteq Agents
  /\ booted \in {"reading", "replay", "done"} /\ replay \in Seq(Events)
  /\ stored \subseteq Events /\ wiped \subseteq Events /\ dropped \subseteq Events

LEMMA NoneIsNoEvent == None \notin Events /\ None.kind = "none" /\ None.session = NoOne
BY WriterConfig DEF None, Events, NoOne

\* What the processes mint are events.
LEMMA EventsAreMinted ==
  ASSUME Typed
  PROVE  /\ \A s \in Agents, k \in HookKinds : Event(s, k, clock) \in Events
         /\ \A s \in Manuals, k \in ManualKinds, at \in Int :
              Event(s, k, at) \in Events /\ [Event(s, k, at) EXCEPT !.id = made + 2] \in Events
<1>1. made \in Nat /\ clock \in Nat
  BY WriterConfig DEF Typed
<1> QED BY <1>1 DEF Event, Events

LEMMA EmptyRegistry == IsRegistry(Nothing, Silent)
<1>1. Nothing \in [DOMAIN Nothing -> Lives] /\ DOMAIN Nothing = {}
  BY DEF Nothing
<1> QED BY <1>1 DEF IsRegistry, Silent, Openers, NoOne

LEMMA ReadyQueue ==
  ASSUME Typed, Ready
  PROVE  Next0 \in Events /\ Tail(queue) \in Seq(Events) /\ Len(Tail(queue)) <= QueueCap
BY WriterConfig DEF Typed, Ready, Next0

LEMMA NewRow ==
  ASSUME Typed
  PROVE  /\ NextRow \in Nat \ {0} /\ \A r \in DOMAIN log : r < NextRow
         /\ \E b \in Nat : DOMAIN log \cup {NextRow} \subseteq 1 .. b
<1>1. PICK b \in Nat : DOMAIN log \subseteq 1 .. b
  BY DEF Typed
<1>2. CASE DOMAIN log = {}
  <2>1. NextRow = 1
    BY <1>2 DEF NextRow
  <2>2. DOMAIN log \cup {NextRow} \subseteq 1 .. 1
    BY <1>2, <2>1
  <2> QED BY <1>2, <2>1, <2>2
<1>3. CASE DOMAIN log # {}
  <2>1. Max(DOMAIN log) \in DOMAIN log /\ \A n \in DOMAIN log : n <= Max(DOMAIN log)
    <3>1. DOMAIN log \in SUBSET Nat /\ \A n \in DOMAIN log : n <= b
      BY <1>1
    <3> QED BY <1>3, <3>1, Greatest
  <2>2. NextRow = Max(DOMAIN log) + 1
    BY <1>3 DEF NextRow
  <2> HIDE DEF NextRow
  <2>3. Max(DOMAIN log) \in 1 .. b
    BY <1>1, <2>1
  <2>4. DOMAIN log \cup {NextRow} \subseteq 1 .. (b + 1)
    BY <1>1, <2>2, <2>3
  <2> QED BY <2>1, <2>2, <2>3, <2>4
<1> QED BY <1>2, <1>3

\* What hydrate reads is a sequence of the rows from an instant on.
LEMMA ReadIsSequence ==
  ASSUME Typed, NEW t, NEW o \in InOrder(Since(t))
  PROVE  LET read == [i \in DOMAIN o |-> log[o[i]]] IN
         /\ read \in Seq(Events)
         /\ \A i \in 1 .. Len(read) : \E r \in DOMAIN log : read[i] = log[r]
         /\ \A r \in Since(t) : \E i \in 1 .. Len(read) : o[i] = r /\ read[i] = log[r]
         /\ DOMAIN o = 1 .. Len(read)
         /\ \A i \in DOMAIN o : o[i] \in Since(t) /\ read[i] = log[o[i]]
<1> DEFINE picked == Since(t)
           n    == Cardinality(picked)
           read == [i \in DOMAIN o |-> log[o[i]]]
<1>1. n \in Nat
  <2>1. PICK b \in Nat : DOMAIN log \subseteq 1 .. b
    BY DEF Typed
  <2>2. picked \subseteq 1 .. b
    BY <2>1 DEF Since
  <2>3. IsFiniteSet(1 .. b)
    BY FS_Interval
  <2>4. IsFiniteSet(picked)
    BY <2>2, <2>3, FS_Subset
  <2> QED BY <2>4, FS_CardinalityType
<1>2. o \in [1 .. n -> picked] /\ Range(o) = picked
  BY DEF InOrder
<1>3. picked \subseteq DOMAIN log
  BY DEF Since
<1> HIDE DEF picked, n
<1>4. /\ DOMAIN read = 1 .. n /\ DOMAIN o = 1 .. n
      /\ \A i \in 1 .. n : read[i] = log[o[i]] /\ o[i] \in picked
  BY <1>2
<1>5. \A i \in 1 .. n : read[i] \in Events
  BY <1>3, <1>4 DEF Typed
<1>6. read = [i \in 1 .. n |-> read[i]]
  BY <1>4
<1> HIDE DEF read
<1>7. read \in Seq(Events) /\ Len(read) = n
  BY <1>1, <1>4, <1>5, <1>6
<1>8. \A r \in picked : \E i \in 1 .. n : o[i] = r
  BY <1>2 DEF Range
<1>9. \A r \in picked : \E i \in 1 .. Len(read) : o[i] = r /\ read[i] = log[r]
  BY <1>4, <1>7, <1>8
<1>10. /\ DOMAIN o = 1 .. Len(read)
       /\ \A i \in DOMAIN o : o[i] \in picked /\ o[i] \in DOMAIN log /\ read[i] = log[o[i]]
  BY <1>3, <1>4, <1>7
<1> QED BY <1>7, <1>9, <1>10 DEF picked, read

LEMMA InitIsTyped == ASSUME Init PROVE Typed
<1>1. clock \in 1 .. MaxClock /\ made \in 0 .. MaxEvents /\ Len(queue) <= QueueCap
  BY WriterConfig DEF Init
<1>2. log = Nothing /\ live = Nothing /\ opener = Silent /\ marks = Nothing
  BY DEF Init
<1>3. Nothing \in [DOMAIN Nothing -> Events] /\ DOMAIN Nothing = {}
      /\ Nothing \in [DOMAIN Nothing -> Int]
  BY DEF Nothing
<1>4. DOMAIN Nothing \subseteq 1 .. 0
  BY <1>3
<1>5. \E b \in Nat : DOMAIN log \subseteq 1 .. b
  BY <1>2, <1>4
<1> QED BY <1>1, <1>2, <1>3, <1>5, EmptyRegistry DEF Init, Typed

\* A minting process keeps the types.
LEMMA MintIsTyped ==
  ASSUME Typed, NEW p \in {"control", "ticker"}, NEW evs \in Seq(Events), Mint(p, evs)
  PROVE  Typed'
<1>1. made' \in 0 .. MaxEvents
  BY DEF Typed, Mint
<1>2. outbox' \in [{"control", "ticker"} -> Seq(Events)]
  BY DEF Typed, Mint
<1> QED BY <1>1, <1>2 DEF Typed, Mint, IsRegistry

LEMMA NextIsTyped == ASSUME Typed, [Next]_vars PROVE Typed'
<1>0. MaxClock \in Nat /\ MaxEvents \in Nat /\ clock \in Nat /\ made \in Nat
  BY WriterConfig DEF Typed
<1>1. CASE Pass
  <2>1. clock' \in 1 .. MaxClock
    BY <1>0, <1>1 DEF Pass
  <2> QED BY <1>1, <2>1 DEF Typed, Pass, IsRegistry
<1>2. ASSUME NEW s \in Agents, NEW k \in HookKinds, HookArrives(s, k) PROVE Typed'
  <2>1. made' \in 0 .. MaxEvents
    BY <1>0, <1>2 DEF HookArrives
  <2>2. queue' \in Seq(Events) /\ Len(queue') <= QueueCap
    <3>1. Event(s, k, clock) \in Events
      BY EventsAreMinted
    <3>2. CASE Len(queue) < QueueCap
      BY <1>2, <3>1, <3>2, WriterConfig DEF Typed, HookArrives
    <3>3. CASE ~(Len(queue) < QueueCap)
      BY <1>2, <3>3 DEF Typed, HookArrives
    <3> QED BY <3>2, <3>3
  <2> QED BY <1>2, <2>1, <2>2 DEF Typed, HookArrives, IsRegistry
<1>3. ASSUME NEW s \in Manuals, Start(s) \/ Stop(s) \/ Ticker(s) PROVE Typed'
  <2>1. \A k \in ManualKinds : <<Event(s, k, clock)>> \in Seq(Events)
    <3>1. ASSUME NEW k \in ManualKinds PROVE Event(s, k, clock) \in Events
      <4>1. clock \in Int
        BY <1>0
      <4> QED BY <4>1, EventsAreMinted, Zenon
    <3> QED BY <3>1
  <2> QED BY <1>3, <2>1, MintIsTyped DEF Start, Stop, Ticker, ManualKinds
<1>4. ASSUME NEW s \in Manuals, NEW d \in 1 .. MaxClock, LogInterval(s, d) PROVE Typed'
  <2> DEFINE first == Event(s, "mstart", clock - d)
             last  == [Event(s, "mstop", clock) EXCEPT !.id = made + 2]
  <2>1. first \in Events /\ last \in Events
    <3>1. /\ \A k \in ManualKinds, at \in Int :
               Event(s, k, at) \in Events /\ [Event(s, k, at) EXCEPT !.id = made + 2] \in Events
          /\ clock \in Int /\ clock - d \in Int
      BY <1>0, EventsAreMinted
    <3> QED BY <3>1 DEF ManualKinds
  <2>2. Mint("control", <<first, last>>)
    BY <1>4 DEF LogInterval
  <2> HIDE DEF first, last
  <2>3. <<first, last>> \in Seq(Events)
    BY <2>1
  <2> QED BY <2>2, <2>3, MintIsTyped
<1>5. ASSUME NEW p \in DOMAIN outbox, Send(p) PROVE Typed'
  <2>1. p \in {"control", "ticker"} /\ outbox[p] \in Seq(Events) /\ outbox[p] # <<>>
    BY <1>5 DEF Typed, Send
  <2>2. Head(outbox[p]) \in Events /\ Tail(outbox[p]) \in Seq(Events)
    BY <2>1
  <2>3. queue' \in Seq(Events) /\ Len(queue') <= QueueCap
    BY <1>5, <2>2, WriterConfig DEF Typed, Send
  <2>4. outbox' \in [{"control", "ticker"} -> Seq(Events)]
    BY <1>5, <2>2 DEF Typed, Send
  <2> QED BY <1>5, <2>3, <2>4 DEF Typed, Send, IsRegistry
<1>6. CASE CoalesceDrop
  BY <1>6, ReadyQueue DEF Typed, CoalesceDrop, IsRegistry
<1>7. CASE Prune
  <2> DEFINE s == Next0.session
             picked == {r \in DOMAIN log : log[r].session # s}
  <2>1. log' = Restrict(log, picked) /\ picked \subseteq DOMAIN log
    BY <1>7 DEF Prune
  <2>2. log' \in [DOMAIN log' -> Events] /\ DOMAIN log' \subseteq DOMAIN log
    BY <2>1 DEF Typed, Restrict
  <2>3. IsRegistry(live', opener')
    <3>1. live' = Restrict(live, DOMAIN live \ {s}) /\ (opener' = opener \/ opener' = Silent)
      BY <1>7 DEF Prune, Forget
    <3>2. Silent \in Openers
      BY EmptyRegistry DEF IsRegistry
    <3> QED BY <3>1, <3>2 DEF Typed, IsRegistry, Restrict
  <2>4. \E b \in Nat : DOMAIN log' \subseteq 1 .. b
    BY <2>2 DEF Typed
  <2> QED BY <1>7, <2>2, <2>3, <2>4, ReadyQueue DEF Typed, Prune
<1>8. CASE Store
  <2>1. Next0 \in Events /\ Tail(queue) \in Seq(Events) /\ Len(Tail(queue)) <= QueueCap
    BY <1>8, ReadyQueue DEF Store
  <2>2. log' \in [DOMAIN log' -> Events] /\ DOMAIN log' = DOMAIN log \cup {NextRow}
    BY <1>8, <2>1 DEF Typed, Store, Put
  <2>3. \E b \in Nat : DOMAIN log' \subseteq 1 .. b
    BY <2>2, NewRow
  <2> QED BY <1>8, <2>1, <2>2, <2>3 DEF Typed, Store, IsRegistry
<1>9. CASE Lose
  BY <1>9, ReadyQueue DEF Typed, Lose, MarksAfterFailure, IsRegistry
<1>10. CASE Account
  <2>1. hand \in Events
    BY <1>10 DEF Typed, Account
  <2> DEFINE r == [live |-> live, opener |-> opener]
  <2>2. live' = Observe(r, hand).live /\ opener' = Observe(r, hand).opener
    BY <1>10 DEF Account, Fold
  <2>3. IsRegistry(live', opener')
    <3>1. IsRegistry(r.live, r.opener)
      BY DEF Typed
    <3> HIDE DEF r
    <3> QED BY <2>1, <2>2, <3>1, ObserveFolds
  <2>4. marks' \in [DOMAIN marks' -> Int] /\ DOMAIN marks' \subseteq Agents
    <3>1. marks' = MarksAfter(hand)
      BY <1>10 DEF Account
    <3>2. CASE hand.kind = "post" /\ Coalesce > 0
      <4>1. hand.session \in Agents /\ hand.at \in Int
        BY <2>1, <3>2 DEF Events, ManualKinds
      <4> QED BY <3>1, <3>2, <4>1 DEF Typed, MarksAfter, Put
    <3>3. CASE ~(hand.kind = "post" /\ Coalesce > 0)
      BY <3>1, <3>3 DEF Typed, MarksAfter, Restrict
    <3> QED BY <3>2, <3>3
  <2> QED BY <1>10, <2>3, <2>4 DEF Typed, Account
<1>11. CASE Crash
  <2>1. marks' \in [DOMAIN marks' -> Int] /\ DOMAIN marks' = {}
    BY <1>11 DEF Crash, Nothing
  <2>2. IsRegistry(live', opener')
    BY <1>11, EmptyRegistry DEF Crash
  <2>3. outbox' \in [{"control", "ticker"} -> Seq(Events)]
    BY <1>11 DEF Typed, Crash
  <2>4. queue' \in Seq(Events) /\ Len(queue') <= QueueCap /\ replay' \in Seq(Events)
    BY <1>11, WriterConfig DEF Crash
  <2> QED BY <1>11, <2>1, <2>2, <2>3, <2>4 DEF Typed, Crash
<1>12. CASE HydrateRead
  <2>1. PICK o \in InOrder(Since(clock - ReplayWindow)) :
          replay' = [i \in DOMAIN o |-> log[o[i]]]
    BY <1>12 DEF HydrateRead
  <2>2. replay' \in Seq(Events)
    BY <2>1, ReadIsSequence
  <2> QED BY <1>12, <2>2 DEF Typed, HydrateRead, IsRegistry
<1>13. CASE HydrateFold
  <2>1. IsRegistry(live', opener')
    BY <1>13, ReplayKeeps DEF Typed, HydrateFold
  <2>2. replay' \in Seq(Events)
    BY <1>13 DEF HydrateFold
  <2> QED BY <1>13, <2>1, <2>2 DEF Typed, HydrateFold
<1>14. CASE NukeStore
  <2>1. Range(log) \subseteq Events
    BY DEF Typed, Range
  <2>2. log' \in [DOMAIN log' -> Events] /\ DOMAIN log' = {}
    BY <1>14 DEF NukeStore, Nothing
  <2>3. \E b \in Nat : DOMAIN log' \subseteq 1 .. b
    BY <2>2
  <2> QED BY <1>14, <2>1, <2>2, <2>3 DEF Typed, NukeStore, IsRegistry
<1>15. CASE NukeRegistry
  BY <1>15, EmptyRegistry DEF Typed, NukeRegistry
<1>16. CASE UNCHANGED vars
  BY <1>16 DEF Typed, vars, IsRegistry
<1> QED BY <1>1, <1>2, <1>3, <1>4, <1>5, <1>6, <1>7, <1>8, <1>9, <1>10, <1>11,
           <1>12, <1>13, <1>14, <1>15, <1>16 DEF Next

LEMMA TypedIsTypeOK == ASSUME Typed PROVE TypeOK
<1>1. \A s \in DOMAIN live : live[s].active \in Nat /\ live[s].engaged \in Nat
  BY DEF Typed, IsRegistry, Lives
<1>2. opener.session \in Sessions \cup {NoOne} /\ DOMAIN live \subseteq Sessions
  BY DEF Typed, IsRegistry, Openers
<1> QED BY <1>1, <1>2 DEF Typed, TypeOK

\* Whatever the hazards: hooks, commands, the ticker, the writer, crashes, replays and
\* nukes keep the queue within its capacity and the registry to sessions there are.
THEOREM WriterTyped == Spec => []TypeOK
<1>1. Init => Typed
  BY InitIsTyped
<1>2. Typed /\ [Next]_vars => Typed'
  BY NextIsTyped
<1>3. Typed => TypeOK
  BY TypedIsTypeOK
<1> QED BY <1>1, <1>2, <1>3, PTL DEF Spec

--------------------------------------------------------------------------------
(* What the log, the hand, the replay and the registry hold was appended. *)

Appended ==
  /\ \A r \in DOMAIN log : log[r] \in stored
  /\ hand \in stored \cup {None}
  /\ \A i \in 1 .. Len(replay) : replay[i] \in stored
  /\ \A s \in DOMAIN live : \E e \in stored : e.session = s

LEMMA InitAppended == ASSUME Init PROVE Appended
BY DEF Init, Appended, Nothing

LEMMA NextAppended == ASSUME Typed, Appended, [Next]_vars PROVE Appended'
<1>1. CASE UNCHANGED <<hand, log, live, replay, stored>>
  BY <1>1 DEF Appended
<1>2. CASE Prune
  <2>1. /\ DOMAIN log' \subseteq DOMAIN log /\ \A r \in DOMAIN log' : log'[r] = log[r]
        /\ DOMAIN live' \subseteq DOMAIN live
    BY <1>2 DEF Prune, Forget, Restrict
  <2> QED BY <1>2, <2>1 DEF Prune, Appended
<1>3. CASE Store
  <2>1. /\ DOMAIN log' = DOMAIN log \cup {NextRow}
        /\ \A r \in DOMAIN log' : log'[r] = log[r] \/ log'[r] = Next0
        /\ \A r \in DOMAIN log' : r \in DOMAIN log \/ log'[r] = Next0
    BY <1>3 DEF Store, Put
  <2> QED BY <1>3, <2>1 DEF Store, Appended
<1>4. CASE Account
  <2>1. hand \in Events /\ hand \in stored
    BY <1>4 DEF Typed, Appended, Account
  <2> DEFINE r == [live |-> live, opener |-> opener]
  <2>2. DOMAIN live' = DOMAIN live \cup {hand.session}
    <3>1. IsRegistry(r.live, r.opener) /\ r.live = live /\ live' = Observe(r, hand).live
      BY <1>4 DEF Typed, Account, Fold
    <3> HIDE DEF r
    <3> QED BY <2>1, <3>1, ObserveFolds
  <2> QED BY <1>4, <2>1, <2>2 DEF Account, Appended
<1>5. CASE Crash
  BY <1>5 DEF Crash, Appended, Nothing
<1>6. CASE HydrateRead
  <2>1. PICK o \in InOrder(Since(clock - ReplayWindow)) :
          replay' = [i \in DOMAIN o |-> log[o[i]]]
    BY <1>6 DEF HydrateRead
  <2>2. \A i \in 1 .. Len(replay') : \E r \in DOMAIN log : replay'[i] = log[r]
    BY <2>1, ReadIsSequence
  <2> QED BY <1>6, <2>2 DEF HydrateRead, Appended
<1>7. CASE HydrateFold
  <2>1. \A s \in DOMAIN live' :
          s \in DOMAIN live \/ \E j \in 1 .. Len(replay) : replay[j].session = s
    BY <1>7, ReplayKeeps DEF Typed, HydrateFold, EndedBy
  <2>2. Len(replay') = 0
    BY <1>7 DEF HydrateFold
  <2> QED BY <1>7, <2>1, <2>2 DEF HydrateFold, Appended
<1>8. CASE NukeStore
  BY <1>8 DEF NukeStore, Appended, Nothing
<1>9. CASE NukeRegistry
  BY <1>9 DEF NukeRegistry, Appended, Nothing
<1> QED BY <1>1, <1>2, <1>3, <1>4, <1>5, <1>6, <1>7, <1>8, <1>9
        DEF Next, vars, Pass, HookArrives, Start, Stop, LogInterval, Ticker, Mint, Send,
            CoalesceDrop, Lose

--------------------------------------------------------------------------------
(* Coalescing *)

\* Every watermark is the instant of a stored tool call, and every event that
\* was coalesced away came within the window of one.
Watermarked ==
  /\ \A s \in DOMAIN marks : \E e \in stored :
       e.session = s /\ e.kind = "post" /\ e.at = marks[s]
  /\ DropsOnlyBehindStored

LEMMA NextWatermarked ==
  ASSUME Typed, Appended, Watermarked, [Next]_vars PROVE Watermarked'
<1>0. stored \subseteq stored'
  BY DEF Next, vars, Pass, HookArrives, Start, Stop, LogInterval, Ticker, Mint, Send,
         CoalesceDrop, Prune, Store, Lose, Account, Crash, HydrateRead, HydrateFold,
         NukeStore, NukeRegistry
<1>1. CASE UNCHANGED <<marks, dropped>>
  BY <1>0, <1>1 DEF Watermarked, DropsOnlyBehindStored
<1>2. CASE CoalesceDrop
  <2>1. PICK e \in stored : /\ e.session = Next0.session /\ e.kind = "post"
                            /\ e.at = marks[Next0.session]
    BY <1>2 DEF CoalesceDrop, Coalesces, Watermarked
  <2>2. Next0.at - e.at < Coalesce
    BY <1>2, <2>1 DEF CoalesceDrop, Coalesces
  <2> QED BY <1>2, <2>1, <2>2 DEF CoalesceDrop, Watermarked, DropsOnlyBehindStored
<1>3. CASE Account
  <2>1. hand \in stored /\ marks' = MarksAfter(hand)
    BY <1>3 DEF Account, Appended
  <2>2. \A s \in DOMAIN marks' :
          \/ s \in DOMAIN marks /\ marks'[s] = marks[s]
          \/ s = hand.session /\ hand.kind = "post" /\ marks'[s] = hand.at
    BY <2>1 DEF MarksAfter, Put, Restrict
  <2> QED BY <1>3, <2>1, <2>2 DEF Account, Watermarked, DropsOnlyBehindStored
<1>4. CASE Crash
  BY <1>4 DEF Crash, Watermarked, DropsOnlyBehindStored, Nothing
<1>5. CASE Lose
  BY <1>1, <1>5 DEF Lose, MarksAfterFailure
<1> QED BY <1>1, <1>2, <1>3, <1>4, <1>5
        DEF Next, vars, Pass, HookArrives, Start, Stop, LogInterval, Ticker, Mint, Send,
            Prune, Store, HydrateRead, HydrateFold, NukeStore, NukeRegistry

\* Whatever the hazards: coalescing leaves out a tool hook only while a stored one of
\* its session is recent, a failed append and a lost queue included.
THEOREM DropsAreBehindStored == Spec => []DropsOnlyBehindStored
<1>1. Init => Typed /\ Appended /\ Watermarked
  BY InitIsTyped, InitAppended DEF Init, Watermarked, DropsOnlyBehindStored, Nothing
<1>2. Typed /\ Appended /\ Watermarked /\ [Next]_vars => (Typed /\ Appended /\ Watermarked)'
  BY NextIsTyped, NextAppended, NextWatermarked
<1>3. Watermarked => DropsOnlyBehindStored
  BY DEF Watermarked
<1> QED BY <1>1, <1>2, <1>3, PTL DEF Spec

--------------------------------------------------------------------------------
(* Hydrate and nuke take the writer's lock. *)

\* A build without the two races: no message is taken while the registry does
\* not yet, or no longer, stand for the log.
Exclusive == {"hydrate_race", "nuke_race"} \cap Hazards = {}

\* While the writer boots or wipes it holds no message: the registry is empty, or
\* the log is.
Booting ==
  /\ booted # "done" => hand = None /\ DOMAIN live = {} /\ ~wiping
  /\ wiping => hand = None /\ DOMAIN log = {}

LEMMA NextBooting ==
  ASSUME Exclusive, Typed, Booting, [Next]_vars PROVE Booting'
<1>1. CASE UNCHANGED <<booted, hand, log, live, wiping>>
  BY <1>1 DEF Booting
<1>2. CASE Prune
  BY <1>2 DEF Prune, Ready, Exclusive, Booting
<1>3. CASE Store
  BY <1>3 DEF Store, Ready, Exclusive, Booting
<1>4. CASE Account
  BY <1>4 DEF Account, Booting
<1>5. CASE Crash
  BY <1>5 DEF Crash, Booting, Nothing
<1>6. CASE HydrateRead
  BY <1>6 DEF HydrateRead, Booting
<1>7. CASE HydrateFold
  BY <1>7 DEF HydrateFold, Booting
<1>8. CASE NukeStore
  BY <1>8 DEF NukeStore, Exclusive, Booting, Nothing
<1>9. CASE NukeRegistry
  BY <1>9 DEF NukeRegistry, Booting
<1> QED BY <1>1, <1>2, <1>3, <1>4, <1>5, <1>6, <1>7, <1>8, <1>9
        DEF Next, vars, Pass, HookArrives, Start, Stop, LogInterval, Ticker, Mint, Send,
            CoalesceDrop, Lose

\* Every session is replayed: none is older than the window hydrate reads.
Remembered == "forgotten" \notin Hazards

\* A stored signal is in the log or went with a nuke; and a session of the log
\* that signalled is marked so in the registry, except for the event the writer
\* still holds.
Signalled ==
  /\ \A e \in stored : Signal(e.kind) => e \in wiped \/ \E r \in DOMAIN log : log[r] = e
  /\ booted = "done" /\ ~wiping =>
       \A r \in DOMAIN log : Signal(log[r].kind) =>
         \/ log[r] = hand
         \/ log[r].session \in DOMAIN live /\ live[log[r].session].signal
  /\ booted = "replay" => \A r \in DOMAIN log : \E i \in 1 .. Len(replay) : replay[i] = log[r]

LEMMA NextSignalled ==
  ASSUME Exclusive, Remembered, Typed, Booting, Signalled, [Next]_vars
  PROVE  Signalled'
<1>1. CASE UNCHANGED <<booted, hand, log, live, wiping, replay, stored, wiped>>
  BY <1>1 DEF Signalled
<1>2. CASE Prune
  <2> DEFINE s == Next0.session
  <2>1. s \in DOMAIN live /\ ~live[s].signal /\ hand = None /\ booted = "done" /\ ~wiping
    BY <1>2 DEF Prune, Prunable, IsDegenerate, Ready, Exclusive
  <2>2. \A r \in DOMAIN log : Signal(log[r].kind) => log[r].session # s
    <3>1. \A r \in DOMAIN log : log[r] # hand
      BY <2>1, NoneIsNoEvent DEF Typed
    <3> QED BY <2>1, <3>1 DEF Signalled
  <2>3. /\ DOMAIN log' = {r \in DOMAIN log : log[r].session # s}
        /\ \A r \in DOMAIN log' : log'[r] = log[r]
        /\ DOMAIN live' = DOMAIN live \ {s}
        /\ \A q \in DOMAIN live' : live'[q] = live[q]
    BY <1>2 DEF Prune, Forget, Restrict
  <2> HIDE DEF s
  <2>4. UNCHANGED <<hand, stored, wiped, booted, wiping, replay>>
    BY <1>2 DEF Prune
  <2>5. \A e \in stored : Signal(e.kind) => e \in wiped \/ \E r \in DOMAIN log' : log'[r] = e
    BY <2>2, <2>3 DEF Signalled
  <2>6. \A r \in DOMAIN log' : Signal(log'[r].kind) =>
          log'[r].session \in DOMAIN live' /\ live'[log'[r].session].signal
    <3> SUFFICES ASSUME NEW r \in DOMAIN log', Signal(log'[r].kind)
                 PROVE  log'[r].session \in DOMAIN live' /\ live'[log'[r].session].signal
      OBVIOUS
    <3>1. r \in DOMAIN log /\ log'[r] = log[r] /\ log[r].session # s
      BY <2>2, <2>3
    <3>2. log[r] # hand
      BY <2>1, <3>1, NoneIsNoEvent DEF Typed
    <3>3. log[r].session \in DOMAIN live /\ live[log[r].session].signal
      BY <2>1, <3>1, <3>2 DEF Signalled
    <3> QED BY <2>3, <3>1, <3>3
  <2> QED BY <2>1, <2>4, <2>5, <2>6 DEF Signalled
<1>3. CASE Store
  <2>1. /\ DOMAIN log' = DOMAIN log \cup {NextRow} /\ log'[NextRow] = Next0
        /\ \A r \in DOMAIN log : log'[r] = log[r]
    BY <1>3, NewRow DEF Store, Put
  <2>2. hand = None /\ booted = "done" /\ ~wiping
    BY <1>3 DEF Store, Ready, Exclusive
  <2>3. \A r \in DOMAIN log : log[r] # hand
    BY <2>2, NoneIsNoEvent DEF Typed
  <2>4. hand' = Next0 /\ UNCHANGED <<live, wiped, booted, wiping, replay>>
        /\ stored' = stored \cup {Next0}
    BY <1>3 DEF Store
  <2> HIDE DEF Next0, NextRow
  <2>5. \A e \in stored' : Signal(e.kind) => e \in wiped \/ \E r \in DOMAIN log' : log'[r] = e
    BY <2>1, <2>4 DEF Signalled
  <2> QED BY <2>1, <2>2, <2>3, <2>4, <2>5 DEF Signalled
<1>4. CASE Account
  <2>1. hand \in Events
    BY <1>4 DEF Typed, Account
  <2> DEFINE r == [live |-> live, opener |-> opener]
  <2>2. /\ DOMAIN live' = DOMAIN live \cup {hand.session}
        /\ \A s \in DOMAIN live : live[s].signal => live'[s].signal
        /\ Signal(hand.kind) => live'[hand.session].signal
    <3>1. IsRegistry(r.live, r.opener) /\ r.live = live /\ live' = Observe(r, hand).live
      BY <1>4 DEF Typed, Account, Fold
    <3> HIDE DEF r
    <3> QED BY <2>1, <3>1, ObserveFolds
  <2>3. UNCHANGED <<log, stored, wiped, booted, wiping, replay>>
    BY <1>4 DEF Account
  <2> QED BY <2>2, <2>3 DEF Signalled
<1>5. CASE Crash
  BY <1>5 DEF Crash, Signalled
<1>6. CASE HydrateRead
  <2>1. PICK o \in InOrder(Since(clock - ReplayWindow)) :
          replay' = [i \in DOMAIN o |-> log[o[i]]]
    BY <1>6 DEF HydrateRead
  <2>2. \A r \in DOMAIN log : \E i \in 1 .. Len(replay') : replay'[i] = log[r]
    <3>1. Since(clock - ReplayWindow) = DOMAIN log
      <4>1. Since(clock - ReplayWindow) \subseteq DOMAIN log
        BY DEF Since
      <4>2. DOMAIN log \ Since(clock - ReplayWindow) = {}
        BY <1>6 DEF HydrateRead, Remembered
      <4> QED BY <4>1, <4>2
    <3> QED BY <2>1, <3>1, ReadIsSequence
  <2> QED BY <1>6, <2>2 DEF HydrateRead, Signalled
<1>7. CASE HydrateFold
  <2>1. \A j \in 1 .. Len(replay) : Signal(replay[j].kind) =>
          replay[j].session \in DOMAIN live' /\ live'[replay[j].session].signal
    BY <1>7, ReplayKeeps DEF Typed, HydrateFold
  <2>2. \A r \in DOMAIN log : \E i \in 1 .. Len(replay) : replay[i] = log[r]
    BY <1>7 DEF HydrateFold, Signalled
  <2>3. UNCHANGED <<log, stored, wiped, wiping>> /\ booted' = "done"
    BY <1>7 DEF HydrateFold
  <2> QED BY <2>1, <2>2, <2>3 DEF Signalled
<1>8. CASE NukeStore
  <2>1. DOMAIN log' = {} /\ wiped' = wiped \cup Range(log) /\ UNCHANGED stored
    BY <1>8 DEF NukeStore, Nothing
  <2>2. \A r \in DOMAIN log : log[r] \in wiped'
    BY <2>1 DEF Range
  <2> QED BY <2>1, <2>2 DEF Signalled
<1>9. CASE NukeRegistry
  BY <1>9 DEF NukeRegistry, Booting, Signalled
<1> QED BY <1>1, <1>2, <1>3, <1>4, <1>5, <1>6, <1>7, <1>8, <1>9
        DEF Next, vars, Pass, HookArrives, Start, Stop, LogInterval, Ticker, Mint, Send,
            CoalesceDrop, Lose

\* An appended prompt, tool call or manual event leaves the log by a nuke only: no
\* prune of a session that showed nothing takes it, for any sessions, queue and
\* crashes, when no message is taken during a boot's or a nuke's writes and every
\* session is replayed.
THEOREM NoSignalIsPruned ==
  ASSUME Exclusive, Remembered PROVE Spec => []SignalsKept
<1> DEFINE I == Typed /\ Booting /\ Signalled
<1>1. Init => I
  BY InitIsTyped DEF Init, Booting, Signalled, Nothing
<1>2. I /\ [Next]_vars => I'
  BY NextIsTyped, NextBooting, NextSignalled
<1>3. I => SignalsKept
  BY DEF Signalled, SignalsKept, Range
<1> QED BY <1>1, <1>2, <1>3, PTL DEF Spec

--------------------------------------------------------------------------------
(* A stop is a manual session's last word. *)

\* No tick is queued of a session whose stop is on its way.
Stills == "stale_tick" \notin Hazards

\* The writer waits for hydrate: until it has folded, the registry is empty.
HydratesFirst == "hydrate_race" \notin Hazards
EmptyAtBoot == booted # "done" => hand = None /\ DOMAIN live = {}

LEMMA NextEmptyAtBoot ==
  ASSUME HydratesFirst, EmptyAtBoot, [Next]_vars PROVE EmptyAtBoot'
<1>1. CASE UNCHANGED <<booted, hand, live>>
  BY <1>1 DEF EmptyAtBoot
<1>2. CASE Prune \/ Store
  BY <1>2 DEF Prune, Store, Ready, HydratesFirst, EmptyAtBoot
<1>3. CASE Account
  BY <1>3 DEF Account, EmptyAtBoot
<1>4. CASE Crash \/ NukeRegistry
  BY <1>4 DEF Crash, NukeRegistry, EmptyAtBoot, Nothing
<1>5. CASE HydrateRead
  BY <1>5 DEF HydrateRead, EmptyAtBoot
<1>6. CASE HydrateFold
  BY <1>6 DEF HydrateFold, EmptyAtBoot
<1> QED BY <1>1, <1>2, <1>3, <1>4, <1>5, <1>6
        DEF Next, vars, Pass, HookArrives, Start, Stop, LogInterval, Ticker, Mint, Send,
            CoalesceDrop, Lose, NukeStore

OnlyStops(q, s) == \A i \in 1 .. Len(q) : q[i].session = s => q[i].kind = "mstop"
NoneOf(q, s) == \A i \in 1 .. Len(q) : q[i].session # s
HasStop(q, s) == \E i \in 1 .. Len(q) : q[i].session = s /\ q[i].kind = "mstop"
StopsLast(q, s) ==
  \A i, j \in 1 .. Len(q) :
    i < j /\ q[i].session = s /\ q[i].kind = "mstop" /\ q[j].session = s => q[j].kind = "mstop"

LEMMA TailStops ==
  ASSUME NEW q \in Seq(Events), q # <<>>, NEW s
  PROVE  LET t == Tail(q)  x == Head(q) IN
         /\ OnlyStops(q, s) => OnlyStops(t, s) /\ (x.session = s => x.kind = "mstop")
         /\ StopsLast(q, s) => StopsLast(t, s)
         /\ StopsLast(q, s) /\ x.session = s /\ x.kind = "mstop" => OnlyStops(t, s)
         /\ HasStop(t, s) => HasStop(q, s)
         /\ x.session = s /\ x.kind = "mstop" => HasStop(q, s)
         /\ NoneOf(q, s) => NoneOf(t, s) /\ x.session # s
<1> DEFINE t == Tail(q)
<1>1. /\ Len(q) \in Nat \ {0} /\ Len(t) = Len(q) - 1 /\ Head(q) = q[1]
      /\ \A i \in 1 .. Len(t) : t[i] = q[i + 1]
  OBVIOUS
<1> HIDE DEF t
<1>2. /\ 1 \in 1 .. Len(q)
      /\ \A i \in 1 .. Len(t) : i + 1 \in 1 .. Len(q) /\ 1 < i + 1
  BY <1>1
<1>3. \A i, j \in 1 .. Len(t) : i < j => i + 1 < j + 1
  BY <1>1
<1>4. OnlyStops(q, s) => OnlyStops(t, s) /\ (q[1].session = s => q[1].kind = "mstop")
  BY <1>1, <1>2 DEF OnlyStops
<1>5. StopsLast(q, s) => StopsLast(t, s)
  BY <1>1, <1>2, <1>3 DEF StopsLast
<1>6. StopsLast(q, s) /\ q[1].session = s /\ q[1].kind = "mstop" => OnlyStops(t, s)
  BY <1>1, <1>2 DEF StopsLast, OnlyStops
<1>7. HasStop(t, s) => HasStop(q, s)
  BY <1>1, <1>2 DEF HasStop
<1>8. q[1].session = s /\ q[1].kind = "mstop" => HasStop(q, s)
  BY <1>2 DEF HasStop
<1>9. NoneOf(q, s) => NoneOf(t, s) /\ q[1].session # s
  BY <1>1, <1>2 DEF NoneOf
<1> QED BY <1>1, <1>4, <1>5, <1>6, <1>7, <1>8, <1>9 DEF t

LEMMA AppendStops ==
  ASSUME NEW q \in Seq(Events), NEW x \in Events, NEW s
  PROVE  LET a == Append(q, x) IN
         /\ OnlyStops(q, s) /\ (x.session = s => x.kind = "mstop") => OnlyStops(a, s)
         /\ StopsLast(q, s) /\ (x.session = s /\ HasStop(q, s) => x.kind = "mstop")
              => StopsLast(a, s)
         /\ HasStop(a, s) => HasStop(q, s) \/ (x.session = s /\ x.kind = "mstop")
<1> DEFINE a == Append(q, x)
           n == Len(q) + 1
<1>1. /\ Len(q) \in Nat /\ Len(a) = n /\ a[n] = x
      /\ \A i \in 1 .. Len(q) : a[i] = q[i]
  OBVIOUS
<1> HIDE DEF a
<1>2. \A i \in 1 .. Len(a) : i = n \/ i \in 1 .. Len(q)
  BY <1>1
<1>3. \A i, j \in 1 .. Len(a) : i < j => i \in 1 .. Len(q)
  BY <1>1
<1> HIDE DEF n
<1>4. OnlyStops(q, s) /\ (x.session = s => x.kind = "mstop") => OnlyStops(a, s)
  BY <1>1, <1>2 DEF OnlyStops
<1>5. StopsLast(q, s) /\ (x.session = s /\ HasStop(q, s) => x.kind = "mstop") => StopsLast(a, s)
  BY <1>1, <1>2, <1>3 DEF StopsLast, HasStop
<1>6. HasStop(a, s) => HasStop(q, s) \/ (x.session = s /\ x.kind = "mstop")
  <2>1. ASSUME NEW i \in 1 .. Len(a), a[i].session = s, a[i].kind = "mstop"
        PROVE  HasStop(q, s) \/ (x.session = s /\ x.kind = "mstop")
    <3>1. CASE i = n
      BY <1>1, <2>1, <3>1
    <3>2. CASE i \in 1 .. Len(q)
      BY <1>1, <2>1, <3>2 DEF HasStop
    <3> QED BY <1>2, <3>1, <3>2
  <2> QED BY <2>1 DEF HasStop
<1> QED BY <1>4, <1>5, <1>6 DEF a

\* Behind a stop of s, wherever it is, nothing of s but further stops follows, and
\* once one was appended and folded the registry shows the session as ended.
StopStored(s) == \E e \in stored : e.session = s /\ e.kind = "mstop"
Ordered(s) ==
  /\ HasStop(outbox["control"], s) \/ HasStop(queue, s) => NoneOf(outbox["ticker"], s)
  /\ StopsLast(outbox["control"], s)
  /\ HasStop(queue, s) => OnlyStops(outbox["control"], s)
  /\ StopsLast(queue, s)
  /\ StopStored(s) =>
       /\ OnlyStops(queue, s) /\ OnlyStops(outbox["control"], s)
       /\ NoneOf(outbox["ticker"], s)
       /\ hand.session = s => hand.kind = "mstop"
  /\ \A e \in stored :
       e.session = s /\ e.kind = "mstop" /\ e # hand /\ s \in DOMAIN live => live[s].ended
Ticking == \A i \in 1 .. Len(outbox["ticker"]) : outbox["ticker"][i].kind = "mtick"
Stopping == (\A s \in Manuals : Ordered(s)) /\ Ticking

LEMMA InitStopping == ASSUME Init PROVE Stopping
BY DEF Init, Stopping, Ordered, Ticking, StopStored, OnlyStops, NoneOf, HasStop, StopsLast

LEMMA NewIsNowhere ==
  ASSUME Typed, Appended, NEW s \in Manuals, NewManual(s)
  PROVE  /\ NoneOf(queue, s) /\ NoneOf(outbox["ticker"], s) /\ hand.session # s
         /\ s \notin DOMAIN live /\ \A e \in stored : e.session # s
<1>1. \A e \in stored \cup Pending : e.session # s
  BY DEF NewManual
<1>2. hand \in Pending /\ Range(queue) \subseteq Pending
  BY DEF Pending
<1>3. Range(outbox["ticker"]) \subseteq Pending
  BY DEF Pending, Typed
<1>4. (\A i \in 1 .. Len(queue) : queue[i] \in Range(queue))
      /\ \A i \in 1 .. Len(outbox["ticker"]) : outbox["ticker"][i] \in Range(outbox["ticker"])
  BY DEF Typed, Range
<1> QED BY <1>1, <1>2, <1>3, <1>4 DEF NoneOf, Appended

\* A sender's new batch disturbs no session it says nothing about.
LEMMA MintElsewhere ==
  ASSUME Typed, NEW s, Ordered(s), NEW p \in {"control", "ticker"}, NEW evs \in Seq(Events),
         Mint(p, evs), NoneOf(evs, s)
  PROVE  Ordered(s)'
<1>1. ~HasStop(evs, s) /\ StopsLast(evs, s) /\ OnlyStops(evs, s)
  BY DEF NoneOf, HasStop, StopsLast, OnlyStops
<1>2. /\ outbox' = [outbox EXCEPT ![p] = evs] /\ UNCHANGED <<queue, hand, live, stored>>
      /\ DOMAIN outbox = {"control", "ticker"}
  BY DEF Mint, Typed
<1>3. CASE p = "control"
  <2>1. outbox'["control"] = evs /\ outbox'["ticker"] = outbox["ticker"]
    BY <1>2, <1>3
  <2> QED BY <1>1, <1>2, <2>1 DEF Ordered, StopStored
<1>4. CASE p = "ticker"
  <2>1. outbox'["ticker"] = evs /\ outbox'["control"] = outbox["control"]
    BY <1>2, <1>4
  <2> QED BY <1>1, <1>2, <2>1 DEF Ordered, StopStored
<1> QED BY <1>3, <1>4

LEMMA StartStopping ==
  ASSUME Typed, Appended, Stopping, NEW m \in Manuals, Start(m)
  PROVE  Stopping'
<1> DEFINE x == Event(m, "mstart", clock)
           evs == <<x>>
<1>1. x \in Events /\ x.session = m /\ x.kind = "mstart"
  <2>1. clock \in Int /\ "mstart" \in ManualKinds
    BY DEF Typed, ManualKinds
  <2> QED BY <2>1, EventsAreMinted DEF Event
<1>2. Mint("control", evs) /\ NewManual(m)
  BY DEF Start
<1> HIDE DEF x
<1>3. evs \in Seq(Events) /\ Len(evs) = 1 /\ evs[1] = x
  BY <1>1
<1> HIDE DEF evs
<1>4. /\ outbox'["control"] = evs /\ outbox'["ticker"] = outbox["ticker"]
      /\ UNCHANGED <<queue, hand, live, stored>>
  BY <1>2 DEF Mint, Typed
<1>5. ASSUME NEW s \in Manuals, s # m PROVE NoneOf(evs, s) /\ Ordered(s)'
  <2>1. NoneOf(evs, s)
    BY <1>1, <1>3, <1>5 DEF NoneOf
  <2> QED BY <1>2, <1>3, <2>1, MintElsewhere DEF Stopping
<1>6. Ordered(m)'
  <2>1. ~HasStop(evs, m) /\ StopsLast(evs, m)
    BY <1>1, <1>3 DEF HasStop, StopsLast
  <2>2. NoneOf(queue, m) /\ NoneOf(outbox["ticker"], m) /\ hand.session # m
        /\ m \notin DOMAIN live
    BY <1>2, NewIsNowhere
  <2>3. ~HasStop(queue, m) /\ OnlyStops(queue, m) /\ StopsLast(queue, m)
    BY <2>2 DEF NoneOf, HasStop, OnlyStops, StopsLast
  <2>4. \A e \in stored : e.session # m
    BY <1>2, NewIsNowhere
  <2> QED BY <1>4, <2>1, <2>2, <2>3, <2>4 DEF Ordered, StopStored
<1> QED BY <1>4, <1>5, <1>6 DEF Stopping, Ticking

LEMMA IntervalStopping ==
  ASSUME Typed, Appended, Stopping, NEW m \in Manuals, NEW d \in 1 .. MaxClock,
         LogInterval(m, d)
  PROVE  Stopping'
<1> DEFINE x == Event(m, "mstart", clock - d)
           y == [Event(m, "mstop", clock) EXCEPT !.id = made + 2]
           evs == <<x, y>>
<1>1. /\ x \in Events /\ x.session = m /\ x.kind = "mstart"
      /\ y \in Events /\ y.session = m /\ y.kind = "mstop"
  <2>1. clock \in Int /\ clock - d \in Int /\ {"mstart", "mstop"} \subseteq ManualKinds
    BY WriterConfig DEF Typed, ManualKinds
  <2>2. x \in Events /\ y \in Events
    BY <2>1, EventsAreMinted
  <2> QED BY <2>2 DEF Event
<1>2. Mint("control", evs) /\ NewManual(m)
  BY DEF LogInterval
<1> HIDE DEF x, y
<1>3. evs \in Seq(Events) /\ Len(evs) = 2 /\ evs[1] = x /\ evs[2] = y
  BY <1>1
<1> HIDE DEF evs
<1>4. /\ outbox'["control"] = evs /\ outbox'["ticker"] = outbox["ticker"]
      /\ UNCHANGED <<queue, hand, live, stored>>
  BY <1>2 DEF Mint, Typed
<1>a. \A i \in 1 .. Len(evs) : i = 1 \/ i = 2
  BY <1>3
<1>5. ASSUME NEW s \in Manuals, s # m PROVE NoneOf(evs, s) /\ Ordered(s)'
  <2>1. NoneOf(evs, s)
    BY <1>1, <1>3, <1>5, <1>a DEF NoneOf
  <2> QED BY <1>2, <1>3, <2>1, MintElsewhere DEF Stopping
<1>6. Ordered(m)'
  <2>1. StopsLast(evs, m)
    BY <1>1, <1>3, <1>a DEF StopsLast
  <2>2. NoneOf(queue, m) /\ NoneOf(outbox["ticker"], m) /\ hand.session # m
        /\ m \notin DOMAIN live
    BY <1>2, NewIsNowhere
  <2>3. ~HasStop(queue, m) /\ OnlyStops(queue, m) /\ StopsLast(queue, m)
    BY <2>2 DEF NoneOf, HasStop, OnlyStops, StopsLast
  <2>4. \A e \in stored : e.session # m
    BY <1>2, NewIsNowhere
  <2> QED BY <1>4, <2>1, <2>2, <2>3, <2>4 DEF Ordered, StopStored
<1> QED BY <1>4, <1>5, <1>6 DEF Stopping, Ticking

LEMMA StopStopping ==
  ASSUME Stills, Typed, Stopping, NEW m \in Manuals, Stop(m)
  PROVE  Stopping'
<1> DEFINE x == Event(m, "mstop", clock)
           evs == <<x>>
<1>1. x \in Events /\ x.session = m /\ x.kind = "mstop"
  <2>1. clock \in Int /\ "mstop" \in ManualKinds
    BY DEF Typed, ManualKinds
  <2> QED BY <2>1, EventsAreMinted DEF Event
<1>2. Mint("control", evs) /\ m \in ActiveManual /\ outbox["ticker"] = <<>>
  BY DEF Stop, Stills
<1> HIDE DEF x
<1>3. evs \in Seq(Events) /\ Len(evs) = 1 /\ evs[1] = x
  BY <1>1
<1> HIDE DEF evs
<1>4. /\ outbox'["control"] = evs /\ outbox'["ticker"] = <<>>
      /\ UNCHANGED <<queue, hand, live, stored>>
  BY <1>2 DEF Mint, Typed
<1>5. ASSUME NEW s \in Manuals, s # m PROVE Ordered(s)'
  <2>1. NoneOf(evs, s)
    BY <1>1, <1>3, <1>5 DEF NoneOf
  <2> QED BY <1>2, <1>3, <2>1, MintElsewhere DEF Stopping
<1>6. Ordered(m)'
  <2>1. StopsLast(evs, m) /\ OnlyStops(evs, m)
    BY <1>1, <1>3 DEF StopsLast, OnlyStops
  <2>2. NoneOf(<<>>, m)
    BY DEF NoneOf
  <2>3. Ordered(m)
    BY DEF Stopping
  <2> QED BY <1>4, <2>1, <2>2, <2>3 DEF Ordered, StopStored
<1> QED BY <1>4, <1>5, <1>6 DEF Stopping, Ticking

LEMMA TickerStopping ==
  ASSUME Stills, Typed, Stopping, NEW m \in Manuals, Ticker(m)
  PROVE  Stopping'
<1> DEFINE x == Event(m, "mtick", clock)
           evs == <<x>>
<1>1. x \in Events /\ x.session = m /\ x.kind = "mtick"
  <2>1. clock \in Int /\ "mtick" \in ManualKinds
    BY DEF Typed, ManualKinds
  <2> QED BY <2>1, EventsAreMinted DEF Event
<1>2. Mint("ticker", evs) /\ m \in ActiveManual /\ ~StopPending
  BY DEF Ticker, Stills
<1> HIDE DEF x
<1>3. evs \in Seq(Events) /\ Len(evs) = 1 /\ evs[1] = x
  BY <1>1
<1> HIDE DEF evs
<1>4. /\ outbox'["ticker"] = evs /\ outbox'["control"] = outbox["control"]
      /\ UNCHANGED <<queue, hand, live, stored>>
  BY <1>2 DEF Mint, Typed
<1>5. ASSUME NEW s \in Manuals, s # m PROVE Ordered(s)'
  <2>1. NoneOf(evs, s)
    BY <1>1, <1>3, <1>5 DEF NoneOf
  <2> QED BY <1>2, <1>3, <2>1, MintElsewhere DEF Stopping
<1>6. Ordered(m)'
  <2>1. /\ ~HasStop(queue, m) /\ outbox["control"] = <<>> /\ hand.kind # "mstop"
        /\ m \in DOMAIN live /\ ~live[m].ended
    BY <1>2 DEF StopPending, HasStop, ActiveManual
  <2>2. ~HasStop(<<>>, m) /\ StopsLast(<<>>, m)
    BY DEF HasStop, StopsLast
  <2>3. Ordered(m)
    BY DEF Stopping
  <2>4. ~StopStored(m)
    BY <2>1, <2>3 DEF Ordered, StopStored
  <2> QED BY <1>4, <2>1, <2>2, <2>3, <2>4 DEF Ordered, StopStored
<1>7. Ticking'
  <2>1. \A i \in 1 .. Len(evs) : evs[i].kind = "mtick"
    BY <1>1, <1>3
  <2> QED BY <1>4, <2>1 DEF Ticking
<1> QED BY <1>5, <1>6, <1>7 DEF Stopping

LEMMA SendStopping ==
  ASSUME Typed, Stopping, NEW p \in {"control", "ticker"}, Send(p)
  PROVE  Stopping'
<1> DEFINE from == outbox[p]
           x    == Head(from)
           rest == Tail(from)
<1>1. /\ from \in Seq(Events) /\ from # <<>> /\ queue \in Seq(Events)
      /\ x \in Events /\ rest \in Seq(Events)
  BY DEF Typed, Send
<1>2. /\ queue' = Append(queue, x) /\ outbox' = [outbox EXCEPT ![p] = rest]
      /\ DOMAIN outbox = {"control", "ticker"}
      /\ UNCHANGED <<hand, live, stored>>
  BY DEF Typed, Send
<1>3. p = "ticker" => x.kind = "mtick" /\ \A i \in 1 .. Len(rest) : rest[i].kind = "mtick"
  <2>1. 1 \in 1 .. Len(from) /\ \A i \in 1 .. Len(rest) : rest[i] = from[i + 1]
        /\ i + 1 \in 1 .. Len(from)
    BY <1>1
  <2> QED BY <1>1, <2>1 DEF Stopping, Ticking
<1> HIDE DEF x, rest
<1>4. ASSUME NEW s \in Manuals PROVE Ordered(s)'
  <2>1. Ordered(s)
    BY DEF Stopping
  <2>2. /\ OnlyStops(from, s) => OnlyStops(rest, s) /\ (x.session = s => x.kind = "mstop")
        /\ StopsLast(from, s) => StopsLast(rest, s)
        /\ StopsLast(from, s) /\ x.session = s /\ x.kind = "mstop" => OnlyStops(rest, s)
        /\ HasStop(rest, s) => HasStop(from, s)
        /\ x.session = s /\ x.kind = "mstop" => HasStop(from, s)
        /\ NoneOf(from, s) => NoneOf(rest, s) /\ x.session # s
    BY <1>1, TailStops DEF x, rest
  <2>3. /\ OnlyStops(queue, s) /\ (x.session = s => x.kind = "mstop") => OnlyStops(queue', s)
        /\ StopsLast(queue, s) /\ (x.session = s /\ HasStop(queue, s) => x.kind = "mstop")
             => StopsLast(queue', s)
        /\ HasStop(queue', s) => HasStop(queue, s) \/ (x.session = s /\ x.kind = "mstop")
    BY <1>1, <1>2, AppendStops
  <2>4. CASE p = "control"
    <3>1. outbox'["control"] = rest /\ outbox'["ticker"] = outbox["ticker"]
          /\ from = outbox["control"]
      BY <1>2, <2>4
    <3> HIDE DEF from
    <3> QED BY <1>2, <2>1, <2>2, <2>3, <3>1 DEF Ordered, StopStored
  <2>5. CASE p = "ticker"
    <3>1. outbox'["ticker"] = rest /\ outbox'["control"] = outbox["control"]
          /\ from = outbox["ticker"]
      BY <1>2, <2>5
    <3>2. x.kind # "mstop"
      BY <1>3, <2>5
    <3> HIDE DEF from
    <3> QED BY <1>2, <2>1, <2>2, <2>3, <3>1, <3>2 DEF Ordered, StopStored
  <2> QED BY <2>4, <2>5
<1>5. Ticking'
  <2>1. p = "ticker" => outbox'["ticker"] = rest
    BY <1>2
  <2>2. p = "control" => outbox'["ticker"] = outbox["ticker"]
    BY <1>2
  <2> QED BY <1>3, <2>1, <2>2 DEF Stopping, Ticking
<1> QED BY <1>4, <1>5 DEF Stopping

--------------------------------------------------------------------------------
(* The log keeps that order, so that a replay finds the stop last.         *)

Made == stored \cup Pending

\* No event is of the future, and no stop is earlier than what it stops.
Dated ==
  /\ \A e \in Made : e.at <= clock
  /\ \A x, e \in Made :
       /\ x.session \in Manuals /\ x.session = e.session
       /\ x.kind = "mstop" /\ e.kind # "mstop"
       => e.at <= x.at

LEMMA MadeIsTyped ==
  ASSUME Typed
  PROVE  /\ Made \subseteq Events \cup {None} /\ \A e \in Made : e.at \in Int
         /\ stored \cup Range(queue) \subseteq Made
<1>1. Range(queue) \subseteq Events /\ \A p \in DOMAIN outbox : Range(outbox[p]) \subseteq Events
  BY DEF Typed, Range
<1>2. Made \subseteq Events \cup {None}
  BY <1>1 DEF Made, Pending, Typed
<1>3. \A e \in Events \cup {None} : e.at \in Int
  BY DEF Events, None
<1> QED BY <1>2, <1>3 DEF Made, Pending

LEMMA RangeOfTail ==
  ASSUME NEW q \in Seq(Events), q # <<>> PROVE Range(q) = {Head(q)} \cup Range(Tail(q))
<1> DEFINE t == Tail(q)
<1>1. /\ Len(q) \in Nat \ {0} /\ DOMAIN q = 1 .. Len(q) /\ DOMAIN t = 1 .. Len(q) - 1
      /\ Head(q) = q[1] /\ \A i \in 1 .. Len(q) - 1 : t[i] = q[i + 1]
  OBVIOUS
<1> HIDE DEF t
<1>2. /\ \A i \in DOMAIN q : i = 1 \/ (i - 1 \in DOMAIN t /\ i = (i - 1) + 1)
      /\ \A i \in DOMAIN t : i + 1 \in DOMAIN q
  BY <1>1
<1>3. \A i \in DOMAIN q : q[i] = Head(q) \/ q[i] = t[i - 1]
  BY <1>1, <1>2
<1>4. 1 \in DOMAIN q
  BY <1>1
<1> QED BY <1>1, <1>2, <1>3, <1>4 DEF Range, t

LEMMA RangeOfAppend ==
  ASSUME NEW q \in Seq(Events), NEW x PROVE Range(Append(q, x)) \subseteq Range(q) \cup {x}
<1> DEFINE a == Append(q, x)
<1>1. /\ Len(q) \in Nat /\ DOMAIN q = 1 .. Len(q) /\ DOMAIN a = 1 .. Len(q) + 1
      /\ a[Len(q) + 1] = x /\ \A i \in 1 .. Len(q) : a[i] = q[i]
  OBVIOUS
<1> HIDE DEF a
<1>2. \A i \in DOMAIN a : i = Len(q) + 1 \/ i \in DOMAIN q
  BY <1>1
<1> QED BY <1>1, <1>2 DEF Range, a

\* A step may add events of now: a stop, or one of a session without a stop.
LEMMA DatedGrows ==
  ASSUME Typed, Dated, NEW E \in SUBSET Events, Made' \subseteq Made \cup E \cup {None},
         clock' \in Int, clock <= clock', \A x \in E : x.at <= clock,
         \A x \in E : x.session \in Manuals =>
           IF x.kind = "mstop" THEN x.at = clock
           ELSE \A e \in Made : e.session = x.session => e.kind # "mstop"
  PROVE  Dated'
<1>1. \A e \in Made \cup E \cup {None} : e.at \in Int /\ e.at <= clock
  <2>1. clock \in Nat /\ None.at = 0
    BY DEF Typed, None
  <2> QED BY <2>1, MadeIsTyped DEF Dated, Events
<1>2. clock \in Int
  BY DEF Typed
<1>3. \A e \in Made' : e.at <= clock'
  BY <1>1, <1>2
<1>4. None.session \notin Manuals
  BY WriterConfig DEF None, NoOne
<1>5. ASSUME NEW x \in Made', NEW e \in Made', x.session \in Manuals, x.session = e.session,
             x.kind = "mstop", e.kind # "mstop"
      PROVE  e.at <= x.at
  <2>1. x \in Made \cup E /\ e \in Made \cup E
    BY <1>4, <1>5
  <2>2. CASE x \in E
    BY <1>1, <1>5, <2>1, <2>2
  <2>3. CASE x \in Made /\ e \in E
    BY <1>5, <2>3
  <2>4. CASE x \in Made /\ e \in Made
    BY <1>5, <2>4 DEF Dated
  <2> QED BY <2>1, <2>2, <2>3, <2>4
<1> QED BY <1>3, <1>5 DEF Dated

LEMMA MintMade ==
  ASSUME Typed, NEW p \in {"control", "ticker"}, NEW evs \in Seq(Events), Mint(p, evs)
  PROVE  Made' \subseteq Made \cup Range(evs)
<1>1. /\ outbox' = [outbox EXCEPT ![p] = evs] /\ UNCHANGED <<queue, hand, stored>>
      /\ DOMAIN outbox = {"control", "ticker"}
  BY DEF Mint, Typed
<1>2. DOMAIN outbox' = DOMAIN outbox
      /\ \A q \in DOMAIN outbox : outbox'[q] = evs \/ outbox'[q] = outbox[q]
  BY <1>1
<1> QED BY <1>1, <1>2 DEF Made, Pending

LEMMA NextDated ==
  ASSUME Stills, Typed, Stopping, Dated, [Next]_vars PROVE Dated'
<1>0. /\ clock \in Int /\ clock' \in Int
      /\ queue \in Seq(Events) /\ outbox \in [{"control", "ticker"} -> Seq(Events)]
  BY NextIsTyped DEF Typed
<1>1. ASSUME clock' = clock \/ clock' = clock + 1, Made' \subseteq Made \cup {None}
      PROVE  Dated'
  <2>1. clock <= clock' /\ {} \in SUBSET Events
    BY <1>0, <1>1
  <2> QED BY <1>0, <1>1, <2>1, DatedGrows
<1>2. CASE UNCHANGED <<queue, outbox, hand, stored>> /\ (clock' = clock \/ clock' = clock + 1)
  BY <1>1, <1>2 DEF Made, Pending
<1>3. ASSUME NEW a \in Agents, NEW k \in HookKinds, HookArrives(a, k) PROVE Dated'
  <2> DEFINE x == Event(a, k, clock)
  <2>1. x \in Events /\ x.session \notin Manuals /\ x.at = clock
    BY EventsAreMinted, WriterConfig DEF Event
  <2> HIDE DEF x
  <2>2. (queue' = Append(queue, x) \/ queue' = queue) /\ UNCHANGED <<clock, outbox, hand, stored>>
    BY <1>3 DEF HookArrives, x
  <2>3. Range(queue') \subseteq Range(queue) \cup {x}
    BY <1>0, <2>2, RangeOfAppend
  <2>4. Made' \subseteq Made \cup {x} \cup {None}
    BY <2>2, <2>3 DEF Made, Pending
  <2> DEFINE E == {x}
  <2>5. E \in SUBSET Events /\ Made' \subseteq Made \cup E \cup {None}
        /\ clock <= clock' /\ \A y \in E : y.at <= clock /\ y.session \notin Manuals
    BY <1>0, <2>1, <2>2, <2>4
  <2> HIDE DEF E
  <2> QED BY <1>0, <2>5, DatedGrows
<1>4. ASSUME NEW m \in Manuals, NEW p \in {"control", "ticker"}, NEW evs \in Seq(Events),
             Mint(p, evs), \A x \in Range(evs) : x.session = m /\ x.at <= clock,
             \/ \A x \in Range(evs) : x.kind = "mstop" /\ x.at = clock
             \/ /\ \A x \in Range(evs) : x.kind = "mstop" => x.at = clock
                /\ \A e \in Made : e.session = m => e.kind # "mstop"
      PROVE  Dated'
  <2>1. Range(evs) \subseteq Events
    BY DEF Range
  <2>2. Made' \subseteq Made \cup Range(evs) \cup {None} /\ clock <= clock'
    <3>1. Made' \subseteq Made \cup Range(evs)
      BY <1>4, MintMade
    <3>2. clock' = clock
      BY <1>4 DEF Mint
    <3> QED BY <1>0, <3>1, <3>2
  <2> DEFINE E == Range(evs)
  <2>3. ASSUME NEW x \in E
        PROVE  IF x.kind = "mstop" THEN x.at = clock
               ELSE \A e \in Made : e.session = x.session => e.kind # "mstop"
    <3>1. x.session = m
      BY <1>4
    <3>2. CASE \A y \in E : y.kind = "mstop" /\ y.at = clock
      BY <3>2
    <3>3. CASE /\ \A y \in E : y.kind = "mstop" => y.at = clock
               /\ \A e \in Made : e.session = m => e.kind # "mstop"
      BY <3>1, <3>3
    <3> QED BY <1>4, <3>2, <3>3
  <2>4. /\ E \in SUBSET Events /\ Made' \subseteq Made \cup E \cup {None}
        /\ \A x \in E : x.at <= clock
        /\ \A x \in E : x.session \in Manuals =>
             IF x.kind = "mstop" THEN x.at = clock
             ELSE \A e \in Made : e.session = x.session => e.kind # "mstop"
    BY <1>4, <2>1, <2>2, <2>3
  <2> HIDE DEF E
  <2> QED BY <1>0, <2>2, <2>4, DatedGrows
<1>5. ASSUME NEW m \in Manuals, NewManual(m) PROVE \A e \in Made : e.session = m => e.kind # "mstop"
  BY <1>5 DEF NewManual, Made
<1>6. ASSUME NEW m \in Manuals, NEW k \in ManualKinds
      PROVE  LET x == Event(m, k, clock) IN
             /\ <<x>> \in Seq(Events) /\ \A y \in Range(<<x>>) : y = x
             /\ x.session = m /\ x.kind = k /\ x.at = clock
  <2> DEFINE x == Event(m, k, clock)
  <2>1. x \in Events /\ x.session = m /\ x.kind = k /\ x.at = clock
    BY <1>0, EventsAreMinted DEF Event
  <2> HIDE DEF x
  <2>2. <<x>> \in Seq(Events) /\ Range(<<x>>) = {x}
    BY <2>1 DEF Range
  <2> QED BY <2>1, <2>2 DEF x
<1>7. ASSUME NEW m \in Manuals, Start(m) PROVE Dated'
  <2> DEFINE evs == <<Event(m, "mstart", clock)>>
  <2>1. /\ evs \in Seq(Events)
        /\ \A x \in Range(evs) : x.session = m /\ x.at = clock /\ x.kind # "mstop"
    BY <1>6 DEF ManualKinds
  <2>2. Mint("control", evs) /\ NewManual(m)
    BY <1>7 DEF Start
  <2> HIDE DEF evs
  <2> QED BY <1>0, <1>4, <1>5, <2>1, <2>2
<1>8. ASSUME NEW m \in Manuals, Stop(m) PROVE Dated'
  <2> DEFINE evs == <<Event(m, "mstop", clock)>>
  <2>1. /\ evs \in Seq(Events)
        /\ \A x \in Range(evs) : x.session = m /\ x.at = clock /\ x.kind = "mstop"
    BY <1>6 DEF ManualKinds
  <2>2. Mint("control", evs)
    BY <1>8 DEF Stop
  <2> HIDE DEF evs
  <2> QED BY <1>0, <1>4, <2>1, <2>2
<1>9. ASSUME NEW m \in Manuals, Ticker(m) PROVE Dated'
  <2> DEFINE evs == <<Event(m, "mtick", clock)>>
  <2>1. /\ evs \in Seq(Events)
        /\ \A x \in Range(evs) : x.session = m /\ x.at = clock /\ x.kind # "mstop"
    BY <1>6 DEF ManualKinds
  <2>2. Mint("ticker", evs) /\ ~StopPending /\ m \in ActiveManual
    BY <1>9 DEF Ticker, Stills
  <2>3. \A e \in Made : e.session = m => e.kind # "mstop"
    <3>1. \A e \in stored : e.session = m => e.kind # "mstop"
      BY <2>2 DEF Stopping, Ordered, ActiveManual, StopPending
    <3>2. hand.kind # "mstop" /\ \A e \in Range(queue) : e.kind # "mstop"
      BY <1>0, <2>2 DEF StopPending, Range
    <3>3. \A e \in Range(outbox["ticker"]) : e.kind # "mstop"
      BY <1>0 DEF Stopping, Ticking, Range
    <3>4. Range(outbox["control"]) = {}
      BY <2>2 DEF StopPending, Range
    <3> QED BY <1>0, <3>1, <3>2, <3>3, <3>4 DEF Made, Pending
  <2> HIDE DEF evs
  <2> QED BY <1>0, <1>4, <2>1, <2>2, <2>3
<1>10. ASSUME NEW m \in Manuals, NEW d \in 1 .. MaxClock, LogInterval(m, d) PROVE Dated'
  <2> DEFINE x == Event(m, "mstart", clock - d)
             y == [Event(m, "mstop", clock) EXCEPT !.id = made + 2]
             evs == <<x, y>>
  <2>1. /\ x \in Events /\ x.session = m /\ x.kind = "mstart" /\ x.at <= clock
        /\ y \in Events /\ y.session = m /\ y.kind = "mstop" /\ y.at = clock
    <3>1. clock - d \in Int /\ clock - d <= clock /\ {"mstart", "mstop"} \subseteq ManualKinds
      BY <1>0, WriterConfig DEF ManualKinds
    <3>2. x \in Events /\ y \in Events
      BY <1>0, <3>1, EventsAreMinted
    <3> QED BY <3>1, <3>2 DEF Event
  <2>2. Mint("control", evs) /\ NewManual(m)
    BY <1>10 DEF LogInterval
  <2> HIDE DEF x, y
  <2>3. evs \in Seq(Events) /\ Range(evs) = {x, y}
    BY <2>1 DEF Range
  <2> HIDE DEF evs
  <2>4. /\ \A z \in Range(evs) : z.session = m /\ z.at <= clock
        /\ \A z \in Range(evs) : z.kind = "mstop" => z.at = clock
    BY <1>0, <2>1, <2>3
  <2>5. \A e \in Made : e.session = m => e.kind # "mstop"
    BY <1>5, <2>2
  <2> QED BY <1>4, <2>2, <2>3, <2>4, <2>5
<1>11. ASSUME NEW p \in DOMAIN outbox, Send(p) PROVE Dated'
  <2>1. /\ outbox[p] \in Seq(Events) /\ outbox[p] # <<>>
        /\ queue' = Append(queue, Head(outbox[p]))
        /\ outbox' = [outbox EXCEPT ![p] = Tail(outbox[p])] /\ UNCHANGED <<clock, hand, stored>>
    BY <1>0, <1>11 DEF Send
  <2>2. Range(outbox[p]) = {Head(outbox[p])} \cup Range(Tail(outbox[p]))
    BY <2>1, RangeOfTail
  <2>3. Range(queue') \subseteq Range(queue) \cup Range(outbox[p])
    BY <1>0, <2>1, <2>2, RangeOfAppend
  <2>4. DOMAIN outbox' = DOMAIN outbox
        /\ \A q \in DOMAIN outbox : Range(outbox'[q]) \subseteq Range(outbox[q])
    BY <2>1, <2>2
  <2>5. Made' \subseteq Made
    BY <2>1, <2>3, <2>4 DEF Made, Pending
  <2> QED BY <1>1, <2>1, <2>5
<1>12. CASE CoalesceDrop \/ Prune \/ Store \/ Lose
  <2>1. /\ queue # <<>> /\ queue' = Tail(queue) /\ UNCHANGED <<clock, outbox>>
        /\ hand' \in {hand, Head(queue)} /\ stored' \subseteq stored \cup {Head(queue)}
    BY <1>12 DEF CoalesceDrop, Prune, Store, Lose, Ready, Next0
  <2>2. Range(queue) = {Head(queue)} \cup Range(queue')
    BY <1>0, <2>1, RangeOfTail
  <2>3. Made' \subseteq Made
    BY <2>1, <2>2 DEF Made, Pending
  <2> QED BY <1>1, <2>1, <2>3
<1>13. CASE Account
  BY <1>1, <1>13 DEF Account, Made, Pending
<1>14. CASE Crash
  <2>1. /\ Range(queue') = {} /\ hand' = None /\ UNCHANGED <<clock, stored>>
        /\ \A p \in DOMAIN outbox' : Range(outbox'[p]) = {}
    BY <1>14 DEF Crash, Range
  <2> QED BY <1>1, <2>1 DEF Made, Pending
<1> QED BY <1>2, <1>3, <1>7, <1>8, <1>9, <1>10, <1>11, <1>12, <1>13, <1>14
        DEF Next, vars, Pass, HydrateRead, HydrateFold, NukeStore, NukeRegistry

\* Once a manual session is stopped, each of its rows comes before a stop.
Closed ==
  \A q \in DOMAIN log :
    log[q].session \in Manuals /\ log[q].kind # "mstop" /\ StopStored(log[q].session) =>
      \E r \in DOMAIN log :
        log[r].session = log[q].session /\ log[r].kind = "mstop" /\ Before(log, q, r)

LEMMA NextClosed ==
  ASSUME Typed, Appended, Stopping, Dated, Closed, [Next]_vars PROVE Closed'
<1>1. CASE UNCHANGED <<log, stored>>
  BY <1>1 DEF Closed, StopStored, Before
<1>2. CASE Prune
  <2>1. Next0.session \notin Manuals
    BY <1>2, ReadyQueue, WriterConfig DEF Prune, Prunable, Events, ManualKinds
  <2>2. /\ DOMAIN log' = {r \in DOMAIN log : log[r].session # Next0.session}
        /\ \A r \in DOMAIN log' : log'[r] = log[r]
        /\ UNCHANGED stored
    BY <1>2 DEF Prune, Restrict
  <2> QED BY <2>1, <2>2 DEF Closed, StopStored, Before
<1>3. CASE Store
  <2> DEFINE x == Next0
             n == NextRow
  <2>1. /\ DOMAIN log' = DOMAIN log \cup {n} /\ log'[n] = x
        /\ \A r \in DOMAIN log : log'[r] = log[r] /\ r < n
    BY <1>3, NewRow DEF Store, Put
  <2>2. stored' = stored \cup {x} /\ x \in Range(queue) /\ x \in Events /\ x = queue[1]
        /\ 1 \in 1 .. Len(queue)
    BY <1>3, ReadyQueue DEF Store, Ready, Next0, Typed, Range
  <2> HIDE DEF x, n
  <2>3. ASSUME NEW q \in DOMAIN log', NEW s \in Manuals, log'[q].session = s,
               log'[q].kind # "mstop", StopStored(s)'
        PROVE  \E r \in DOMAIN log' : /\ log'[r].session = s /\ log'[r].kind = "mstop"
                                      /\ Before(log, q, r)'
    <3>1. CASE x.session = s /\ x.kind = "mstop"
      <4>1. q \in DOMAIN log /\ log'[q] = log[q] /\ q < n
        BY <2>1, <2>3, <3>1
      <4>2. log[q] \in Made /\ x \in Made
        BY <2>2, <4>1, MadeIsTyped DEF Appended
      <4>3. log[q].at <= x.at /\ log[q].at \in Int /\ x.at \in Int
        BY <2>3, <3>1, <4>1, <4>2, MadeIsTyped DEF Dated
      <4> QED BY <2>1, <3>1, <4>1, <4>3 DEF Before
    <3>2. CASE ~(x.session = s /\ x.kind = "mstop")
      <4>1. StopStored(s)
        BY <2>2, <2>3, <3>2 DEF StopStored
      <4>2. q \in DOMAIN log
        BY <2>1, <2>2, <2>3, <4>1 DEF Stopping, Ordered, OnlyStops
      <4>3. PICK r \in DOMAIN log : /\ log[r].session = s /\ log[r].kind = "mstop"
                                    /\ Before(log, q, r)
        BY <2>1, <2>3, <4>1, <4>2 DEF Closed
      <4> QED BY <2>1, <4>2, <4>3 DEF Before
    <3> QED BY <3>1, <3>2
  <2> QED BY <2>3 DEF Closed
<1>4. CASE NukeStore
  BY <1>4 DEF NukeStore, Closed, Nothing
<1> QED BY <1>1, <1>2, <1>3, <1>4
        DEF Next, vars, Pass, HookArrives, Start, Stop, LogInterval, Ticker, Mint, Send,
            CoalesceDrop, Lose, Account, Crash, HydrateRead, HydrateFold, NukeRegistry

\* In what hydrate has read, a stop follows whatever a stopped session did before.
ReplayStops ==
  booted = "replay" =>
    \A j \in 1 .. Len(replay) :
      replay[j].session \in Manuals /\ replay[j].kind # "mstop" /\ StopStored(replay[j].session) =>
        \E k \in 1 .. Len(replay) :
          j < k /\ replay[k].session = replay[j].session /\ replay[k].kind = "mstop"

LEMMA NextReplayStops ==
  ASSUME HydratesFirst, Typed, Closed, ReplayStops, [Next]_vars PROVE ReplayStops'
<1>1. CASE UNCHANGED <<booted, replay, stored>>
  BY <1>1 DEF ReplayStops, StopStored
<1>2. CASE Store
  BY <1>2 DEF Store, Ready, HydratesFirst, ReplayStops
<1>3. CASE HydrateRead
  <2> DEFINE t == clock - ReplayWindow
  <2>1. PICK o \in InOrder(Since(t)) : replay' = [i \in DOMAIN o |-> log[o[i]]]
    BY <1>3 DEF HydrateRead
  <2>2. /\ \A r \in Since(t) : \E i \in 1 .. Len(replay') : o[i] = r /\ replay'[i] = log[r]
        /\ DOMAIN o = 1 .. Len(replay')
        /\ \A i \in DOMAIN o : o[i] \in Since(t) /\ replay'[i] = log[o[i]]
        /\ replay' \in Seq(Events)
    BY <2>1, ReadIsSequence
  <2>3. \A i, j \in 1 .. Len(replay') : i < j => Before(log, o[i], o[j])
    BY <2>2 DEF InOrder
  <2>4. UNCHANGED stored
    BY <1>3 DEF HydrateRead
  <2>5. ASSUME NEW j \in 1 .. Len(replay'), replay'[j].session \in Manuals,
               replay'[j].kind # "mstop", StopStored(replay'[j].session)
        PROVE  \E k \in 1 .. Len(replay') :
                 j < k /\ replay'[k].session = replay'[j].session /\ replay'[k].kind = "mstop"
    <3>1. o[j] \in Since(t) /\ o[j] \in DOMAIN log /\ replay'[j] = log[o[j]]
      BY <2>2 DEF Since
    <3>2. PICK r \in DOMAIN log : /\ log[r].session = log[o[j]].session
                                  /\ log[r].kind = "mstop" /\ Before(log, o[j], r)
      BY <2>5, <3>1 DEF Closed
    <3>3. /\ log[r].at \in Int /\ log[o[j]].at \in Int /\ r \in Int /\ o[j] \in Int
          /\ t \in Int
      <4>1. PICK b \in Nat : DOMAIN log \subseteq 1 .. b
        BY DEF Typed
      <4>2. log[r].at \in Int /\ log[o[j]].at \in Int
        BY <3>1 DEF Typed, Events
      <4>3. clock \in Int /\ ReplayWindow \in Int
        BY WriterConfig DEF Typed
      <4>4. r \in 1 .. b /\ o[j] \in 1 .. b
        BY <3>1, <4>1
      <4> QED BY <4>2, <4>3, <4>4
    <3>4. r \in Since(t)
      BY <3>1, <3>2, <3>3 DEF Since, Before
    <3>5. PICK k \in 1 .. Len(replay') : o[k] = r /\ replay'[k] = log[r]
      BY <2>2, <3>4
    <3>6. ~Before(log, r, o[j]) /\ r # o[j]
      BY <3>2, <3>3 DEF Before
    <3>7. j < k
      BY <2>2, <2>3, <3>5, <3>6
    <3> QED BY <3>1, <3>2, <3>5, <3>7
  <2> HIDE DEF t
  <2> QED BY <2>4, <2>5 DEF ReplayStops, StopStored
<1>4. CASE Crash
  BY <1>4 DEF Crash, ReplayStops
<1>5. CASE HydrateFold
  BY <1>5 DEF HydrateFold, ReplayStops
<1> QED BY <1>1, <1>2, <1>3, <1>4, <1>5
        DEF Next, vars, Pass, HookArrives, Start, Stop, LogInterval, Ticker, Mint, Send,
            CoalesceDrop, Prune, Lose, Account, NukeStore, NukeRegistry

LEMMA NextStopping ==
  ASSUME Stills, Typed, Appended, EmptyAtBoot, ReplayStops, Stopping, [Next]_vars
  PROVE  Stopping'
<1>0. /\ queue \in Seq(Events) /\ outbox["control"] \in Seq(Events)
      /\ outbox["ticker"] \in Seq(Events) /\ DOMAIN outbox = {"control", "ticker"}
  BY DEF Typed
<1>a. None.kind # "mstop" /\ \A s \in Manuals : None.session # s
  BY WriterConfig DEF None, NoOne
<1>1. CASE UNCHANGED <<hand, live, queue, outbox, stored>>
  BY <1>1 DEF Stopping, Ordered, Ticking, StopStored
<1>2. ASSUME NEW a \in Agents, NEW k \in HookKinds, HookArrives(a, k) PROVE Stopping'
  <2>1. CASE queue' = queue
    BY <1>1, <1>2, <2>1 DEF HookArrives
  <2>2. CASE queue' = Append(queue, Event(a, k, clock))
    <3> DEFINE x == Event(a, k, clock)
    <3>1. x \in Events /\ x.session = a /\ a \notin Manuals
      BY EventsAreMinted, WriterConfig DEF Event
    <3> HIDE DEF x
    <3>2. UNCHANGED <<outbox, hand, live, stored>>
      BY <1>2 DEF HookArrives
    <3>3. ASSUME NEW s \in Manuals PROVE Ordered(s)'
      <4>1. x.session # s /\ queue' = Append(queue, x)
        BY <2>2, <3>1 DEF x
      <4>2. Ordered(s)
        BY DEF Stopping
      <4>3. /\ HasStop(queue', s) => HasStop(queue, s)
            /\ OnlyStops(queue, s) => OnlyStops(queue', s)
            /\ StopsLast(queue, s) => StopsLast(queue', s)
        BY <1>0, <3>1, <4>1, AppendStops
      <4> QED BY <3>2, <4>1, <4>2, <4>3 DEF Ordered, StopStored
    <3> QED BY <3>2, <3>3 DEF Stopping, Ticking
  <2> QED BY <1>2, <2>1, <2>2 DEF HookArrives
<1>3. ASSUME NEW m \in Manuals, Start(m) \/ Stop(m) \/ Ticker(m) PROVE Stopping'
  BY <1>3, StartStopping, StopStopping, TickerStopping
<1>4. ASSUME NEW m \in Manuals, NEW d \in 1 .. MaxClock, LogInterval(m, d) PROVE Stopping'
  BY <1>4, IntervalStopping
<1>5. ASSUME NEW p \in DOMAIN outbox, Send(p) PROVE Stopping'
  BY <1>0, <1>5, SendStopping
\* The writer takes the head of the queue.
<1>6. ASSUME Ready, queue' = Tail(queue), UNCHANGED outbox,
             \/ hand' = None /\ stored' = stored
             \/ hand' = Next0 /\ stored' = stored \cup {Next0},
             \A s \in DOMAIN live' : s \in DOMAIN live /\ live'[s].ended = live[s].ended
      PROVE  Stopping'
  <2>1. queue # <<>> /\ hand = None /\ None \notin stored
    BY <1>6, NoneIsNoEvent DEF Ready, Typed
  <2>2. ASSUME NEW s \in Manuals PROVE Ordered(s)'
    <3>1. Ordered(s)
      BY DEF Stopping
    <3> DEFINE x == Next0
    <3>2. /\ OnlyStops(queue, s) => OnlyStops(queue', s) /\ (x.session = s => x.kind = "mstop")
          /\ StopsLast(queue, s) => StopsLast(queue', s)
          /\ StopsLast(queue, s) /\ x.session = s /\ x.kind = "mstop" => OnlyStops(queue', s)
          /\ HasStop(queue', s) => HasStop(queue, s)
          /\ x.session = s /\ x.kind = "mstop" => HasStop(queue, s)
      BY <1>0, <1>6, <2>1, TailStops DEF Next0
    <3> HIDE DEF x
    <3>3. \/ hand' = None /\ stored' = stored
          \/ hand' = x /\ stored' = stored \cup {x}
      BY <1>6 DEF x
    <3>4. StopStored(s)' => StopStored(s) \/ (x.session = s /\ x.kind = "mstop")
      BY <3>3 DEF StopStored
    <3>5. StopStored(s)' =>
            /\ OnlyStops(queue', s) /\ OnlyStops(outbox["control"], s)
            /\ NoneOf(outbox["ticker"], s)
            /\ x.session = s => x.kind = "mstop"
      BY <3>1, <3>2, <3>4 DEF Ordered
    <3>6. ASSUME NEW e \in stored', e.session = s, e.kind = "mstop", e # hand', s \in DOMAIN live'
          PROVE  live'[s].ended
      <4>1. e \in stored /\ e # hand
        BY <2>1, <3>3, <3>6
      <4> QED BY <1>6, <3>1, <3>6, <4>1 DEF Ordered
    <3> QED BY <1>a, <1>6, <3>1, <3>2, <3>3, <3>5, <3>6 DEF Ordered
  <2> QED BY <1>6, <2>2 DEF Stopping, Ticking
<1>7. CASE CoalesceDrop
  BY <1>6, <1>7 DEF CoalesceDrop, Ready
<1>8. CASE Prune
  <2>1. \A s \in DOMAIN live' : s \in DOMAIN live /\ live'[s] = live[s]
    BY <1>8 DEF Prune, Forget, Restrict
  <2> QED BY <1>6, <1>8, <2>1 DEF Prune, Ready
<1>9. CASE Store
  BY <1>6, <1>9 DEF Store
<1>10. CASE Lose
  BY <1>6, <1>10 DEF Lose, Ready
<1>11. CASE Account
  <2>1. hand \in Events /\ hand # None
    BY <1>11 DEF Typed, Account
  <2> DEFINE r == [live |-> live, opener |-> opener]
  <2>2. /\ DOMAIN live' = DOMAIN live \cup {hand.session}
        /\ \A s \in DOMAIN live : s # hand.session => live'[s].ended = live[s].ended
        /\ live'[hand.session].ended <=> Terminal(hand.kind)
    <3>1. IsRegistry(r.live, r.opener) /\ r.live = live /\ live' = Observe(r, hand).live
      BY <1>11 DEF Typed, Account, Fold
    <3> HIDE DEF r
    <3> QED BY <2>1, <3>1, ObserveFolds
  <2>3. hand' = None /\ UNCHANGED <<queue, outbox, stored>>
    BY <1>11 DEF Account
  <2>4. ASSUME NEW s \in Manuals PROVE Ordered(s)'
    <3>1. Ordered(s)
      BY DEF Stopping
    <3>2. ASSUME NEW e \in stored, e.session = s, e.kind = "mstop", s \in DOMAIN live'
          PROVE  live'[s].ended
      <4>1. CASE hand.session = s
        <5>1. hand.kind = "mstop"
          BY <3>1, <3>2, <4>1 DEF Ordered, StopStored
        <5> QED BY <2>2, <4>1, <5>1 DEF Terminal
      <4>2. CASE hand.session # s
        <5>1. e # hand /\ s \in DOMAIN live
          BY <2>2, <3>2, <4>2
        <5> QED BY <2>2, <3>1, <3>2, <4>2, <5>1 DEF Ordered
      <4> QED BY <4>1, <4>2
    <3> QED BY <1>a, <2>3, <3>1, <3>2 DEF Ordered, StopStored
  <2> QED BY <2>3, <2>4 DEF Stopping, Ticking
<1>12. CASE Crash
  <2>1. /\ queue' = <<>> /\ outbox' = [p \in DOMAIN outbox |-> <<>>] /\ hand' = None
        /\ DOMAIN live' = {}
    BY <1>12 DEF Crash, Nothing
  <2>2. outbox'["control"] = <<>> /\ outbox'["ticker"] = <<>>
    BY <1>0, <2>1
  <2> QED BY <1>a, <2>1, <2>2 DEF Stopping, Ordered, Ticking, OnlyStops, NoneOf, HasStop,
             StopsLast
<1>13. CASE HydrateRead
  BY <1>1, <1>13 DEF HydrateRead
<1>14. CASE HydrateFold
  <2>1. UNCHANGED <<queue, outbox, hand, stored>> /\ booted = "replay"
    BY <1>14 DEF HydrateFold
  <2> DEFINE r == replayed[Len(replay)]
  <2>2. ASSUME NEW s \in Manuals, StopStored(s), s \in DOMAIN live' PROVE live'[s].ended
    <3>1. live' = r.live
      BY <1>14 DEF HydrateFold
    <3>2. replay \in Seq(Events) /\ IsRegistry(live, opener) /\ DOMAIN live = {}
      BY <2>1 DEF Typed, EmptyAtBoot
    <3>3. PICK j \in 1 .. Len(replay) : EndedBy(r.live, s, j, Len(replay))
      BY <2>2, <3>1, <3>2, ReplayKeeps
    <3>4. replay[j].kind = "mstop"
      BY <2>1, <2>2, <3>3 DEF ReplayStops, EndedBy
    <3> QED BY <3>1, <3>3, <3>4 DEF Terminal, EndedBy
  <2> HIDE DEF r
  <2>3. ASSUME NEW s \in Manuals PROVE Ordered(s)'
    <3>1. Ordered(s)
      BY DEF Stopping
    <3> QED BY <2>1, <2>2, <3>1 DEF Ordered, StopStored
  <2> QED BY <2>1, <2>3 DEF Stopping, Ticking
<1>15. CASE NukeStore
  BY <1>1, <1>15 DEF NukeStore
<1>16. CASE NukeRegistry
  <2>1. DOMAIN live' = {}
    BY <1>16 DEF NukeRegistry, Nothing
  <2> QED BY <1>16, <2>1 DEF NukeRegistry, Stopping, Ordered, Ticking, StopStored
<1>17. CASE Pass \/ UNCHANGED vars
  BY <1>1, <1>17 DEF Pass, vars
<1> QED BY <1>2, <1>3, <1>4, <1>5, <1>7, <1>8, <1>9, <1>10, <1>11, <1>12, <1>13, <1>14,
           <1>15, <1>16, <1>17 DEF Next

\* A manual session that was stopped is not shown as running again: not by a tick that
\* waited when the stop came, by an interval that was logged, or by the replay after a
\* restart, whatever part of the log it reads; for any sessions, queue and crashes,
\* when the ticker leaves a session alone whose stop is on its way and the writer takes
\* no message before the replay is folded.
THEOREM StopIsFinal ==
  ASSUME HydratesFirst, Stills PROVE Spec => []StoppedStaysStopped
<1> DEFINE I == /\ Typed /\ Appended /\ EmptyAtBoot /\ Stopping
                /\ Dated /\ Closed /\ ReplayStops
<1>1. Init => I
  <2>1. ASSUME Init PROVE Dated
    <3>1. stored = {} /\ Range(queue) = {} /\ hand = None /\ clock = 1
          /\ \A p \in DOMAIN outbox : Range(outbox[p]) = {}
      BY <2>1 DEF Init, Range
    <3>2. \A e \in Made : e = None
      BY <3>1 DEF Made, Pending
    <3> QED BY <3>1, <3>2, WriterConfig DEF Dated, None, NoOne
  <2> QED BY <2>1, InitIsTyped, InitAppended, InitStopping
          DEF Init, EmptyAtBoot, Closed, ReplayStops, Nothing
<1>2. I /\ [Next]_vars => I'
  BY NextIsTyped, NextAppended, NextEmptyAtBoot, NextStopping, NextDated, NextClosed,
     NextReplayStops
<1>3. I => StoppedStaysStopped
  <2> SUFFICES ASSUME I, NEW e \in stored, e.kind = "mstop", e # hand,
                      e.session \in DOMAIN live
               PROVE  live[e.session].ended
    BY DEF StoppedStaysStopped
  <2>1. e.session \in Manuals
    BY WriterConfig DEF Typed, Events
  <2> QED BY <2>1 DEF Stopping, Ordered
<1> QED BY <1>1, <1>2, <1>3, PTL DEF Spec

--------------------------------------------------------------------------------
(* TokenCapture: no offset stands behind a turn that was not stored.       *)

TurnSpec == TurnInit /\ [][TurnNext]_turnVars

\* Every row is written, the two marks are written together, and no offset is
\* older than its fingerprint.
MarksTogether ==
  /\ TurnHazards \cap {"row_fails", "torn_marks", "legacy"} = {}
  /\ Prologue \in Nat \ {0}

Gens == Nat \ {0}
Marks == {NoFp} \cup (Gens \X (Nat \ {0}))

\* The first n half lines of generation g hold only turns that were stored.
Stored(g, n) == \A i \in 1 .. Lines(n) : <<g, i>> \in rows

Shaped ==
  /\ file \in [gen : Gens, size : Nat] /\ offset \in Nat /\ fp \in Marks
  /\ step \in {"idle", "opened", "read", "mark", "name"}

\* The offset is that of the generation the fingerprint names.
MarksMatch ==
  step # "name" => IF fp = NoFp THEN offset = 0 ELSE Stored(fp[1], offset)

\* A capture under way keeps to the file it opened.
Reading ==
  /\ step \in {"opened", "read", "name"} =>
       /\ open \in [gen : Gens, size : Nat, fp : Marks]
       /\ open.fp = Fingerprint(open.gen, open.size)
  /\ step \in {"read", "name"} => open.size # 0
  /\ step = "read" =>
       /\ tail \in [from : Nat, to : Nat, next : Nat \ {0}]
       /\ \A i \in 1 .. tail.next - 1 : <<open.gen, i>> \in rows
  /\ step = "name" => Stored(open.gen, offset)

TurnInv == Shaped /\ MarksMatch /\ Reading

LEMMA FingerprintIsMark ==
  ASSUME Prologue \in Nat \ {0}, NEW g \in Gens, NEW n \in Nat
  PROVE  /\ Fingerprint(g, n) \in Marks
         /\ n = 0 <=> Fingerprint(g, n) = NoFp
         /\ n # 0 => Fingerprint(g, n)[1] = g
BY DEF Fingerprint, Marks, NoFp, Least, Gens

LEMMA LinesWhole ==
  ASSUME NEW n \in Nat PROVE Lines(n) \in Nat /\ Lines(2 * Lines(n)) = Lines(n)
BY DEF Lines

\* What a capture starts behind, in the file it opened, has been stored.
LEMMA FromIsStored ==
  ASSUME MarksTogether, TurnInv, step = "opened" PROVE From \in Nat /\ Stored(open.gen, From)
<1> USE DEF TurnInv, Shaped, Reading
<1>1. CASE open.size < offset \/ Swapped \/ offset = 0
  BY <1>1 DEF From, Stored, Lines
<1>2. CASE ~(open.size < offset) /\ ~Swapped /\ offset # 0
  <2>1. fp # NoFp /\ Stored(fp[1], offset)
    BY <1>2 DEF MarksMatch
  <2>2. open.size # 0
    BY <1>2
  <2>3. open.fp # NoFp /\ open.fp[1] = open.gen
    BY <2>2, FingerprintIsMark DEF MarksTogether
  <2>4. fp[1] = open.gen
    BY <1>2, <2>1, <2>3 DEF Swapped
  <2> QED BY <1>2, <2>1, <2>4 DEF From
<1> QED BY <1>1, <1>2

LEMMA TurnStep == ASSUME MarksTogether, TurnInv, [TurnNext]_turnVars PROVE TurnInv'
<1> USE DEF TurnInv, Shaped
<1>1. CASE Extend \/ \E n \in 0 .. 2 * MaxLines : Replace(n)
  <2>1. file' \in [gen : Gens, size : Nat]
    BY <1>1 DEF Extend, Replace, Gens
  <2> QED BY <1>1, <2>1 DEF Extend, Replace, MarksMatch, Reading, Stored
<1>2. CASE Open
  <2>1. open' \in [gen : Gens, size : Nat, fp : Marks]
    BY <1>2, FingerprintIsMark DEF Open, MarksTogether
  <2>2. open'.fp = Fingerprint(open'.gen, open'.size)
    BY <1>2 DEF Open
  <2> QED BY <1>2, <2>1, <2>2 DEF Open, MarksMatch, Reading, Stored
<1>3. CASE RememberFp
  <2>1. open.fp \in Marks
    BY <1>3 DEF RememberFp, Reading
  <2>2. MarksMatch'
    BY <1>3 DEF RememberFp, MarksMatch, Stored, Lines
  <2> QED BY <1>3, <2>1, <2>2 DEF RememberFp, Reading
<1>4. ASSUME NEW n \in 0 .. 2 * MaxLines, Read(n) PROVE TurnInv'
  <2>1. From \in Nat /\ Stored(open.gen, From)
    BY <1>4, FromIsStored DEF Read
  <2>2. n \in Nat
    BY <1>4 DEF Read, Reading
  <2>3. tail' = [from |-> From, to |-> n, next |-> Lines(From) + 1]
    BY <1>4 DEF Read
  <2>4. tail' \in [from : Nat, to : Nat, next : Nat \ {0}]
    BY <2>1, <2>2, <2>3, LinesWhole
  <2>5. \A i \in 1 .. tail'.next - 1 : <<open.gen, i>> \in rows
    BY <2>1, <2>3, LinesWhole DEF Stored
  <2>6. open.size # 0
    <3>1. ASSUME open.size = 0 PROVE FALSE
      <4>1. open.fp = NoFp /\ From = 0
        BY <1>4, <3>1, FingerprintIsMark DEF Read, Reading, MarksTogether, From
      <4> QED BY <1>4, <3>1, <4>1 DEF Read, NothingNew, Swapped
    <3> QED BY <3>1
  <2> QED BY <1>4, <2>4, <2>5, <2>6 DEF Read, MarksMatch, Reading, Stored
<1>5. CASE \E ok \in BOOLEAN : UpsertTokenUsage(ok)
  <2>1. rows' = rows \cup {<<open.gen, tail.next>>} /\ tail' = [tail EXCEPT !.next = @ + 1]
        /\ step = "read" /\ UNCHANGED <<file, offset, fp, step, open>>
    BY <1>5 DEF UpsertTokenUsage, MarksTogether
  <2>2. tail' \in [from : Nat, to : Nat, next : Nat \ {0}] /\ tail'.next = tail.next + 1
    BY <2>1 DEF Reading
  <2>3. \A i \in 1 .. tail'.next - 1 : <<open.gen, i>> \in rows'
    BY <2>1, <2>2 DEF Reading
  <2> QED BY <2>1, <2>2, <2>3 DEF MarksMatch, Reading, Stored
<1>6. CASE \E ok \in BOOLEAN : MarkOffset(ok)
  <2>1. step = "read" /\ tail.next > Lines(tail.to) /\ UNCHANGED <<file, fp, rows>>
    BY <1>6 DEF MarkOffset
  <2>2. tail.to \in Nat /\ tail.next \in Nat /\ Lines(tail.to) \in Nat
    BY <2>1, LinesWhole DEF Reading
  <2>3. CASE NewOffset > tail.from
    <3>1. offset' = NewOffset /\ step' = "name" /\ UNCHANGED open
      BY <1>6, <2>3 DEF MarkOffset, MarksTogether
    <3>2. Lines(NewOffset) = Lines(tail.to) /\ NewOffset \in Nat
      BY <2>2, LinesWhole DEF NewOffset
    <3>3. \A i \in 1 .. Lines(NewOffset) : <<open.gen, i>> \in rows
      BY <2>1, <2>2, <3>2 DEF Reading
    <3>4. Stored(open.gen, offset)'
      BY <2>1, <3>1, <3>3 DEF Stored
    <3> QED BY <2>1, <3>1, <3>2, <3>4 DEF MarksMatch, Reading
  <2>4. CASE ~(NewOffset > tail.from)
    BY <1>6, <2>1, <2>4 DEF MarkOffset, MarksMatch, Reading, Stored
  <2> QED BY <2>3, <2>4
<1>7. CASE \E ok \in BOOLEAN : MarkFp(ok)
  <2>1. step = "name" /\ step' = "idle" /\ UNCHANGED <<file, offset, rows>>
    BY <1>7 DEF MarkFp
  <2>2. open.fp # NoFp /\ open.fp[1] = open.gen
    BY <2>1, FingerprintIsMark DEF Reading, MarksTogether
  <2>3. fp' = open.fp /\ open.fp \in Marks
    BY <1>7, <2>1, <2>2 DEF MarkFp, MarksTogether, Reading
  <2>4. Stored(open.gen, offset)
    BY <2>1 DEF Reading
  <2> QED BY <2>1, <2>2, <2>3, <2>4 DEF MarksMatch, Reading, Stored
<1>8. CASE TurnCrash
  BY <1>8 DEF TurnCrash, MarksTogether, MarksMatch, Reading, Stored
<1>9. CASE UNCHANGED turnVars
  BY <1>9 DEF turnVars, MarksMatch, Reading, Stored
<1> QED BY <1>1, <1>2, <1>3, <1>4, <1>5, <1>6, <1>7, <1>8, <1>9 DEF TurnNext

LEMMA InvSkipsNone == ASSUME MarksTogether, TurnInv PROVE NoTurnSkipped
<1> SUFFICES ASSUME step = "idle" PROVE \A i \in 1 .. Lines(WouldSkip) : <<file.gen, i>> \in rows
  BY DEF NoTurnSkipped
<1> DEFINE now == Fingerprint(file.gen, file.size)
<1>1. file.gen \in Gens /\ file.size \in Nat /\ offset \in Nat
  BY DEF TurnInv, Shaped
<1>2. now = NoFp => file.size = 0
  BY <1>1, FingerprintIsMark DEF MarksTogether
<1>3. now # NoFp => now[1] = file.gen
  BY <1>1, FingerprintIsMark DEF MarksTogether
<1>4. CASE WouldSkip = 0
  BY <1>4 DEF Lines
<1>5. CASE WouldSkip # 0
  <2>1. WouldSkip = offset /\ offset # 0 /\ ~(file.size < offset)
        /\ ~(fp # NoFp /\ now # NoFp /\ fp # now)
    BY <1>5 DEF WouldSkip
  <2>2. now # NoFp
    BY <1>1, <1>2, <2>1
  <2>3. fp # NoFp /\ Stored(fp[1], offset)
    BY <2>1 DEF TurnInv, MarksMatch
  <2> QED BY <1>3, <2>1, <2>2, <2>3 DEF Stored
<1> QED BY <1>4, <1>5

\* An offset never stands past a turn without its row: for any fingerprint length,
\* any number of turns and of replaced transcripts, torn lines and crashes between
\* the rows included.
THEOREM EveryTurnIsStored == ASSUME MarksTogether PROVE TurnSpec => []NoTurnSkipped
<1>1. TurnInit => TurnInv
  BY DEF TurnInit, TurnInv, Shaped, MarksMatch, Reading, MarksTogether, Gens, Marks
<1>2. TurnInv /\ [TurnNext]_turnVars => TurnInv'
  BY TurnStep
<1>3. TurnInv => NoTurnSkipped
  BY InvSkipsNone
<1> QED BY <1>1, <1>2, <1>3, PTL DEF TurnSpec

--------------------------------------------------------------------------------
(* Mates arrive in the order of their instants.                            *)

\* Two events that one sum orders: of one session, or both human.
Mates(x, y) == x.session = y.session \/ (Human(x.kind) /\ Human(y.kind))
Precede(A, B) == \A x \in A, y \in B : Mates(x, y) => x.at <= y.at
Sorted(q) == \A i, j \in 1 .. Len(q) : i < j /\ Mates(q[i], q[j]) => q[i].at <= q[j].at

Rows == Range(log)
Queued == Range(queue)
Commanded == Range(outbox["control"])
Ticked == Range(outbox["ticker"])

\* What waits to be appended is no older than its mates before it, wherever they
\* are; only the start of a logged interval lies in the past.
Timely ==
  /\ \A e \in Rows \cup Queued \cup Commanded : e.at <= clock
  /\ \A e \in Ticked : e.at = clock
  /\ \A e \in Commanded : e.session \in Manuals /\ (e.at = clock \/ e.kind = "mstart")
  /\ Sorted(queue) /\ Sorted(outbox["control"])
  /\ Precede(Rows, Queued)
  /\ Precede(Rows \cup Queued, Commanded \cup Ticked)
  /\ Precede(Commanded, Ticked) /\ Precede(Ticked, Commanded)

\* Nobody waits with a stamped event, and no interval is logged across the
\* signals of others.
InStep == {"slow_send", "overlap"} \cap Hazards = {}

LEMMA EventInstants ==
  ASSUME Typed
  PROVE  /\ \A e \in Rows \cup Queued \cup Commanded \cup Ticked : e \in Events /\ e.at \in Int
         /\ clock \in Int
         /\ DOMAIN outbox = {"control", "ticker"}
         /\ queue \in Seq(Events) /\ outbox["control"] \in Seq(Events)
         /\ outbox["ticker"] \in Seq(Events)
<1>1. /\ queue \in Seq(Events) /\ outbox["control"] \in Seq(Events)
      /\ outbox["ticker"] \in Seq(Events) /\ log \in [DOMAIN log -> Events]
      /\ clock \in Int /\ DOMAIN outbox = {"control", "ticker"}
  BY DEF Typed
<1>2. \A e \in Rows \cup Queued \cup Commanded \cup Ticked : e \in Events
  BY <1>1 DEF Rows, Queued, Commanded, Ticked, Range
<1>3. \A e \in Events : e.at \in Int
  BY DEF Events
<1> QED BY <1>1, <1>2, <1>3

\* One more event at the end of a sorted queue.
LEMMA SortedAppend ==
  ASSUME NEW q \in Seq(Events), NEW x \in Events, Sorted(q), Precede(Range(q), {x})
  PROVE  Sorted(Append(q, x))
<1> DEFINE a == Append(q, x)
           n == Len(q) + 1
<1>1. /\ Len(q) \in Nat /\ Len(a) = n /\ a[n] = x
      /\ \A i \in 1 .. Len(q) : a[i] = q[i] /\ q[i] \in Range(q)
  BY DEF Range
<1> HIDE DEF a
<1>2. \A i, j \in 1 .. Len(a) : i < j => i \in 1 .. Len(q) /\ (j \in 1 .. Len(q) \/ j = n)
  BY <1>1
<1> HIDE DEF n
<1>3. \A i \in 1 .. Len(q) : Mates(a[i], x) => a[i].at <= x.at
  BY <1>1 DEF Precede
<1>4. \A i, j \in 1 .. Len(q) : i < j /\ Mates(a[i], a[j]) => a[i].at <= a[j].at
  BY <1>1 DEF Sorted
<1>5. Sorted(a)
  BY <1>1, <1>2, <1>3, <1>4 DEF Sorted
<1> QED BY <1>5 DEF a

\* The head of a sorted queue precedes the rest.
LEMMA SortedTail ==
  ASSUME NEW q \in Seq(Events), q # <<>>, Sorted(q)
  PROVE  Sorted(Tail(q)) /\ Precede({Head(q)}, Range(Tail(q)))
<1> DEFINE t == Tail(q)
<1>1. /\ Len(q) \in Nat \ {0} /\ Len(t) = Len(q) - 1 /\ Head(q) = q[1]
      /\ DOMAIN t = 1 .. Len(t) /\ \A i \in 1 .. Len(t) : t[i] = q[i + 1]
  OBVIOUS
<1> HIDE DEF t
<1>2. /\ 1 \in 1 .. Len(q)
      /\ \A i \in 1 .. Len(t) : i + 1 \in 1 .. Len(q) /\ 1 < i + 1
  BY <1>1
<1>3. \A i, j \in 1 .. Len(t) : i < j => i + 1 < j + 1
  BY <1>1
<1>4. Sorted(t)
  BY <1>1, <1>2, <1>3 DEF Sorted
<1>5. \A i \in 1 .. Len(t) : Mates(Head(q), t[i]) => Head(q).at <= t[i].at
  BY <1>1, <1>2 DEF Sorted
<1>6. Precede({Head(q)}, Range(t))
  BY <1>1, <1>5 DEF Precede, Range
<1> QED BY <1>4, <1>6 DEF t

LEMMA TimelyShrinks ==
  ASSUME Timely, clock' = clock, Rows' \subseteq Rows, Queued' \subseteq Queued,
         Commanded' \subseteq Commanded, Ticked' \subseteq Ticked,
         Sorted(queue)', Sorted(outbox["control"])'
  PROVE  Timely'
BY DEF Timely, Precede

LEMMA TimelyMint ==
  ASSUME Typed, Timely, NEW p \in {"control", "ticker"}, NEW evs \in Seq(Events), Mint(p, evs),
         Sorted(evs), \A e \in Range(evs) : e.at <= clock /\ (e.at = clock \/ e.kind = "mstart"),
         Precede(Rows \cup Queued, Range(evs)),
         p = "control" => /\ Precede(Range(evs), Ticked) /\ Precede(Ticked, Range(evs))
                          /\ \A e \in Range(evs) : e.session \in Manuals,
         p = "ticker" => /\ Precede(Range(evs), Commanded) /\ Precede(Commanded, Range(evs))
                         /\ \A e \in Range(evs) : e.at = clock
  PROVE  Timely'
<1>1. /\ UNCHANGED <<clock, queue, log>> /\ outbox' = [outbox EXCEPT ![p] = evs]
      /\ DOMAIN outbox = {"control", "ticker"}
  BY EventInstants DEF Mint
<1>2. Rows' = Rows /\ Queued' = Queued /\ Sorted(queue)'
  BY <1>1 DEF Rows, Queued, Timely
<1>3. CASE p = "control"
  <2>1. outbox'["control"] = evs /\ outbox'["ticker"] = outbox["ticker"]
    BY <1>1, <1>3
  <2>2. Commanded' = Range(evs) /\ Ticked' = Ticked /\ Sorted(outbox["control"])'
    BY <2>1 DEF Commanded, Ticked
  <2> QED BY <1>1, <1>2, <1>3, <2>2 DEF Timely, Precede
<1>4. CASE p = "ticker"
  <2>1. outbox'["ticker"] = evs /\ outbox'["control"] = outbox["control"]
    BY <1>1, <1>4
  <2>2. Ticked' = Range(evs) /\ Commanded' = Commanded /\ Sorted(outbox["control"])'
    BY <2>1 DEF Commanded, Ticked, Timely
  <2> QED BY <1>1, <1>2, <1>4, <2>2 DEF Timely, Precede
<1> QED BY <1>3, <1>4

\* What is minted now follows everything there is.
LEMMA NowFollows ==
  ASSUME Typed, Timely, NEW B, \A e \in B : e.at = clock
  PROVE  /\ Precede(Rows \cup Queued, B) /\ Precede(Commanded, B)
         /\ Precede(Ticked, B) /\ Precede(B, Ticked)
<1>1. \A e \in Rows \cup Queued \cup Commanded : e.at <= clock
  BY DEF Timely
<1>2. \A e \in Ticked : e.at = clock
  BY DEF Timely
<1>3. clock \in Int
  BY EventInstants
<1> QED BY <1>1, <1>2, <1>3 DEF Precede

\* No start of the past is under way: what the commands send is of now.
LEMMA NotBackdated ==
  ASSUME Typed, Timely, ~Backdated PROVE \A e \in Commanded : e.at = clock
<1> SUFFICES ASSUME NEW e \in Commanded, e.at # clock PROVE FALSE
  OBVIOUS
<1>1. e.kind = "mstart" /\ e.at < clock
  <2>1. e.kind = "mstart" /\ e.at <= clock
    BY DEF Timely
  <2> QED BY <2>1, EventInstants
<1>2. e \in Pending /\ e # None
  <2>1. e \in Pending
    BY EventInstants DEF Pending, Commanded
  <2> QED BY <2>1, EventInstants, NoneIsNoEvent
<1> QED BY <1>1, <1>2 DEF Backdated

LEMMA MintNowTimely ==
  ASSUME InStep, Typed, Timely, NEW p \in {"control", "ticker"}, NEW e \in Events,
         Mint(p, <<e>>), e.at = clock, e.session \in Manuals, p = "ticker" => ~Backdated
  PROVE  Timely'
<1> DEFINE evs == <<e>>
<1>1. evs \in Seq(Events) /\ Range(evs) = {e} /\ Sorted(evs)
  <2>1. evs \in Seq(Events) /\ Len(evs) = 1 /\ evs[1] = e /\ DOMAIN evs = 1 .. 1
    OBVIOUS
  <2>2. \A i \in 1 .. Len(evs) : i = 1
    BY <2>1
  <2> HIDE DEF evs
  <2> QED BY <2>1, <2>2 DEF Range, Sorted
<1> HIDE DEF evs
<1>2. \A x \in Range(evs) : x.at = clock /\ x.at <= clock
  BY <1>1, EventInstants
<1>3. p = "ticker" => \A x \in Commanded : x.at = clock
  BY NotBackdated
<1>4. p = "ticker" => Precede(Range(evs), Commanded)
  BY <1>2, <1>3, EventInstants DEF Precede
<1>5. /\ Precede(Rows \cup Queued, Range(evs)) /\ Precede(Commanded, Range(evs))
      /\ Precede(Ticked, Range(evs)) /\ Precede(Range(evs), Ticked)
  BY <1>2, NowFollows
<1> QED BY <1>1, <1>2, <1>4, <1>5, TimelyMint DEF evs

LEMMA IntervalTimely ==
  ASSUME InStep, Typed, Appended, Timely, NEW s \in Manuals, NEW d \in 1 .. MaxClock,
         LogInterval(s, d)
  PROVE  Timely'
<1> DEFINE x == Event(s, "mstart", clock - d)
           y == [Event(s, "mstop", clock) EXCEPT !.id = made + 2]
           evs == <<x, y>>
<1>0. clock \in Int /\ d \in Int /\ d > 0
  BY WriterConfig, EventInstants
<1>1. /\ x \in Events /\ x.session = s /\ x.kind = "mstart" /\ x.at = clock - d
      /\ y \in Events /\ y.session = s /\ y.kind = "mstop" /\ y.at = clock
  <2>1. clock \in Int /\ clock - d \in Int /\ {"mstart", "mstop"} \subseteq ManualKinds
    BY <1>0 DEF ManualKinds
  <2>2. x \in Events /\ y \in Events
    BY <2>1, EventsAreMinted
  <2> QED BY <2>2 DEF Event
<1>2. /\ Mint("control", evs) /\ NewManual(s)
      /\ \A e \in stored \cup Pending : Human(e.kind) => e.at <= clock - d
  BY DEF LogInterval, InStep
<1> HIDE DEF x, y
<1>3. evs \in Seq(Events) /\ Range(evs) = {x, y} /\ Sorted(evs)
  <2>1. evs \in Seq(Events) /\ Len(evs) = 2 /\ evs[1] = x /\ evs[2] = y /\ DOMAIN evs = 1 .. 2
    BY <1>1
  <2>2. (\A i \in 1 .. 2 : i = 1 \/ i = 2) /\ 1 \in 1 .. 2 /\ 2 \in 1 .. 2
    OBVIOUS
  <2>3. \A i, j \in 1 .. 2 : i < j => i = 1 /\ j = 2
    OBVIOUS
  <2> HIDE DEF evs
  <2>4. x.at <= y.at
    BY <1>0, <1>1
  <2> QED BY <2>1, <2>2, <2>3, <2>4 DEF Range, Sorted
<1> HIDE DEF evs
<1>4. Rows \cup Queued \cup Ticked \subseteq stored \cup Pending
  BY EventInstants DEF Rows, Queued, Ticked, Pending, Appended, Range
<1>5. ASSUME NEW e \in Rows \cup Queued \cup Ticked, Mates(e, x) \/ Mates(x, e)
      PROVE  e.at <= x.at
  <2>1. e.session # s
    BY <1>2, <1>4 DEF NewManual
  <2>2. Human(e.kind)
    BY <1>1, <1>5, <2>1 DEF Mates
  <2> QED BY <1>1, <1>2, <1>4, <2>2
<1>6. Precede(Rows \cup Queued, {y}) /\ Precede(Ticked, {y}) /\ Precede({y}, Ticked)
  BY <1>1, NowFollows
<1>7. Precede(Rows \cup Queued, Range(evs)) /\ Precede(Ticked, Range(evs))
  BY <1>3, <1>5, <1>6 DEF Precede
<1>8. Precede(Range(evs), Ticked)
  <2>1. \A e \in Ticked : x.at <= e.at
    BY <1>0, <1>1 DEF Timely
  <2> QED BY <1>3, <1>6, <2>1 DEF Precede
<1>9. \A e \in Range(evs) :
        e.session \in Manuals /\ e.at <= clock /\ (e.at = clock \/ e.kind = "mstart")
  BY <1>0, <1>1, <1>3
<1> QED BY <1>2, <1>3, <1>7, <1>8, <1>9, TimelyMint

LEMMA SendTimely ==
  ASSUME Typed, Timely, NEW p \in {"control", "ticker"}, Send(p) PROVE Timely'
<1> DEFINE x == Head(outbox[p])
           rest == Tail(outbox[p])
<1>1. /\ outbox[p] \in Seq(Events) /\ outbox[p] # <<>> /\ x \in Events /\ rest \in Seq(Events)
      /\ Range(outbox[p]) = {x} \cup Range(rest)
  <2>1. outbox[p] \in Seq(Events) /\ outbox[p] # <<>>
    BY DEF Typed, Send
  <2>2. Range(outbox[p]) = {x} \cup Range(rest)
    BY <2>1, RangeOfTail
  <2> QED BY <2>1, <2>2
<1>2. /\ queue' = Append(queue, x) /\ outbox' = [outbox EXCEPT ![p] = rest]
      /\ DOMAIN outbox = {"control", "ticker"} /\ UNCHANGED <<clock, log>>
  BY EventInstants DEF Send
<1>3. p = "control" => Sorted(rest) /\ Precede({x}, Range(rest))
  BY <1>1, SortedTail DEF Timely
<1> HIDE DEF x, rest
<1>4. Queued' \subseteq Queued \cup {x} /\ Rows' = Rows
  BY <1>1, <1>2, RangeOfAppend, EventInstants DEF Queued, Rows
<1>5. CASE p = "control"
  <2>1. /\ Commanded' = Range(rest) /\ Ticked' = Ticked /\ Commanded = {x} \cup Range(rest)
        /\ outbox'["control"] = rest
    BY <1>1, <1>2, <1>5 DEF Commanded, Ticked
  <2>2. Precede(Queued, {x})
    BY <2>1 DEF Timely, Precede
  <2>3. Sorted(queue)'
    BY <1>1, <1>2, <2>2, SortedAppend, EventInstants DEF Timely, Queued
  <2>4. Precede(Rows \cup Queued \cup {x}, Commanded' \cup Ticked')
    BY <1>3, <1>5, <2>1 DEF Timely, Precede
  <2>5. Precede(Rows, Queued') /\ \A e \in Queued' \cup Commanded' : e.at <= clock
    BY <1>4, <2>1 DEF Timely, Precede
  <2>6. Precede(Rows' \cup Queued', Commanded' \cup Ticked')
    BY <1>4, <2>4 DEF Precede
  <2> QED BY <1>2, <1>3, <1>4, <1>5, <2>1, <2>3, <2>5, <2>6 DEF Timely, Precede
<1>6. CASE p = "ticker"
  <2>1. /\ Ticked' = Range(rest) /\ Commanded' = Commanded /\ Ticked = {x} \cup Range(rest)
        /\ outbox'["control"] = outbox["control"]
    BY <1>1, <1>2, <1>6 DEF Commanded, Ticked
  <2>2. Precede(Queued, {x})
    BY <2>1 DEF Timely, Precede
  <2>3. Sorted(queue)'
    BY <1>1, <1>2, <2>2, SortedAppend, EventInstants DEF Timely, Queued
  <2>a. x.at = clock /\ \A e \in Ticked : e.at = clock
    BY <2>1 DEF Timely
  <2>b. clock \in Int
    BY EventInstants
  <2>4. Precede(Rows \cup Queued \cup {x}, Commanded' \cup Ticked')
    <3>1. Precede(Rows \cup Queued, Commanded' \cup Ticked') /\ Precede({x}, Commanded')
      BY <2>1 DEF Timely, Precede
    <3>2. Precede({x}, Ticked')
      BY <2>1, <2>a, <2>b DEF Precede
    <3> QED BY <3>1, <3>2 DEF Precede
  <2>5. Precede(Rows, Queued') /\ \A e \in Queued' \cup Commanded' : e.at <= clock
    BY <1>4, <2>1, <2>a, <2>b DEF Timely, Precede
  <2>6. Precede(Rows' \cup Queued', Commanded' \cup Ticked')
    BY <1>4, <2>4 DEF Precede
  <2> QED BY <1>2, <1>4, <2>1, <2>3, <2>5, <2>6 DEF Timely, Precede
<1> QED BY <1>5, <1>6

LEMMA NextTimely ==
  ASSUME InStep, Typed, Appended, Timely, [Next]_vars PROVE Timely'
<1>0. /\ clock \in Int /\ queue \in Seq(Events) /\ DOMAIN outbox = {"control", "ticker"}
  BY EventInstants
<1>1. CASE Pass
  <2>1. outbox["control"] = <<>> /\ outbox["ticker"] = <<>>
    BY <1>0, <1>1 DEF Pass, InStep, Busy
  <2>2. UNCHANGED <<queue, outbox, log>> /\ clock' = clock + 1
    BY <1>1 DEF Pass
  <2>3. Commanded' = {} /\ Ticked' = {} /\ Commanded = {} /\ Rows' = Rows /\ Queued' = Queued
    BY <2>1, <2>2 DEF Commanded, Ticked, Rows, Queued, Range
  <2>4. \A e \in Rows \cup Queued : e.at <= clock'
    BY <1>0, <2>2, EventInstants DEF Timely
  <2> QED BY <2>2, <2>3, <2>4 DEF Timely, Precede
<1>2. ASSUME NEW s \in Agents, NEW k \in HookKinds, HookArrives(s, k) PROVE Timely'
  <2> DEFINE x == Event(s, k, clock)
  <2>1. x \in Events /\ x.session = s /\ x.kind = k /\ x.at = clock
    BY EventsAreMinted DEF Event
  <2>2. /\ queue' = Append(queue, x) \/ queue' = queue
        /\ UNCHANGED <<clock, outbox, log>> /\ (Human(k) => ~Backdated)
    BY <1>2 DEF HookArrives, InStep
  <2> HIDE DEF x
  <2>3. Commanded' = Commanded /\ Ticked' = Ticked /\ Rows' = Rows /\ Sorted(outbox["control"])'
    BY <2>2 DEF Commanded, Ticked, Rows, Timely
  <2>4. CASE queue' = queue
    BY <2>2, <2>3, <2>4, TimelyShrinks DEF Queued, Timely
  <2>5. CASE queue' = Append(queue, x)
    <3>1. Precede(Rows \cup Queued, {x}) /\ Precede({x}, Ticked)
      BY <2>1, NowFollows
    <3>2. Queued' \subseteq Queued \cup {x}
      BY <1>0, <2>5, RangeOfAppend DEF Queued
    <3>3. Sorted(queue)'
      <4>1. Precede(Range(queue), {x})
        BY <3>1 DEF Precede, Queued
      <4> QED BY <1>0, <2>1, <2>5, <4>1, SortedAppend DEF Timely
    <3>4. Precede({x}, Commanded)
      <4> SUFFICES ASSUME NEW e \in Commanded, Mates(x, e) PROVE x.at <= e.at
        BY DEF Precede
      <4>1. e.session \in Manuals
        BY DEF Timely
      <4>2. Human(k)
        BY <2>1, <4>1, WriterConfig DEF Mates
      <4>3. e.at = clock
        BY <2>2, <4>2, NotBackdated
      <4> QED BY <1>0, <2>1, <4>3
    <3>5. \A e \in Queued' : e.at <= clock
      BY <1>0, <2>1, <3>2 DEF Timely
    <3> QED BY <2>2, <2>3, <3>1, <3>2, <3>3, <3>4, <3>5 DEF Timely, Precede
  <2> QED BY <2>2, <2>4, <2>5
<1>3. ASSUME NEW s \in Manuals, Start(s) \/ Stop(s) \/ Ticker(s) PROVE Timely'
  <2>1. \A k \in ManualKinds : LET e == Event(s, k, clock) IN
          e \in Events /\ e.at = clock /\ e.session \in Manuals
    BY <1>0, EventsAreMinted DEF Event
  <2>2. {"mstart", "mtick", "mstop"} = ManualKinds
    BY DEF ManualKinds
  <2>3. CASE Start(s)
    BY <2>1, <2>2, <2>3, MintNowTimely DEF Start
  <2>4. CASE Stop(s)
    BY <2>1, <2>2, <2>4, MintNowTimely DEF Stop
  <2>5. CASE Ticker(s)
    BY <2>1, <2>2, <2>5, MintNowTimely DEF Ticker, InStep
  <2> QED BY <1>3, <2>3, <2>4, <2>5
<1>4. ASSUME NEW s \in Manuals, NEW d \in 1 .. MaxClock, LogInterval(s, d) PROVE Timely'
  BY <1>4, IntervalTimely
<1>5. ASSUME NEW p \in DOMAIN outbox, Send(p) PROVE Timely'
  BY <1>0, <1>5, SendTimely
\* The writer takes the head of the queue.
<1>6. ASSUME Ready, queue' = Tail(queue), UNCHANGED <<clock, outbox>>,
             Rows' \subseteq Rows \cup {Head(queue)}
      PROVE  Timely'
  <2> DEFINE x == Head(queue)
             rest == Tail(queue)
  <2>1. queue # <<>>
    BY <1>6 DEF Ready
  <2>2. Sorted(rest) /\ Precede({x}, Range(rest)) /\ Range(queue) = {x} \cup Range(rest)
    BY <1>0, <2>1, SortedTail, RangeOfTail DEF Timely
  <2>3. Queued' = Range(rest) /\ Queued = {x} \cup Range(rest) /\ Rows' \subseteq Rows \cup {x}
        /\ Commanded' = Commanded /\ Ticked' = Ticked
    BY <1>6, <2>2 DEF Queued, Commanded, Ticked
  <2>4. Sorted(queue)' /\ Sorted(outbox["control"])'
    BY <1>6, <2>2 DEF Timely
  <2> HIDE DEF x, rest
  <2>5. Precede(Rows', Queued') /\ Precede(Rows' \cup Queued', Commanded' \cup Ticked')
    BY <2>2, <2>3 DEF Timely, Precede
  <2>6. \A e \in Rows' \cup Queued' \cup Commanded' : e.at <= clock
    BY <2>3 DEF Timely
  <2> QED BY <1>6, <2>3, <2>4, <2>5, <2>6 DEF Timely
<1>7. CASE CoalesceDrop \/ Lose
  BY <1>6, <1>7 DEF CoalesceDrop, Lose, Rows
<1>8. CASE Prune
  <2>1. Rows' \subseteq Rows
    BY <1>8 DEF Prune, Restrict, Rows, Range
  <2> QED BY <1>6, <1>8, <2>1 DEF Prune
<1>9. CASE Store
  <2>1. Rows' \subseteq Rows \cup {Head(queue)}
    BY <1>9 DEF Store, Put, Rows, Range, Next0
  <2> QED BY <1>6, <1>9, <2>1 DEF Store
<1>10. CASE Crash
  <2>1. queue' = <<>> /\ outbox'["control"] = <<>> /\ outbox'["ticker"] = <<>>
        /\ UNCHANGED <<clock, log>>
    BY <1>0, <1>10 DEF Crash
  <2>2. Queued' = {} /\ Commanded' = {} /\ Ticked' = {} /\ Rows' = Rows
    BY <2>1 DEF Queued, Commanded, Ticked, Rows, Range
  <2>3. Sorted(queue)' /\ Sorted(outbox["control"])'
    BY <2>1 DEF Sorted
  <2> QED BY <2>1, <2>2, <2>3, TimelyShrinks
<1>11. CASE NukeStore
  <2>1. Rows' = {} /\ UNCHANGED <<clock, queue, outbox>>
    BY <1>11 DEF NukeStore, Nothing, Rows, Range
  <2> QED BY <2>1, TimelyShrinks DEF Queued, Commanded, Ticked, Timely
<1>12. CASE Account \/ HydrateRead \/ HydrateFold \/ NukeRegistry \/ UNCHANGED vars
  BY <1>12, TimelyShrinks
     DEF Account, HydrateRead, HydrateFold, NukeRegistry, vars, Queued, Commanded, Ticked, Rows,
         Timely
<1> QED BY <1>1, <1>2, <1>3, <1>4, <1>5, <1>7, <1>8, <1>9, <1>10, <1>11, <1>12 DEF Next

--------------------------------------------------------------------------------
(* An event appended after its mates adds one window to a sum.             *)

IsLog(g) == g \in [DOMAIN g -> Events] /\ DOMAIN g \in SUBSET Nat /\ IsFiniteSet(DOMAIN g)
IsLast(g, m) == m \in DOMAIN g /\ \A r \in DOMAIN g \ {m} : Before(g, r, m)

LEMMA BeforeIsOrder ==
  ASSUME NEW g, IsLog(g)
  PROVE  /\ \A r \in DOMAIN g : ~Before(g, r, r) /\ g[r] \in Events /\ g[r].at \in Int
         /\ \A q, r \in DOMAIN g : ~(Before(g, q, r) /\ Before(g, r, q))
         /\ \A q, r \in DOMAIN g : q # r => Before(g, q, r) \/ Before(g, r, q)
         /\ \A p, q, r \in DOMAIN g : Before(g, p, q) /\ Before(g, q, r) => Before(g, p, r)
<1>1. \A r \in DOMAIN g : g[r] \in Events /\ g[r].at \in Int /\ r \in Nat
  BY DEF IsLog, Events
<1> QED BY <1>1 DEF Before

LEMMA PutIsLog ==
  ASSUME NEW g, IsLog(g), NEW n \in Nat \ DOMAIN g, NEW ev \in Events,
         NEW h, h = Put(g, n, ev)
  PROVE  /\ IsLog(h) /\ DOMAIN h = DOMAIN g \cup {n} /\ h[n] = ev
         /\ \A r \in DOMAIN g : h[r] = g[r]
         /\ \A q, r \in DOMAIN g : Before(h, q, r) <=> Before(g, q, r)
<1>1. /\ DOMAIN h = DOMAIN g \cup {n} /\ h[n] = ev
      /\ \A r \in DOMAIN g : h[r] = g[r]
      /\ h = [r \in DOMAIN h |-> h[r]]
  BY DEF Put
<1>2. IsFiniteSet(DOMAIN h)
  BY <1>1, FS_AddElement DEF IsLog
<1>3. h \in [DOMAIN h -> Events] /\ DOMAIN h \in SUBSET Nat
  BY <1>1 DEF IsLog
<1>4. \A q, r \in DOMAIN g : Before(h, q, r) <=> Before(g, q, r)
  BY <1>1 DEF Before
<1> QED BY <1>1, <1>2, <1>3, <1>4 DEF IsLog

LEMMA OneMoreWindow ==
  ASSUME NEW g, IsLog(g), NEW n \in Nat \ DOMAIN g, NEW ev \in Events,
         NEW h, h = Put(g, n, ev), \A r \in DOMAIN g : Before(h, r, n)
  PROVE  /\ IsLast(h, n)
         /\ DOMAIN g = {} => Windows(h) = {}
         /\ \A m : IsLast(g, m) =>
              Windows(h) = Windows(g) \cup {<<m, n>>} /\ <<m, n>> \notin Windows(g)
<1>1. /\ IsLog(h) /\ DOMAIN h = DOMAIN g \cup {n}
      /\ \A q, r \in DOMAIN g : Before(h, q, r) <=> Before(g, q, r)
      /\ \A r \in DOMAIN g : Before(h, r, n)
  BY PutIsLog
<1>2. /\ \A r \in DOMAIN h : ~Before(h, r, r)
      /\ \A q, r \in DOMAIN h : ~(Before(h, q, r) /\ Before(h, r, q))
  BY <1>1, BeforeIsOrder
<1>3. IsLast(h, n)
  BY <1>1 DEF IsLast
<1>4. DOMAIN g = {} => Windows(h) = {}
  BY <1>1, <1>2 DEF Windows
<1>5. ASSUME NEW m, IsLast(g, m)
      PROVE  Windows(h) = Windows(g) \cup {<<m, n>>} /\ <<m, n>> \notin Windows(g)
  <2>1. m \in DOMAIN g /\ \A r \in DOMAIN g \ {m} : Before(h, r, m)
    BY <1>1, <1>5 DEF IsLast
  <2>2. ASSUME NEW w \in Windows(h) PROVE w \in Windows(g) \cup {<<m, n>>}
    <3>1. PICK q \in DOMAIN h, r \in DOMAIN h : w = <<q, r>>
      BY <2>2 DEF Windows
    <3>2. Before(h, q, r) /\ \A t \in DOMAIN h : ~(Before(h, q, t) /\ Before(h, t, r))
      BY <2>2, <3>1 DEF Windows
    <3>3. q \in DOMAIN g
      BY <1>1, <1>2, <3>1, <3>2
    <3>4. CASE r = n
      <4>1. q = m
        BY <1>1, <2>1, <3>2, <3>3, <3>4
      <4> QED BY <3>1, <3>4, <4>1
    <3>5. CASE r # n
      <4>1. r \in DOMAIN g
        BY <1>1, <3>1, <3>5
      <4>2. Before(g, q, r) /\ \A t \in DOMAIN g : ~(Before(g, q, t) /\ Before(g, t, r))
        BY <1>1, <3>2, <3>3, <4>1
      <4> QED BY <3>1, <3>3, <4>1, <4>2 DEF Windows
    <3> QED BY <3>4, <3>5
  <2>3. ASSUME NEW w \in Windows(g) PROVE w \in Windows(h) /\ w # <<m, n>>
    <3>1. PICK q \in DOMAIN g, r \in DOMAIN g : w = <<q, r>>
      BY <2>3 DEF Windows
    <3>2. Before(g, q, r) /\ \A t \in DOMAIN g : ~(Before(g, q, t) /\ Before(g, t, r))
      BY <2>3, <3>1 DEF Windows
    <3>3. Before(h, q, r) /\ \A t \in DOMAIN h : ~(Before(h, q, t) /\ Before(h, t, r))
      BY <1>1, <1>2, <3>1, <3>2
    <3> QED BY <1>1, <3>1, <3>3 DEF Windows
  <2>4. <<m, n>> \in Windows(h)
    <3>1. \A t \in DOMAIN h : ~(Before(h, m, t) /\ Before(h, t, n))
      BY <1>1, <1>2, <2>1
    <3>2. m \in DOMAIN h /\ n \in DOMAIN h /\ Before(h, m, n)
      BY <1>1, <2>1
    <3> QED BY <3>1, <3>2 DEF Windows
  <2> QED BY <2>2, <2>3, <2>4
<1> QED BY <1>3, <1>4, <1>5

LEMMA WindowsFinite ==
  ASSUME NEW g, IsLog(g)
  PROVE  /\ IsFiniteSet(Windows(g))
         /\ \A w \in Windows(g) : w[1] \in DOMAIN g /\ w[2] \in DOMAIN g
                                  /\ Gap(g, w) \in Int /\ Gap(g, w) \in Nat
<1> DEFINE D == DOMAIN g
<1>1. IsFiniteSet(D)
  BY DEF IsLog
<1>2. Windows(g) \in SUBSET (D \X D)
  BY DEF Windows
<1> HIDE DEF D
<1>3. IsFiniteSet(D \X D)
  BY <1>1, FS_Product
<1>4. IsFiniteSet(Windows(g))
  BY <1>2, <1>3, FS_Subset
<1>5. \A w \in Windows(g) : w[1] \in DOMAIN g /\ w[2] \in DOMAIN g /\ Before(g, w[1], w[2])
  BY DEF Windows
<1>6. \A w \in Windows(g) : g[w[1]].at \in Int /\ g[w[2]].at \in Int /\ g[w[1]].at <= g[w[2]].at
  BY <1>5, BeforeIsOrder DEF Before
<1> QED BY <1>4, <1>5, <1>6 DEF Gap

LEMMA CountedIsNat == ASSUME NEW gap \in Int PROVE Counted(gap) \in Nat
BY DEF Counted

LEMMA ActiveGrows ==
  ASSUME NEW g, IsLog(g), NEW n \in Nat \ DOMAIN g, NEW ev \in Events,
         NEW h, h = Put(g, n, ev), \A r \in DOMAIN g : Before(h, r, n)
  PROVE  /\ AgentActive(g) \in Nat
         /\ DOMAIN g = {} => AgentActive(h) = 0
         /\ \A m : IsLast(g, m) =>
              AgentActive(h) = AgentActive(g) + GapSeconds(ev.at - g[m].at, g[m].kind = "pre")
<1> DEFINE gaps(l) == [w \in Windows(l) |-> GapSeconds(Gap(l, w), l[w[1]].kind = "pre")]
<1>1. /\ IsLog(h) /\ h[n] = ev /\ \A r \in DOMAIN g : h[r] = g[r]
  <2>1. IsLog(h)
    BY PutIsLog
  <2> QED BY <2>1 DEF Put
<1>2. /\ DOMAIN g = {} => Windows(h) = {}
      /\ \A m : IsLast(g, m) =>
           Windows(h) = Windows(g) \cup {<<m, n>>} /\ <<m, n>> \notin Windows(g)
  BY OneMoreWindow
<1>3. AgentActive(g) = SumFunction(gaps(g)) /\ AgentActive(h) = SumFunction(gaps(h))
  BY DEF AgentActive
<1>4. ASSUME NEW l, IsLog(l)
      PROVE  /\ DOMAIN gaps(l) = Windows(l) /\ IsFiniteSet(Windows(l))
             /\ \A w \in Windows(l) :
                  gaps(l)[w] = GapSeconds(Gap(l, w), l[w[1]].kind = "pre") /\ gaps(l)[w] \in Nat
  <2>1. /\ IsFiniteSet(Windows(l)) /\ \A w \in Windows(l) : Gap(l, w) \in Int
    BY <1>4, WindowsFinite
  <2>2. \A w \in Windows(l) : GapSeconds(Gap(l, w), l[w[1]].kind = "pre") \in Nat
    BY <2>1, GapIsNat
  <2> QED BY <2>1, <2>2
<1>5. /\ DOMAIN gaps(g) = Windows(g) /\ IsFiniteSet(Windows(g))
      /\ \A w \in Windows(g) :
           gaps(g)[w] = GapSeconds(Gap(g, w), g[w[1]].kind = "pre") /\ gaps(g)[w] \in Nat
      /\ DOMAIN gaps(h) = Windows(h)
      /\ \A w \in Windows(h) :
           gaps(h)[w] = GapSeconds(Gap(h, w), h[w[1]].kind = "pre") /\ gaps(h)[w] \in Nat
  <2> HIDE DEF gaps
  <2> QED BY <1>1, <1>4
<1> DEFINE f == gaps(g)
           k == gaps(h)
<1> HIDE DEF gaps
<1>6. /\ DOMAIN f = Windows(g) /\ IsFiniteSet(Windows(g)) /\ \A w \in Windows(g) : f[w] \in Nat
      /\ DOMAIN k = Windows(h) /\ \A w \in Windows(h) : k[w] \in Nat
      /\ \A w \in Windows(g) : f[w] = GapSeconds(Gap(g, w), g[w[1]].kind = "pre")
      /\ \A w \in Windows(h) : k[w] = GapSeconds(Gap(h, w), h[w[1]].kind = "pre")
      /\ AgentActive(g) = SumFunction(f) /\ AgentActive(h) = SumFunction(k)
  BY <1>3, <1>5
<1> HIDE DEF f, k
<1>7. AgentActive(g) \in Nat
  BY <1>6, SumFunctionIsNat
<1>8. DOMAIN g = {} => AgentActive(h) = 0
  BY <1>2, <1>6, SumOfEmpty
<1>9. ASSUME NEW m, IsLast(g, m)
      PROVE  AgentActive(h) = AgentActive(g) + GapSeconds(ev.at - g[m].at, g[m].kind = "pre")
  <2> DEFINE z == <<m, n>>
  <2>1. Windows(h) = Windows(g) \cup {z} /\ z \notin Windows(g) /\ m \in DOMAIN g
    BY <1>2, <1>9 DEF IsLast
  <2>2. z \in Windows(h) /\ z[1] = m /\ z[2] = n
    BY <2>1
  <2>3. k[z] = GapSeconds(ev.at - g[m].at, g[m].kind = "pre")
    BY <1>1, <1>6, <2>1, <2>2 DEF Gap
  <2> HIDE DEF z
  <2>4. \A w \in Windows(g) : k[w] = f[w]
    <3>1. \A w \in Windows(g) : w[1] \in DOMAIN g /\ w[2] \in DOMAIN g
      BY WindowsFinite
    <3>2. \A w \in Windows(g) : Gap(h, w) = Gap(g, w) /\ h[w[1]] = g[w[1]]
      BY <1>1, <3>1 DEF Gap
    <3> QED BY <1>6, <2>1, <3>2
  <2>5. k[z] \in Nat
    BY <1>6, <2>2
  <2>6. /\ DOMAIN k = DOMAIN f \cup {z} /\ IsFiniteSet(DOMAIN f) /\ z \notin DOMAIN f
        /\ \A w \in DOMAIN f : k[w] = f[w] /\ f[w] \in Nat
    BY <1>6, <2>1, <2>4
  <2>7. SumFunction(k) = SumFunction(f) + k[z]
    BY <2>5, <2>6, SumGrows
  <2> QED BY <1>6, <2>3, <2>7
<1> QED BY <1>7, <1>8, <1>9

LEMMA CountedGrows ==
  ASSUME NEW g, IsLog(g), NEW n \in Nat \ DOMAIN g, NEW ev \in Events,
         NEW h, h = Put(g, n, ev), \A r \in DOMAIN g : Before(h, r, n)
  PROVE  /\ CountedSeconds(g) \in Nat
         /\ DOMAIN g = {} => CountedSeconds(h) = 0 /\ CountedSeconds(g) = 0
         /\ \A m : IsLast(g, m) =>
              CountedSeconds(h) = CountedSeconds(g) + Counted(ev.at - g[m].at)
<1> DEFINE gaps(l) == [w \in Windows(l) |-> Counted(Gap(l, w))]
<1>1. /\ IsLog(h) /\ h[n] = ev /\ \A r \in DOMAIN g : h[r] = g[r]
  <2>1. IsLog(h)
    BY PutIsLog
  <2> QED BY <2>1 DEF Put
<1>2. /\ DOMAIN g = {} => Windows(h) = {}
      /\ \A m : IsLast(g, m) =>
           Windows(h) = Windows(g) \cup {<<m, n>>} /\ <<m, n>> \notin Windows(g)
  BY OneMoreWindow
<1>3. CountedSeconds(g) = SumFunction(gaps(g)) /\ CountedSeconds(h) = SumFunction(gaps(h))
  BY DEF CountedSeconds
<1>4. ASSUME NEW l, IsLog(l)
      PROVE  /\ DOMAIN gaps(l) = Windows(l) /\ IsFiniteSet(Windows(l))
             /\ \A w \in Windows(l) : gaps(l)[w] = Counted(Gap(l, w)) /\ gaps(l)[w] \in Nat
  <2>1. /\ IsFiniteSet(Windows(l)) /\ \A w \in Windows(l) : Gap(l, w) \in Int
    BY <1>4, WindowsFinite
  <2>2. \A w \in Windows(l) : Counted(Gap(l, w)) \in Nat
    BY <2>1, CountedIsNat
  <2> QED BY <2>1, <2>2
<1>5. /\ DOMAIN gaps(g) = Windows(g) /\ IsFiniteSet(Windows(g))
      /\ \A w \in Windows(g) : gaps(g)[w] = Counted(Gap(g, w)) /\ gaps(g)[w] \in Nat
      /\ DOMAIN gaps(h) = Windows(h)
      /\ \A w \in Windows(h) : gaps(h)[w] = Counted(Gap(h, w)) /\ gaps(h)[w] \in Nat
  <2> HIDE DEF gaps
  <2> QED BY <1>1, <1>4
<1> DEFINE f == gaps(g)
           k == gaps(h)
<1> HIDE DEF gaps
<1>6. /\ DOMAIN f = Windows(g) /\ IsFiniteSet(Windows(g)) /\ \A w \in Windows(g) : f[w] \in Nat
      /\ DOMAIN k = Windows(h) /\ \A w \in Windows(h) : k[w] \in Nat
      /\ \A w \in Windows(g) : f[w] = Counted(Gap(g, w))
      /\ \A w \in Windows(h) : k[w] = Counted(Gap(h, w))
      /\ CountedSeconds(g) = SumFunction(f) /\ CountedSeconds(h) = SumFunction(k)
  BY <1>3, <1>5
<1> HIDE DEF f, k
<1>7. CountedSeconds(g) \in Nat
  BY <1>6, SumFunctionIsNat
<1>8. DOMAIN g = {} => CountedSeconds(h) = 0 /\ CountedSeconds(g) = 0
  <2>1. DOMAIN g = {} => Windows(g) = {}
    BY DEF Windows
  <2> QED BY <1>2, <1>6, <2>1, SumOfEmpty
<1>9. ASSUME NEW m, IsLast(g, m)
      PROVE  CountedSeconds(h) = CountedSeconds(g) + Counted(ev.at - g[m].at)
  <2> DEFINE z == <<m, n>>
  <2>1. Windows(h) = Windows(g) \cup {z} /\ z \notin Windows(g) /\ m \in DOMAIN g
    BY <1>2, <1>9 DEF IsLast
  <2>2. z \in Windows(h) /\ z[1] = m /\ z[2] = n
    BY <2>1
  <2>3. k[z] = Counted(ev.at - g[m].at)
    BY <1>1, <1>6, <2>1, <2>2 DEF Gap
  <2> HIDE DEF z
  <2>4. \A w \in Windows(g) : k[w] = f[w]
    <3>1. \A w \in Windows(g) : w[1] \in DOMAIN g /\ w[2] \in DOMAIN g
      BY WindowsFinite
    <3>2. \A w \in Windows(g) : Gap(h, w) = Gap(g, w)
      BY <1>1, <3>1 DEF Gap
    <3> QED BY <1>6, <2>1, <3>2
  <2>5. k[z] \in Nat
    BY <1>6, <2>2
  <2>6. /\ DOMAIN k = DOMAIN f \cup {z} /\ IsFiniteSet(DOMAIN f) /\ z \notin DOMAIN f
        /\ \A w \in DOMAIN f : k[w] = f[w] /\ f[w] \in Nat
    BY <1>6, <2>1, <2>4
  <2>7. SumFunction(k) = SumFunction(f) + k[z]
    BY <2>5, <2>6, SumGrows
  <2> QED BY <1>6, <2>3, <2>7
<1> QED BY <1>7, <1>8, <1>9

--------------------------------------------------------------------------------
(* A session's rows and the human rows, after an append.                   *)

LEMMA PartIsLog ==
  ASSUME NEW g, IsLog(g), NEW D \in SUBSET DOMAIN g
  PROVE  /\ IsLog(Restrict(g, D)) /\ DOMAIN Restrict(g, D) = D
         /\ \A r \in D : Restrict(g, D)[r] = g[r]
         /\ \A q, r \in D : Before(Restrict(g, D), q, r) <=> Before(g, q, r)
<1>1. /\ DOMAIN Restrict(g, D) = D /\ \A r \in D : Restrict(g, D)[r] = g[r]
      /\ Restrict(g, D) \in [D -> Events] /\ D \in SUBSET Nat
  BY DEF IsLog, Restrict
<1>2. IsFiniteSet(D)
  BY FS_Subset DEF IsLog
<1>3. \A q, r \in D : Before(Restrict(g, D), q, r) <=> Before(g, q, r)
  BY <1>1 DEF Before
<1> QED BY <1>1, <1>2, <1>3 DEF IsLog

LEMMA MineIsLog ==
  ASSUME NEW g, IsLog(g), NEW s
  PROVE  /\ IsLog(Mine(g, s)) /\ DOMAIN Mine(g, s) = {r \in DOMAIN g : g[r].session = s}
         /\ \A r \in DOMAIN Mine(g, s) : Mine(g, s)[r] = g[r]
         /\ \A q, r \in DOMAIN Mine(g, s) : Before(Mine(g, s), q, r) <=> Before(g, q, r)
<1> DEFINE D == {r \in DOMAIN g : g[r].session = s}
<1>1. D \in SUBSET DOMAIN g /\ Mine(g, s) = Restrict(g, D)
  BY DEF Mine
<1> HIDE DEF D
<1>2. /\ IsLog(Mine(g, s)) /\ DOMAIN Mine(g, s) = D
      /\ \A r \in D : Mine(g, s)[r] = g[r]
      /\ \A q, r \in D : Before(Mine(g, s), q, r) <=> Before(g, q, r)
  BY <1>1, PartIsLog
<1> QED BY <1>2 DEF D

LEMMA HumansIsLog ==
  ASSUME NEW g, IsLog(g)
  PROVE  /\ IsLog(Humans(g)) /\ DOMAIN Humans(g) = {r \in DOMAIN g : Human(g[r].kind)}
         /\ \A r \in DOMAIN Humans(g) : Humans(g)[r] = g[r]
         /\ \A q, r \in DOMAIN Humans(g) : Before(Humans(g), q, r) <=> Before(g, q, r)
<1> DEFINE D == {r \in DOMAIN g : Human(g[r].kind)}
<1>1. D \in SUBSET DOMAIN g /\ Humans(g) = Restrict(g, D)
  BY DEF Humans
<1> HIDE DEF D
<1>2. /\ IsLog(Humans(g)) /\ DOMAIN Humans(g) = D
      /\ \A r \in D : Humans(g)[r] = g[r]
      /\ \A q, r \in D : Before(Humans(g), q, r) <=> Before(g, q, r)
  BY <1>1, PartIsLog
<1> QED BY <1>2 DEF D

LEMMA PutParts ==
  ASSUME NEW g, IsLog(g), NEW n \in Nat \ DOMAIN g, NEW ev \in Events,
         NEW h, h = Put(g, n, ev)
  PROVE  /\ Mine(h, ev.session) = Put(Mine(g, ev.session), n, ev)
         /\ \A s : s # ev.session => Mine(h, s) = Mine(g, s)
         /\ Humans(h) = IF Human(ev.kind) THEN Put(Humans(g), n, ev) ELSE Humans(g)
<1>1. /\ DOMAIN h = DOMAIN g \cup {n} /\ h[n] = ev /\ \A r \in DOMAIN g : h[r] = g[r]
  BY DEF Put
<1>2. Mine(h, ev.session) = Put(Mine(g, ev.session), n, ev)
  BY <1>1 DEF Mine, Restrict, Put
<1>3. ASSUME NEW s, s # ev.session PROVE Mine(h, s) = Mine(g, s)
  BY <1>1, <1>3 DEF Mine, Restrict
<1>4. Human(ev.kind) => Humans(h) = Put(Humans(g), n, ev)
  BY <1>1 DEF Humans, Restrict, Put
<1>5. ~Human(ev.kind) => Humans(h) = Humans(g)
  BY <1>1 DEF Humans, Restrict
<1> QED BY <1>2, <1>3, <1>4, <1>5

--------------------------------------------------------------------------------
(* What one event does to the registry, to the second.                     *)

LEMMA TouchIs ==
  ASSUME NEW l, l \in [DOMAIN l -> Lives], DOMAIN l \subseteq Sessions, NEW ev \in Events,
         NEW t, t = Touch(l, ev), NEW x, x = ev.session
  PROVE  /\ DOMAIN t = DOMAIN l \cup {x} /\ t \in [DOMAIN t -> Lives]
         /\ \A s \in DOMAIN l \ {x} : t[s] = l[s]
         /\ t[x].last = ev.at /\ t[x].opens = (ev.kind = "pre") /\ (t[x].ended <=> Terminal(ev.kind))
         /\ x \in DOMAIN l =>
              /\ t[x].active = l[x].active + GapSeconds(ev.at - l[x].last, l[x].opens)
              /\ t[x].engaged = l[x].engaged /\ (t[x].signal <=> l[x].signal \/ Signal(ev.kind))
         /\ x \notin DOMAIN l =>
              t[x].active = 0 /\ t[x].engaged = 0 /\ (t[x].signal <=> Signal(ev.kind))
<1> DEFINE e      == IF ev.session \in DOMAIN l THEN l[ev.session] ELSE Fresh(ev)
           earned == e.active + GapSeconds(ev.at - e.last, e.opens)
           opens  == ev.kind = "pre"
           signal == e.signal \/ Signal(ev.kind)
           ended  == Terminal(ev.kind)
           n == [e EXCEPT !.active = earned, !.last = ev.at, !.opens = opens,
                          !.signal = signal, !.ended = ended]
<1>1. ev.at \in Int /\ ev.session \in Sessions
  BY DEF Events, Sessions
<1>2. e \in Lives
  BY <1>1 DEF Fresh, Lives
<1>3. earned \in Nat
  <2>1. ev.at - e.last \in Int /\ e.opens \in BOOLEAN /\ e.active \in Nat
    BY <1>1, <1>2 DEF Lives
  <2>2. GapSeconds(ev.at - e.last, e.opens) \in Nat
    BY <2>1, GapIsNat
  <2> QED BY <2>1, <2>2
<1>4. opens \in BOOLEAN /\ signal \in BOOLEAN /\ ended \in BOOLEAN
  BY DEF Terminal
<1>5. t = Put(l, x, n)
  BY DEF Touch
<1>6. x \in DOMAIN l => e = l[x]
  OBVIOUS
<1>7. x \notin DOMAIN l => earned = 0 /\ e.engaged = 0 /\ ~e.signal
  <2>1. ASSUME x \notin DOMAIN l PROVE earned = 0 /\ e.engaged = 0 /\ ~e.signal
    <3>1. e = Fresh(ev)
      BY <2>1
    <3>2. e.active = 0 /\ e.last = ev.at /\ e.engaged = 0 /\ ~e.signal
      BY <3>1 DEF Fresh
    <3>3. ev.at - e.last = 0
      BY <1>1, <3>2
    <3>4. GapSeconds(ev.at - e.last, e.opens) = 0
      BY <3>3 DEF GapSeconds
    <3> QED BY <3>2, <3>4
  <2> QED BY <2>1
<1>8. /\ earned = e.active + GapSeconds(ev.at - e.last, e.opens)
      /\ (signal <=> e.signal \/ Signal(ev.kind)) /\ opens = (ev.kind = "pre")
      /\ (ended <=> Terminal(ev.kind))
  OBVIOUS
<1> HIDE DEF e, earned, opens, signal, ended
<1>9. n \in Lives
  BY <1>1, <1>2, <1>3, <1>4 DEF Lives
<1>12. /\ n.ended = ended /\ n.signal = signal /\ n.opens = opens
       /\ n.active = earned /\ n.last = ev.at /\ n.engaged = e.engaged
  BY <1>2 DEF Lives
<1> HIDE DEF n
<1>10. /\ DOMAIN t = DOMAIN l \cup {x} /\ t \in [DOMAIN t -> Lives]
       /\ t[x] = n /\ \A s \in DOMAIN l \ {x} : t[s] = l[s]
  BY <1>5, <1>9 DEF Put
<1>11. /\ x \in DOMAIN l =>
            /\ t[x].active = l[x].active + GapSeconds(ev.at - l[x].last, l[x].opens)
            /\ t[x].engaged = l[x].engaged /\ (t[x].signal <=> l[x].signal \/ Signal(ev.kind))
       /\ x \notin DOMAIN l =>
            t[x].active = 0 /\ t[x].engaged = 0 /\ (t[x].signal <=> Signal(ev.kind))
  BY <1>6, <1>7, <1>8, <1>12, <1>10
<1> QED BY <1>8, <1>12, <1>10, <1>11

LEMMA CreditIs ==
  ASSUME NEW l, l \in [DOMAIN l -> Lives], NEW o \in Openers, NEW ev \in Events,
         NEW c, c = Credit(l, o, ev)
  PROVE  /\ DOMAIN c = DOMAIN l /\ c \in [DOMAIN c -> Lives]
         /\ \A s \in DOMAIN l :
              /\ c[s].last = l[s].last /\ c[s].opens = l[s].opens /\ c[s].ended = l[s].ended
              /\ c[s].active = l[s].active /\ c[s].signal = l[s].signal
              /\ s # o.session \/ ~Human(ev.kind) => c[s].engaged = l[s].engaged
         /\ Human(ev.kind) /\ o.session \in DOMAIN l =>
              c[o.session].engaged = l[o.session].engaged + Counted(ev.at - o.at)
<1> DEFINE gap == ev.at - o.at
           n   == [l[o.session] EXCEPT !.engaged = @ + gap]
<1>1. ev.at \in Int /\ o.at \in Int /\ gap \in Int
  BY DEF Events, Sessions, Openers
<1>2. CASE ~(Human(ev.kind) /\ o.session \in DOMAIN l /\ gap > 0 /\ gap <= Idle)
  <2>1. c = l
    BY <1>2 DEF Credit
  <2>2. Human(ev.kind) /\ o.session \in DOMAIN l => Counted(gap) = 0
    BY <1>2 DEF Counted
  <2>3. o.session \in DOMAIN l => l[o.session].engaged \in Nat
    BY DEF Lives
  <2> QED BY <2>1, <2>2, <2>3
<1>3. CASE Human(ev.kind) /\ o.session \in DOMAIN l /\ gap > 0 /\ gap <= Idle
  <2>1. c = [l EXCEPT ![o.session].engaged = @ + gap] /\ Counted(gap) = gap
    BY <1>3 DEF Credit, Counted
  <2>2. /\ n \in Lives /\ n.signal = l[o.session].signal /\ n.ended = l[o.session].ended
        /\ n.last = l[o.session].last /\ n.opens = l[o.session].opens
        /\ n.active = l[o.session].active /\ n.engaged = l[o.session].engaged + gap
    BY <1>1, <1>3 DEF Lives
  <2>3. c = [l EXCEPT ![o.session] = n]
    BY <2>1
  <2> HIDE DEF n
  <2> QED BY <1>3, <2>1, <2>2, <2>3
<1> QED BY <1>2, <1>3

--------------------------------------------------------------------------------
(* The registry's sessions are the accounts of their rows.                 *)

Engaged(l) == [s \in DOMAIN l |-> l[s].engaged]

AccountOf(e, seen) ==
  /\ \E m \in DOMAIN seen :
       /\ IsLast(seen, m)
       /\ e.last = seen[m].at /\ e.opens = (seen[m].kind = "pre")
       /\ (e.ended <=> Terminal(seen[m].kind))
  /\ e.active = AgentActive(seen)
  /\ e.signal <=> \E r \in DOMAIN seen : Signal(seen[r].kind)
  /\ e.engaged # 0 => \E r \in DOMAIN seen : Human(seen[r].kind)

OpenerOf(o, h) ==
  \/ DOMAIN h = {} /\ o = Silent
  \/ \E m \in DOMAIN h : IsLast(h, m) /\ o = [at |-> h[m].at, session |-> h[m].session]

Matches(l, o, g) ==
  /\ IsFiniteSet(DOMAIN l) /\ DOMAIN l = {g[r].session : r \in DOMAIN g}
  /\ \A s \in DOMAIN l : AccountOf(l[s], Mine(g, s))
  /\ OpenerOf(o, Humans(g))
  /\ SumFunction(Engaged(l)) = TotalHuman(g)

\* The session of the event.
LEMMA AccountGrows ==
  ASSUME NEW g, IsLog(g), NEW n \in Nat \ DOMAIN g, NEW ev \in Events,
         NEW h, h = Put(g, n, ev), \A r \in DOMAIN g : Before(h, r, n),
         NEW e, NEW known \in BOOLEAN, IF known THEN AccountOf(e, g) ELSE DOMAIN g = {},
         NEW k, k.last = ev.at, k.opens = (ev.kind = "pre"), k.ended <=> Terminal(ev.kind),
         known => /\ k.active = e.active + GapSeconds(ev.at - e.last, e.opens)
                  /\ (k.signal <=> e.signal \/ Signal(ev.kind))
                  /\ k.engaged # 0 => e.engaged # 0 \/ Human(ev.kind),
         ~known => /\ k.active = 0 /\ (k.signal <=> Signal(ev.kind))
                   /\ k.engaged # 0 => Human(ev.kind)
  PROVE  AccountOf(k, h)
<1>1. /\ IsLog(h) /\ DOMAIN h = DOMAIN g \cup {n} /\ h[n] = ev
      /\ \A r \in DOMAIN g : h[r] = g[r]
  <2>1. IsLog(h)
    BY PutIsLog
  <2> QED BY <2>1 DEF Put
<1>2. IsLast(h, n)
  BY OneMoreWindow
<1>3. k.active = AgentActive(h)
  <2>1. CASE known
    <3>1. PICK m \in DOMAIN g : IsLast(g, m) /\ e.last = g[m].at /\ e.opens = (g[m].kind = "pre")
      BY <2>1 DEF AccountOf
    <3>2. AgentActive(h) = AgentActive(g) + GapSeconds(ev.at - g[m].at, g[m].kind = "pre")
      BY <3>1, ActiveGrows
    <3> QED BY <2>1, <3>1, <3>2 DEF AccountOf
  <2>2. CASE ~known
    BY <2>2, ActiveGrows
  <2> QED BY <2>1, <2>2
<1>4. k.signal <=> \E r \in DOMAIN h : Signal(h[r].kind)
  <2>1. CASE known
    BY <1>1, <2>1 DEF AccountOf
  <2>2. CASE ~known
    BY <1>1, <2>2
  <2> QED BY <2>1, <2>2
<1>5. k.engaged # 0 => \E r \in DOMAIN h : Human(h[r].kind)
  BY <1>1 DEF AccountOf
<1> QED BY <1>1, <1>2, <1>3, <1>4, <1>5 DEF AccountOf

\* An event observed after its mates: the registry matches the log with its row.
LEMMA ObserveMatches ==
  ASSUME NEW g, IsLog(g), NEW n \in Nat \ DOMAIN g, NEW ev \in Events,
         NEW h, h = Put(g, n, ev),
         \A r \in DOMAIN g : Mates(g[r], ev) => Before(h, r, n),
         NEW l, NEW o, IsRegistry(l, o), Matches(l, o, g),
         NEW q, q = Observe([live |-> l, opener |-> o], ev)
  PROVE  Matches(q.live, q.opener, h)
<1> DEFINE x == ev.session
           t == Touch(l, ev)
           c == Credit(t, o, ev)
<1>1. /\ q.live = c
      /\ q.opener = IF Human(ev.kind) THEN [at |-> ev.at, session |-> ev.session] ELSE o
  BY DEF Observe
<1>2. /\ l \in [DOMAIN l -> Lives] /\ DOMAIN l \subseteq Sessions /\ o \in Openers
      /\ ev.at \in Int /\ x \in Sessions /\ NoOne \notin Sessions
  BY WriterConfig DEF IsRegistry, Events, Sessions, NoOne
<1>3. /\ DOMAIN t = DOMAIN l \cup {x} /\ t \in [DOMAIN t -> Lives]
      /\ \A s \in DOMAIN l \ {x} : t[s] = l[s]
      /\ t[x].last = ev.at /\ t[x].opens = (ev.kind = "pre") /\ (t[x].ended <=> Terminal(ev.kind))
      /\ x \in DOMAIN l =>
           /\ t[x].active = l[x].active + GapSeconds(ev.at - l[x].last, l[x].opens)
           /\ t[x].engaged = l[x].engaged /\ (t[x].signal <=> l[x].signal \/ Signal(ev.kind))
      /\ x \notin DOMAIN l =>
           t[x].active = 0 /\ t[x].engaged = 0 /\ (t[x].signal <=> Signal(ev.kind))
  BY <1>2, TouchIs
<1> HIDE DEF t
<1>4. /\ DOMAIN c = DOMAIN t /\ c \in [DOMAIN c -> Lives]
      /\ \A s \in DOMAIN t :
           /\ c[s].last = t[s].last /\ c[s].opens = t[s].opens /\ c[s].ended = t[s].ended
           /\ c[s].active = t[s].active /\ c[s].signal = t[s].signal
           /\ s # o.session \/ ~Human(ev.kind) => c[s].engaged = t[s].engaged
      /\ Human(ev.kind) /\ o.session \in DOMAIN t =>
           c[o.session].engaged = t[o.session].engaged + Counted(ev.at - o.at)
  BY <1>2, <1>3, CreditIs
<1> HIDE DEF c
<1>5. /\ IsLog(h) /\ DOMAIN h = DOMAIN g \cup {n} /\ h[n] = ev
      /\ \A r \in DOMAIN g : h[r] = g[r]
  <2>1. IsLog(h)
    BY PutIsLog
  <2> QED BY <2>1 DEF Put
<1>6. /\ Mine(h, x) = Put(Mine(g, x), n, ev) /\ \A s : s # x => Mine(h, s) = Mine(g, s)
      /\ Humans(h) = IF Human(ev.kind) THEN Put(Humans(g), n, ev) ELSE Humans(g)
  BY PutParts
<1>7. /\ IsFiniteSet(DOMAIN l) /\ DOMAIN l = {g[r].session : r \in DOMAIN g}
      /\ \A s \in DOMAIN l : AccountOf(l[s], Mine(g, s))
      /\ OpenerOf(o, Humans(g)) /\ SumFunction(Engaged(l)) = TotalHuman(g)
  BY DEF Matches
<1>8. IsFiniteSet(DOMAIN c) /\ DOMAIN c = {h[r].session : r \in DOMAIN h}
  <2>1. IsFiniteSet(DOMAIN l \cup {x})
    BY <1>7, FS_AddElement
  <2> QED BY <1>3, <1>4, <1>5, <1>7, <2>1
<1>9. AccountOf(c[x], Mine(h, x))
  <2> DEFINE G == Mine(g, x)
             H == Mine(h, x)
             known == x \in DOMAIN l
             e == l[x]
             k == c[x]
  <2>1. /\ IsLog(G) /\ DOMAIN G = {r \in DOMAIN g : g[r].session = x}
        /\ DOMAIN H = {r \in DOMAIN h : h[r].session = x}
        /\ \A r, u \in DOMAIN H : Before(H, r, u) <=> Before(h, r, u)
    <3>1. IsLog(G) /\ DOMAIN G = {r \in DOMAIN g : g[r].session = x}
      BY MineIsLog
    <3>2. /\ DOMAIN Mine(h, x) = {r \in DOMAIN h : h[r].session = x}
          /\ \A r, u \in DOMAIN Mine(h, x) : Before(Mine(h, x), r, u) <=> Before(h, r, u)
      <4>1. IsLog(h)
        BY <1>5
      <4>2. DOMAIN Mine(h, x) = {r \in DOMAIN h : h[r].session = x}
        BY DEF Mine, Restrict
      <4>3. \A r, u \in DOMAIN Mine(h, x) : Before(Mine(h, x), r, u) <=> Before(h, r, u)
        BY <4>1, MineIsLog
      <4> QED BY <4>2, <4>3
    <3> QED BY <3>1, <3>2
  <2>2. n \in Nat \ DOMAIN G /\ H = Put(G, n, ev)
    BY <1>6, <2>1
  <2>3. \A r \in DOMAIN G : Before(H, r, n)
    <3>1. ASSUME NEW r \in DOMAIN G PROVE Before(H, r, n)
      <4>1. r \in DOMAIN g /\ g[r].session = ev.session /\ r \in DOMAIN H /\ n \in DOMAIN H
        BY <1>5, <2>1, <3>1
      <4>2. Before(h, r, n)
        BY <4>1 DEF Mates
      <4> QED BY <2>1, <4>1, <4>2
    <3> QED BY <3>1
  <2>4. IF known THEN AccountOf(e, G) ELSE DOMAIN G = {}
    BY <1>7, <2>1
  <2>5. k.last = ev.at /\ k.opens = (ev.kind = "pre") /\ (k.ended <=> Terminal(ev.kind))
    BY <1>3, <1>4
  <2>6. ~Human(ev.kind) => k.engaged = t[x].engaged
    BY <1>3, <1>4
  <2>7. known => /\ k.active = e.active + GapSeconds(ev.at - e.last, e.opens)
                 /\ k.signal <=> e.signal \/ Signal(ev.kind)
                 /\ k.engaged # 0 => e.engaged # 0 \/ Human(ev.kind)
    BY <1>3, <1>4, <2>6
  <2>8. ~known => /\ k.active = 0 /\ (k.signal <=> Signal(ev.kind))
                  /\ k.engaged # 0 => Human(ev.kind)
    BY <1>3, <1>4, <2>6
  <2>9. known \in BOOLEAN
    OBVIOUS
  <2> HIDE DEF G, H, known, e, k
  <2>10. AccountOf(k, H)
    BY <2>1, <2>2, <2>3, <2>4, <2>5, <2>7, <2>8, <2>9, AccountGrows
  <2> QED BY <2>10 DEF k, H
<1>10. ASSUME NEW s \in DOMAIN l \ {x} PROVE AccountOf(c[s], Mine(h, s))
  <2>1. /\ c[s].last = l[s].last /\ c[s].opens = l[s].opens /\ c[s].ended = l[s].ended
        /\ c[s].active = l[s].active /\ c[s].signal = l[s].signal
        /\ s # o.session \/ ~Human(ev.kind) => c[s].engaged = l[s].engaged
    BY <1>3, <1>4
  <2>2. Mine(h, s) = Mine(g, s) /\ AccountOf(l[s], Mine(g, s))
    BY <1>6, <1>7
  <2>3. s = o.session => \E r \in DOMAIN Mine(g, s) : Human(Mine(g, s)[r].kind)
    <3>1. ASSUME s = o.session PROVE \E r \in DOMAIN Mine(g, s) : Human(Mine(g, s)[r].kind)
      <4>1. o # Silent
        BY <1>2, <3>1 DEF Silent
      <4>2. PICK m \in DOMAIN Humans(g) : o.session = Humans(g)[m].session
        BY <1>7, <4>1 DEF OpenerOf
      <4>3. m \in DOMAIN g /\ Human(g[m].kind) /\ g[m].session = s
        BY <3>1, <4>2, HumansIsLog
      <4>4. m \in DOMAIN Mine(g, s) /\ Mine(g, s)[m] = g[m]
        BY <4>3, MineIsLog
      <4> QED BY <4>3, <4>4
    <3> QED BY <3>1
  <2>4. c[s].engaged # 0 => \E r \in DOMAIN Mine(g, s) : Human(Mine(g, s)[r].kind)
    BY <2>1, <2>2, <2>3 DEF AccountOf
  <2> QED BY <2>1, <2>2, <2>4 DEF AccountOf
<1>11. OpenerOf(q.opener, Humans(h))
  <2>1. CASE ~Human(ev.kind)
    BY <1>1, <1>6, <1>7, <2>1
  <2>2. CASE Human(ev.kind)
    <3> DEFINE G == Humans(g)
               H == Humans(h)
    <3>1. H = Put(G, n, ev) /\ IsLog(G) /\ n \in Nat \ DOMAIN G
      BY <1>6, <2>2, HumansIsLog
    <3>2. \A r \in DOMAIN G : Before(H, r, n)
      <4>1. ASSUME NEW r \in DOMAIN G PROVE Before(H, r, n)
        <5>1. r \in DOMAIN g /\ Human(g[r].kind)
          BY HumansIsLog
        <5>2. r \in DOMAIN H /\ n \in DOMAIN H
          BY <1>5, <2>2, <5>1, HumansIsLog
        <5>3. Before(h, r, n)
          BY <2>2, <5>1 DEF Mates
        <5> QED BY <1>5, <5>2, <5>3, HumansIsLog
      <4> QED BY <4>1
    <3>3. n \in DOMAIN H /\ H[n] = ev
      BY <3>1 DEF Put
    <3> HIDE DEF G, H
    <3>4. IsLast(H, n)
      BY <3>1, <3>2, OneMoreWindow
    <3>5. q.opener = [at |-> H[n].at, session |-> H[n].session]
      BY <1>1, <2>2, <3>3
    <3>6. OpenerOf(q.opener, H)
      BY <3>3, <3>4, <3>5 DEF OpenerOf
    <3> QED BY <3>6 DEF H
  <2> QED BY <2>1, <2>2
<1>12. SumFunction(Engaged(t)) = SumFunction(Engaged(l))
  <2>1. /\ DOMAIN Engaged(l) = DOMAIN l /\ DOMAIN Engaged(t) = DOMAIN l \cup {x}
        /\ \A s \in DOMAIN l : Engaged(l)[s] = l[s].engaged /\ Engaged(l)[s] \in Nat
        /\ \A s \in DOMAIN l : Engaged(t)[s] = Engaged(l)[s]
        /\ x \notin DOMAIN l => Engaged(t)[x] = 0
    BY <1>2, <1>3 DEF Engaged, Lives
  <2>2. CASE x \in DOMAIN l
    <3>1. Engaged(t) = Engaged(l)
      BY <1>3, <2>1, <2>2 DEF Engaged
    <3> QED BY <3>1
  <2>3. CASE x \notin DOMAIN l
    <3> DEFINE f == Engaged(l)
               k == Engaged(t)
    <3>1. /\ IsFiniteSet(DOMAIN f) /\ x \notin DOMAIN f /\ DOMAIN k = DOMAIN f \cup {x}
          /\ \A s \in DOMAIN f : k[s] = f[s] /\ f[s] \in Nat
          /\ k[x] = 0 /\ k[x] \in Nat
      BY <1>7, <2>1, <2>3
    <3>2. IsFiniteSet(DOMAIN f) /\ SumFunction(f) \in Nat
      BY <3>1, SumFunctionIsNat
    <3> HIDE DEF f, k
    <3>3. SumFunction(k) = SumFunction(f) + k[x]
      BY <3>1, SumGrows
    <3>4. SumFunction(k) = SumFunction(f)
      BY <3>1, <3>2, <3>3
    <3> QED BY <3>4 DEF f, k
  <2> QED BY <2>2, <2>3
<1>13. SumFunction(Engaged(c)) = TotalHuman(h)
  <2>1. CASE ~Human(ev.kind)
    <3>1. \A s \in DOMAIN t : c[s].engaged = t[s].engaged
      BY <1>4, <2>1
    <3>2. Engaged(c) = Engaged(t)
      BY <1>4, <3>1 DEF Engaged
    <3>3. Humans(h) = Humans(g)
      BY <1>6, <2>1
    <3> QED BY <1>7, <1>12, <3>2, <3>3 DEF TotalHuman
  <2>2. CASE Human(ev.kind)
    <3> DEFINE G == Humans(g)
               H == Humans(h)
    <3>1. H = Put(G, n, ev) /\ IsLog(G) /\ n \in Nat \ DOMAIN G
      BY <1>6, <2>2, HumansIsLog
    <3>2. \A r \in DOMAIN G : Before(H, r, n)
      <4>1. ASSUME NEW r \in DOMAIN G PROVE Before(H, r, n)
        <5>1. r \in DOMAIN g /\ Human(g[r].kind)
          BY HumansIsLog
        <5>2. r \in DOMAIN H /\ n \in DOMAIN H
          BY <1>5, <2>2, <5>1, HumansIsLog
        <5>3. Before(h, r, n)
          BY <2>2, <5>1 DEF Mates
        <5> QED BY <1>5, <5>2, <5>3, HumansIsLog
      <4> QED BY <4>1
    <3>3. /\ CountedSeconds(G) = SumFunction(Engaged(t)) /\ TotalHuman(h) = CountedSeconds(H)
          /\ OpenerOf(o, G)
      BY <1>7, <1>12 DEF TotalHuman
    <3>4. \A m \in DOMAIN G : G[m].session \in DOMAIN t
      <4>1. \A m \in DOMAIN G : m \in DOMAIN g /\ G[m] = g[m]
        BY HumansIsLog
      <4> QED BY <1>3, <1>7, <4>1
    <3> HIDE DEF G, H
    <3>5. /\ CountedSeconds(G) \in Nat
          /\ DOMAIN G = {} => CountedSeconds(H) = 0 /\ CountedSeconds(G) = 0
          /\ \A m : IsLast(G, m) =>
               CountedSeconds(H) = CountedSeconds(G) + Counted(ev.at - G[m].at)
      BY <3>1, <3>2, CountedGrows
    <3>6. CASE DOMAIN G = {} /\ o = Silent
      <4>1. o.session \notin DOMAIN t
        BY <1>2, <1>3, <3>6 DEF Silent
      <4>2. \A s \in DOMAIN t : c[s].engaged = t[s].engaged
        BY <1>4, <4>1
      <4>3. Engaged(c) = Engaged(t)
        BY <1>4, <4>2 DEF Engaged
      <4> QED BY <3>3, <3>5, <3>6, <4>3
    <3>7. ASSUME NEW m \in DOMAIN G, IsLast(G, m), o = [at |-> G[m].at, session |-> G[m].session]
          PROVE  SumFunction(Engaged(c)) = TotalHuman(h)
      <4> DEFINE z == o.session
                 f == Engaged(t)
                 k == Engaged(c)
                 gap == ev.at - o.at
      <4>1. z \in DOMAIN t /\ o.at = G[m].at /\ gap \in Int
        BY <1>2, <3>4, <3>7 DEF Openers
      <4>2. CountedSeconds(H) = CountedSeconds(G) + Counted(gap)
        BY <3>5, <3>7, <4>1
      <4>3. /\ DOMAIN f = DOMAIN t /\ DOMAIN k = DOMAIN t /\ IsFiniteSet(DOMAIN t)
            /\ \A s \in DOMAIN t : f[s] = t[s].engaged /\ k[s] = c[s].engaged
        BY <1>4, <1>8 DEF Engaged
      <4>4. \A s \in DOMAIN t : t[s].engaged \in Nat /\ c[s].engaged \in Nat
        BY <1>3, <1>4 DEF Lives
      <4>5. k[z] = f[z] + Counted(gap)
        BY <1>4, <2>2, <4>1, <4>3
      <4>6. \A s \in DOMAIN t : s # z => k[s] = f[s]
        BY <1>4, <4>3
      <4>7. Counted(gap) \in Nat
        BY <4>1, CountedIsNat
      <4> HIDE DEF z, f, k, gap
      <4>8. /\ IsFiniteSet(DOMAIN f) /\ z \in DOMAIN f /\ DOMAIN k = DOMAIN f
            /\ \A s \in DOMAIN f : f[s] \in Nat /\ k[s] \in Nat /\ (s # z => k[s] = f[s])
        BY <4>1, <4>3, <4>4, <4>6
      <4>9. SumFunction(k) + f[z] = SumFunction(f) + k[z]
        BY <4>8, SumChanges
      <4>10. SumFunction(f) \in Nat /\ SumFunction(k) \in Nat /\ f[z] \in Nat
        BY <4>8, SumFunctionIsNat
      <4>11. SumFunction(k) = SumFunction(f) + Counted(gap)
        BY <4>5, <4>7, <4>9, <4>10
      <4>12. SumFunction(f) = CountedSeconds(G)
        BY <3>3 DEF f
      <4> QED BY <3>3, <4>2, <4>11, <4>12 DEF k
    <3> QED BY <3>3, <3>6, <3>7 DEF OpenerOf
  <2> QED BY <2>1, <2>2
<1>14. \A s \in DOMAIN c : AccountOf(c[s], Mine(h, s))
  BY <1>3, <1>4, <1>9, <1>10
<1> QED BY <1>1, <1>8, <1>11, <1>13, <1>14 DEF Matches

\* A session that showed nothing leaves the registry and the log together.
LEMMA ForgetMatches ==
  ASSUME NEW g, IsLog(g), NEW l, NEW o, IsRegistry(l, o), Matches(l, o, g),
         NEW s \in DOMAIN l, ~l[s].signal,
         NEW h, \A r : r \in DOMAIN h <=> r \in DOMAIN g /\ g[r].session # s,
         \A r \in DOMAIN h : h[r] = g[r],
         NEW k, \A z : z \in DOMAIN k <=> z \in DOMAIN l /\ z # s,
         \A z \in DOMAIN k : k[z] = l[z]
  PROVE  Matches(k, o, h) /\ o.session # s
<1>1. /\ IsFiniteSet(DOMAIN l) /\ DOMAIN l = {g[r].session : r \in DOMAIN g}
      /\ \A z \in DOMAIN l : AccountOf(l[z], Mine(g, z))
      /\ OpenerOf(o, Humans(g)) /\ SumFunction(Engaged(l)) = TotalHuman(g)
      /\ l \in [DOMAIN l -> Lives] /\ s \in Sessions /\ NoOne \notin Sessions
  BY WriterConfig DEF Matches, IsRegistry, Sessions, NoOne
<1>2. /\ DOMAIN h = {r \in DOMAIN g : g[r].session # s} /\ \A r \in DOMAIN h : h[r] = g[r]
      /\ DOMAIN k = DOMAIN l \ {s} /\ \A z \in DOMAIN k : k[z] = l[z]
  OBVIOUS
<1>3. \A r \in DOMAIN g : g[r].session = s => ~Human(g[r].kind)
  <2>1. AccountOf(l[s], Mine(g, s))
    BY <1>1
  <2>2. \A r \in DOMAIN Mine(g, s) : ~Signal(Mine(g, s)[r].kind)
    BY <2>1 DEF AccountOf
  <2>3. \A r \in DOMAIN g : g[r].session = s => r \in DOMAIN Mine(g, s) /\ Mine(g, s)[r] = g[r]
    BY DEF Mine, Restrict
  <2> QED BY <2>2, <2>3 DEF Signal
<1>4. Humans(h) = Humans(g)
  BY <1>2, <1>3 DEF Humans, Restrict
<1>5. \A z : z # s => Mine(h, z) = Mine(g, z)
  BY <1>2 DEF Mine, Restrict
<1>6. l[s].engaged = 0
  <2>1. AccountOf(l[s], Mine(g, s))
    BY <1>1
  <2>2. \A r \in DOMAIN Mine(g, s) : ~Human(Mine(g, s)[r].kind)
    BY <1>3 DEF Mine, Restrict
  <2> QED BY <2>1, <2>2 DEF AccountOf
<1>7. o.session # s
  <2>1. \A m \in DOMAIN Humans(g) : Humans(g)[m].session # s
    BY <1>3 DEF Humans, Restrict
  <2> QED BY <1>1, <2>1 DEF OpenerOf, Silent
<1>8. IsFiniteSet(DOMAIN k) /\ DOMAIN k = {h[r].session : r \in DOMAIN h}
  <2>1. IsFiniteSet(DOMAIN l) /\ DOMAIN k \in SUBSET DOMAIN l
    BY <1>1, <1>2
  <2>2. IsFiniteSet(DOMAIN k)
    BY <2>1, FS_Subset
  <2>3. ASSUME NEW z \in DOMAIN k PROVE \E r \in DOMAIN h : z = h[r].session
    <3>1. PICK r \in DOMAIN g : z = g[r].session
      BY <1>1, <1>2
    <3>2. z # s
      BY <1>2
    <3>3. r \in DOMAIN h /\ h[r] = g[r]
      BY <1>2, <3>1, <3>2
    <3> QED BY <3>1, <3>3
  <2>4. ASSUME NEW r \in DOMAIN h PROVE h[r].session \in DOMAIN k
    <3>1. r \in DOMAIN g /\ g[r].session # s /\ h[r] = g[r]
      BY <1>2
    <3>2. g[r].session \in DOMAIN l
      BY <1>1, <3>1
    <3> QED BY <1>2, <3>1, <3>2
  <2> DEFINE K == DOMAIN k
             S == {h[r].session : r \in DOMAIN h}
  <2>5. \A z : z \in K <=> z \in S
    BY <2>3, <2>4
  <2> HIDE DEF K, S
  <2>6. K = S
    BY <2>5
  <2> QED BY <2>2, <2>6 DEF K, S
<1>9. SumFunction(Engaged(k)) = SumFunction(Engaged(l))
  <2> DEFINE f == Engaged(k)
             e == Engaged(l)
  <2>1. /\ DOMAIN f = DOMAIN k /\ DOMAIN e = DOMAIN l
        /\ \A z \in DOMAIN k : f[z] = k[z].engaged
        /\ \A z \in DOMAIN l : e[z] = l[z].engaged
        /\ e[s] = 0
    BY <1>6 DEF Engaged
  <2>2. \A z \in DOMAIN l : l[z].engaged \in Nat
    BY <1>1 DEF Lives
  <2>3. \A z \in DOMAIN k : e[z] = f[z] /\ f[z] \in Nat
    BY <1>2, <2>1, <2>2
  <2> HIDE DEF f, e
  <2>4. /\ IsFiniteSet(DOMAIN f) /\ s \notin DOMAIN f /\ DOMAIN e = DOMAIN f \cup {s}
        /\ \A z \in DOMAIN f : e[z] = f[z] /\ f[z] \in Nat
        /\ e[s] \in Nat
    <3>1. s \notin DOMAIN k /\ DOMAIN l = DOMAIN k \cup {s}
      BY <1>2
    <3>2. IsFiniteSet(DOMAIN k)
      BY <1>8
    <3>3. IsFiniteSet(DOMAIN f) /\ s \notin DOMAIN f /\ DOMAIN e = DOMAIN f \cup {s}
      BY <2>1, <3>1, <3>2
    <3>4. \A z \in DOMAIN f : e[z] = f[z] /\ f[z] \in Nat
      BY <2>1, <2>3
    <3> QED BY <2>1, <3>3, <3>4
  <2>5. SumFunction(e) = SumFunction(f) + e[s]
    BY <2>4, SumGrows
  <2>6. SumFunction(f) \in Nat
    BY <2>4, SumFunctionIsNat
  <2>7. SumFunction(f) = SumFunction(e)
    BY <2>1, <2>5, <2>6
  <2> QED BY <2>7 DEF f, e
<1>10. \A z \in DOMAIN k : AccountOf(k[z], Mine(h, z))
  BY <1>1, <1>2, <1>5
<1>11. Matches(k, o, h)
  BY <1>1, <1>4, <1>8, <1>9, <1>10 DEF Matches, TotalHuman
<1> QED BY <1>7, <1>11

LEMMA EmptyMatches ==
  ASSUME NEW l, NEW g, DOMAIN l = {}, DOMAIN g = {} PROVE Matches(l, Silent, g)
<1>1. DOMAIN Humans(g) = {}
  BY DEF Humans, Restrict
<1>2. Windows(Humans(g)) = {}
  BY <1>1 DEF Windows
<1>3. DOMAIN [w \in Windows(Humans(g)) |-> Counted(Gap(Humans(g), w))] = {}
  BY <1>2
<1>4. TotalHuman(g) = 0
  BY <1>3, SumOfEmpty DEF TotalHuman, CountedSeconds
<1>5. SumFunction(Engaged(l)) = 0
  BY SumOfEmpty DEF Engaged
<1>6. IsFiniteSet(DOMAIN l)
  BY FS_EmptySet
<1> QED BY <1>1, <1>4, <1>5, <1>6 DEF Matches, OpenerOf

LEMMA KnownIsLog ==
  ASSUME Typed
  PROVE  /\ IsLog(log) /\ IsLog(Known) /\ DOMAIN Known = DOMAIN log \ unread
         /\ \A r \in DOMAIN Known : Known[r] = log[r]
         /\ \A q, r \in DOMAIN Known : Before(Known, q, r) <=> Before(log, q, r)
<1>1. IsLog(log)
  <2>1. PICK b \in Nat : DOMAIN log \subseteq 1 .. b
    BY DEF Typed
  <2>2. IsFiniteSet(1 .. b)
    BY <2>1, FS_Interval
  <2>3. IsFiniteSet(DOMAIN log) /\ DOMAIN log \in SUBSET Nat
    BY <2>1, <2>2, FS_Subset
  <2> QED BY <2>3 DEF Typed, IsLog
<1> DEFINE D == DOMAIN log \ unread
<1>2. D \in SUBSET DOMAIN log /\ Known = Restrict(log, D)
  BY DEF Known
<1> HIDE DEF D
<1>3. /\ IsLog(Known) /\ DOMAIN Known = D /\ \A r \in D : Known[r] = log[r]
      /\ \A q, r \in D : Before(Known, q, r) <=> Before(log, q, r)
  BY <1>1, <1>2, PartIsLog
<1> QED BY <1>1, <1>3 DEF D

\* A replay in the order of the instants observes each row after its mates.
LEMMA ReplayMatches ==
  ASSUME Typed, DOMAIN live = {}, opener = Silent,
         NEW o \in InOrder(DOMAIN Known), replay = [i \in DOMAIN o |-> log[o[i]]]
  PROVE  LET r == replayed[Len(replay)] IN Matches(r.live, r.opener, Known)
<1> DEFINE N == Len(replay)
           Upto(i) == {o[k] : k \in 1 .. i}
           Part(i) == Restrict(Known, Upto(i))
           Good(i) == LET r == replayed[i] IN
                        IsRegistry(r.live, r.opener) /\ Matches(r.live, r.opener, Part(i))
<1>1. /\ IsLog(Known) /\ \A r \in DOMAIN Known : Known[r] = log[r]
      /\ \A q, r \in DOMAIN Known : Before(Known, q, r) <=> Before(log, q, r)
      /\ DOMAIN Known \in SUBSET Nat
  BY KnownIsLog DEF IsLog
<1>2. /\ N \in Nat /\ DOMAIN o = 1 .. N /\ Range(o) = DOMAIN Known
      /\ \A i \in 1 .. N : o[i] \in DOMAIN Known /\ replay[i] = log[o[i]]
      /\ \A i, j \in 1 .. N : i < j => Before(log, o[i], o[j])
  <2>1. /\ o \in [1 .. Cardinality(DOMAIN Known) -> DOMAIN Known] /\ Range(o) = DOMAIN Known
        /\ \A i, j \in DOMAIN o : i < j => Before(log, o[i], o[j])
    BY DEF InOrder
  <2>2. Cardinality(DOMAIN Known) \in Nat
    BY <1>1, FS_CardinalityType DEF IsLog
  <2>3. replay \in Seq(Events)
    BY DEF Typed
  <2>4. DOMAIN replay = 1 .. N /\ N \in Nat /\ DOMAIN replay = DOMAIN o
    BY <2>3
  <2> QED BY <2>1, <2>2, <2>4
<1>3. /\ replayed[0] = FirstFold
      /\ \A i \in 1 .. N : replayed[i] = Observe(replayed[i - 1], replay[i])
  BY <1>2, ReplayedFolds
<1> HIDE DEF N
<1>4. Good(0)
  <2>1. DOMAIN Part(0) = {}
    BY DEF Restrict
  <2>2. replayed[0].live = live /\ replayed[0].opener = Silent /\ IsRegistry(live, opener)
    BY <1>3 DEF FirstFold, Typed
  <2> HIDE DEF Part
  <2>3. Matches(live, Silent, Part(0))
    BY <2>1, EmptyMatches
  <2> QED BY <2>2, <2>3
<1>5. ASSUME NEW i \in 1 .. N, Good(i - 1) PROVE Good(i)
  <2> DEFINE g == Part(i - 1)
             h == Part(i)
             n == o[i]
             ev == replay[i]
             l == replayed[i - 1]
             D == Upto(i - 1)
  <2>1. /\ D \in SUBSET DOMAIN Known /\ n \in DOMAIN Known /\ ev = Known[n] /\ ev \in Events
        /\ Upto(i) = D \cup {n}
    <3>1. \A k \in 1 .. i : k \in 1 .. N /\ (k = i \/ k \in 1 .. (i - 1))
      BY <1>2
    <3>2. \A k \in 1 .. (i - 1) : k \in 1 .. i
      BY <1>2
    <3>3. i \in 1 .. i
      BY <1>2
    <3>4. Upto(i) = D \cup {n}
      BY <3>1, <3>2, <3>3
    <3>5. D \in SUBSET DOMAIN Known
      BY <1>2, <3>1, <3>2
    <3> QED BY <1>1, <1>2, <3>4, <3>5 DEF IsLog
  <2>2. \A r \in D : Before(log, r, n)
    BY <1>2
  <2>3. n \notin D /\ \A r \in D : Before(Known, r, n)
    <3>1. \A r \in D : Before(Known, r, n)
      BY <1>1, <2>1, <2>2
    <3>2. ~Before(Known, n, n)
      BY <1>1, <2>1, BeforeIsOrder
    <3> QED BY <3>1, <3>2
  <2>4. g = Restrict(Known, D) /\ h = Restrict(Known, D \cup {n})
    BY <2>1
  <2> HIDE DEF D, g, h
  <2>5. /\ IsLog(g) /\ DOMAIN g = D /\ \A r \in D : g[r] = Known[r]
    BY <1>1, <2>1, <2>4, PartIsLog
  <2>6. h = Put(g, n, ev)
    BY <2>1, <2>3, <2>4 DEF Restrict, Put
  <2>7. \A r \in D : Before(h, r, n)
    <3>1. \A r \in D \cup {n} : h[r] = Known[r]
      BY <2>4 DEF Restrict
    <3> QED BY <2>3, <3>1 DEF Before
  <2>8. IsRegistry(l.live, l.opener) /\ Matches(l.live, l.opener, g)
    BY <1>5 DEF g
  <2>9. /\ replayed[i] = Observe(l, ev)
    BY <1>3
  <2>10. n \in Nat \ DOMAIN g
    BY <1>1, <2>1, <2>3, <2>5
  <2> HIDE DEF n, ev, l, Part
  <2>11. IsRegistry(replayed[i].live, replayed[i].opener)
    BY <2>1, <2>8, <2>9, ObserveFolds
  <2>12. replayed[i] = Observe([live |-> l.live, opener |-> l.opener], ev)
    BY <2>9 DEF Observe
  <2>13. Matches(replayed[i].live, replayed[i].opener, h)
    BY <2>1, <2>5, <2>6, <2>7, <2>8, <2>10, <2>12, ObserveMatches
  <2> QED BY <2>11, <2>13 DEF h
<1>6. Good(N)
  <2> DEFINE Bad == {m \in 0 .. N : ~Good(m)}
  <2>1. ASSUME Bad # {} PROVE FALSE
    <3>1. PICK m \in Bad : \A k \in Bad : m <= k
      <4>1. Bad \in SUBSET Nat
        BY <1>2
      <4> HIDE DEF Bad
      <4> QED BY <4>1, <2>1, Smallest
    <3> HIDE DEF Good
    <3>2. m # 0 /\ m \in 1 .. N
      BY <1>2, <1>4, <3>1
    <3>3. m - 1 \in 0 .. N /\ m - 1 \notin Bad
      BY <1>2, <3>1, <3>2
    <3>4. Good(m - 1)
      BY <3>3
    <3> QED BY <1>5, <3>1, <3>2, <3>4
  <2> HIDE DEF Good
  <2> QED BY <1>2, <2>1
<1>7. Part(N) = Known
  <2>1. Upto(N) = DOMAIN Known
    BY <1>2 DEF Range
  <2> HIDE DEF Upto
  <2> QED BY <1>1, <2>1 DEF Restrict, IsLog
<1> HIDE DEF Part
<1> QED BY <1>6, <1>7 DEF N

--------------------------------------------------------------------------------
(* The registry fits the log in every state.                               *)

But(g, n) == Restrict(g, DOMAIN g \ {n})
IsNewest(g, n) == \A r \in DOMAIN g \ {n} : Mates(g[r], g[n]) => Before(g, r, n)

\* Once hydrated, the registry stands for the rows it knows, but the one in hand:
\* that one comes after all its mates.  A replay is those rows in their order.
Fits ==
  /\ unread \subseteq DOMAIN log
  /\ booted # "done" => opener = Silent
  /\ booted = "replay" => \E o \in InOrder(DOMAIN Known) : replay = [i \in DOMAIN o |-> log[o[i]]]
  /\ booted = "done" /\ ~wiping /\ hand = None => Matches(live, opener, Known)
  /\ booted = "done" /\ ~wiping /\ hand # None =>
       \E n \in DOMAIN Known :
         log[n] = hand /\ IsNewest(Known, n) /\ Matches(live, opener, But(Known, n))

LEMMA InitFits == ASSUME Init PROVE Fits
<1>1. DOMAIN live = {} /\ DOMAIN log = {} /\ opener = Silent /\ unread = {}
      /\ booted = "done" /\ hand = None
  BY DEF Init, Nothing
<1>2. DOMAIN Known = {}
  BY <1>1 DEF Known, Restrict
<1>3. Matches(live, opener, Known)
  BY <1>1, <1>2, EmptyMatches
<1> QED BY <1>1, <1>3 DEF Fits

LEMMA PruneFits ==
  ASSUME Exclusive, Typed, Fits, Prune PROVE Fits'
<1> DEFINE s == Next0.session
<1>1. /\ booted = "done" /\ ~wiping /\ hand = None /\ UNCHANGED <<booted, wiping, hand>>
      /\ s \in DOMAIN live /\ ~live[s].signal
      /\ log' = Restrict(log, {r \in DOMAIN log : log[r].session # s})
      /\ unread' = unread \cap DOMAIN log'
      /\ live' = Restrict(live, DOMAIN live \ {s})
      /\ opener' = IF opener.session = s THEN Silent ELSE opener
  BY DEF Prune, Ready, Exclusive, Prunable, IsDegenerate, Forget
<1> HIDE DEF s
<1>2. /\ IsLog(Known) /\ DOMAIN Known = DOMAIN log \ unread
      /\ \A r \in DOMAIN Known : Known[r] = log[r]
  BY KnownIsLog
<1>3. Known' = Restrict(log', DOMAIN log' \ unread')
  BY DEF Known
<1>4. /\ DOMAIN log' = {r \in DOMAIN log : log[r].session # s}
      /\ \A r \in DOMAIN log' : log'[r] = log[r]
      /\ DOMAIN live' = DOMAIN live \ {s} /\ \A z \in DOMAIN live' : live'[z] = live[z]
  BY <1>1 DEF Restrict
<1>5. DOMAIN Known' = DOMAIN log' \ unread' /\ \A r \in DOMAIN Known' : Known'[r] = log'[r]
  BY <1>3 DEF Restrict
<1>6. /\ DOMAIN Known' = {r \in DOMAIN Known : Known[r].session # s}
      /\ \A r \in DOMAIN Known' : Known'[r] = Known[r]
  <2>1. unread' = unread \cap DOMAIN log'
    BY <1>1
  <2>2. \A r : r \in DOMAIN Known' <=> r \in DOMAIN log' /\ r \notin unread
    BY <1>5, <2>1
  <2>3. \A r : r \in DOMAIN Known' <=> r \in DOMAIN log /\ log[r].session # s /\ r \notin unread
    BY <1>4, <2>2
  <2>4. \A r : r \in DOMAIN Known' <=> r \in DOMAIN Known /\ Known[r].session # s
    BY <1>2, <2>3
  <2>5. \A r \in DOMAIN Known' : Known'[r] = Known[r]
    BY <1>2, <1>4, <1>5, <2>2, <2>4
  <2> QED BY <2>4, <2>5
<1>7. IsRegistry(live, opener) /\ Matches(live, opener, Known)
  BY <1>1 DEF Typed, Fits
<1>8. Matches(live', opener, Known') /\ opener.session # s
  <2> DEFINE g == Known
             h == Known'
             k == live'
  <2>1. /\ \A r : r \in DOMAIN h <=> r \in DOMAIN g /\ g[r].session # s
        /\ \A r \in DOMAIN h : h[r] = g[r]
        /\ IsLog(g) /\ Matches(live, opener, g)
    BY <1>2, <1>6, <1>7
  <2>2. /\ \A z : z \in DOMAIN k <=> z \in DOMAIN live /\ z # s
        /\ \A z \in DOMAIN k : k[z] = live[z]
    BY <1>4
  <2> HIDE DEF g, h, k
  <2>3. Matches(k, opener, h) /\ opener.session # s
    BY <1>1, <1>7, <2>1, <2>2, ForgetMatches
  <2> QED BY <2>3 DEF h, k
<1> QED BY <1>1, <1>8 DEF Fits

LEMMA StoreFits ==
  ASSUME Exclusive, Typed, Timely, Fits, Store PROVE Fits'
<1> DEFINE n == NextRow
           ev == Next0
<1>1. /\ booted = "done" /\ ~wiping /\ hand = None
      /\ UNCHANGED <<booted, wiping, live, opener, unread>>
      /\ log' = Put(log, n, ev) /\ hand' = ev /\ queue # <<>>
  BY DEF Store, Ready, Exclusive
<1>2. ev \in Events /\ ev \in Queued /\ ev # None
  <2>1. ev \in Events
    BY ReadyQueue DEF Store
  <2>2. ev \in Queued
    BY <1>1 DEF Typed, Queued, Range, Next0
  <2> QED BY <2>1, <2>2, NoneIsNoEvent
<1>3. n \in Nat /\ \A r \in DOMAIN log : r < n /\ r \in Nat
  BY NewRow, KnownIsLog DEF IsLog
<1> HIDE DEF n, ev
<1>4. /\ IsLog(log) /\ IsLog(Known) /\ DOMAIN Known = DOMAIN log \ unread
      /\ \A r \in DOMAIN Known : Known[r] = log[r]
  BY KnownIsLog
<1>5. n \notin DOMAIN log /\ n \notin unread
  BY <1>3 DEF Fits
<1>6. /\ DOMAIN log' = DOMAIN log \cup {n} /\ log'[n] = ev
      /\ \A r \in DOMAIN log : log'[r] = log[r]
  BY <1>1, <1>5 DEF Put
<1>7. DOMAIN Known' = DOMAIN log' \ unread' /\ \A r \in DOMAIN Known' : Known'[r] = log'[r]
  BY DEF Known, Restrict
<1>8. /\ DOMAIN Known' = DOMAIN Known \cup {n} /\ n \notin DOMAIN Known /\ Known'[n] = ev
      /\ \A r \in DOMAIN Known : Known'[r] = Known[r]
  BY <1>1, <1>4, <1>5, <1>6, <1>7
<1>9. IsNewest(Known', n)
  <2> SUFFICES ASSUME NEW r \in DOMAIN Known, Mates(Known[r], ev) PROVE Before(Known', r, n)
    BY <1>8 DEF IsNewest
  <2>1. Known[r] \in Rows /\ Known[r] \in Events /\ r < n /\ r \in Nat
    BY <1>3, <1>4 DEF Rows, Range, IsLog
  <2>2. Known[r].at <= ev.at
    BY <1>2, <2>1 DEF Timely, Precede
  <2>3. Known[r].at \in Int /\ ev.at \in Int
    BY <1>2, <2>1 DEF Events
  <2> QED BY <1>8, <2>1, <2>2, <2>3 DEF Before
<1>10. But(Known', n) = Known
  <2>1. DOMAIN Known' \ {n} = DOMAIN Known
    BY <1>8
  <2>2. Known = [r \in DOMAIN Known |-> Known[r]]
    BY <1>4 DEF IsLog
  <2> QED BY <1>8, <2>1, <2>2 DEF But, Restrict
<1>11. Matches(live', opener', But(Known', n))
  BY <1>1, <1>10 DEF Fits
<1>12. n \in DOMAIN Known' /\ log'[n] = hand'
  BY <1>1, <1>6, <1>8
<1>13. unread' \subseteq DOMAIN log' /\ booted' = "done" /\ hand' # None
  BY <1>1, <1>2, <1>6 DEF Fits
<1> QED BY <1>9, <1>11, <1>12, <1>13 DEF Fits

LEMMA AccountFits ==
  ASSUME Typed, Booting, Fits, Account PROVE Fits'
<1>1. /\ hand # None /\ hand' = None /\ UNCHANGED <<log, booted, replay, unread, wiping>>
      /\ booted = "done" /\ ~wiping /\ hand \in Events
  BY DEF Account, Booting, Typed
<1>2. PICK n \in DOMAIN Known :
        log[n] = hand /\ IsNewest(Known, n) /\ Matches(live, opener, But(Known, n))
  BY <1>1 DEF Fits
<1> DEFINE g == But(Known, n)
           q == Observe([live |-> live, opener |-> opener], hand)
<1>3. IsLog(Known) /\ Known[n] = hand /\ n \in Nat
  BY <1>2, KnownIsLog DEF IsLog
<1>4. /\ IsLog(g) /\ DOMAIN g = DOMAIN Known \ {n} /\ \A r \in DOMAIN g : g[r] = Known[r]
  BY <1>3, PartIsLog DEF But
<1>5. Matches(live, opener, g) /\ IsRegistry(live, opener)
  BY <1>2 DEF Typed
<1>6. live' = q.live /\ opener' = q.opener
  BY DEF Account, Fold
<1> HIDE DEF g, q
<1>7. n \in Nat \ DOMAIN g
  BY <1>3, <1>4
<1>8. Known = Put(g, n, hand)
  <2>1. Known = [r \in DOMAIN Known |-> Known[r]] /\ DOMAIN Known = DOMAIN g \cup {n}
    BY <1>2, <1>3, <1>4 DEF IsLog
  <2>2. \A r \in DOMAIN Known : Known[r] = IF r = n THEN hand ELSE g[r]
    BY <1>3, <1>4
  <2> QED BY <2>1, <2>2 DEF Put
<1>9. \A r \in DOMAIN g : Mates(g[r], hand) => Before(Known, r, n)
  BY <1>2, <1>3, <1>4 DEF IsNewest
<1>10. Matches(q.live, q.opener, Known)
  BY <1>1, <1>4, <1>5, <1>7, <1>8, <1>9, ObserveMatches DEF q
<1>11. Known' = Known
  BY <1>1 DEF Known
<1>12. Matches(live', opener', Known')
  BY <1>6, <1>10, <1>11
<1> QED BY <1>1, <1>12 DEF Fits

LEMMA ReadFits ==
  ASSUME Typed, EmptyAtBoot, Fits, HydrateRead PROVE Fits'
<1> DEFINE S == Since(clock - ReplayWindow)
<1>1. /\ booted' = "replay" /\ unread' = DOMAIN log \ S
      /\ UNCHANGED <<log, opener>> /\ booted = "reading"
  BY DEF HydrateRead
<1>2. PICK o \in InOrder(S) : replay' = [i \in DOMAIN o |-> log[o[i]]]
  BY DEF HydrateRead
<1>3. S \subseteq DOMAIN log
  BY DEF Since
<1> HIDE DEF S
<1>4. DOMAIN Known' = S
  <2>1. DOMAIN Known' = DOMAIN log' \ unread'
    BY DEF Known, Restrict
  <2> QED BY <1>1, <1>3, <2>1
<1>5. o \in InOrder(DOMAIN Known)'
  <2>1. o \in {p \in [1 .. Cardinality(S) -> S] :
                 Range(p) = S /\ \A i, j \in DOMAIN p : i < j => Before(log', p[i], p[j])}
    BY <1>1 DEF InOrder
  <2> QED BY <1>4, <2>1 DEF InOrder
<1>6. replay' = [i \in DOMAIN o |-> log'[o[i]]]
  BY <1>1, <1>2
<1>7. opener' = Silent /\ unread' \subseteq DOMAIN log'
  BY <1>1 DEF Fits
<1> QED BY <1>1, <1>5, <1>6, <1>7 DEF Fits

LEMMA FoldFits ==
  ASSUME Typed, Booting, EmptyAtBoot, Fits, HydrateFold PROVE Fits'
<1>1. /\ booted = "replay" /\ booted' = "done" /\ UNCHANGED <<log, hand, unread, wiping>>
      /\ hand = None /\ DOMAIN live = {} /\ opener = Silent
      /\ live' = replayed[Len(replay)].live /\ opener' = replayed[Len(replay)].opener
  BY DEF HydrateFold, EmptyAtBoot, Fits
<1>2. PICK o \in InOrder(DOMAIN Known) : replay = [i \in DOMAIN o |-> log[o[i]]]
  BY <1>1 DEF Fits
<1>3. Matches(live', opener', Known)
  BY <1>1, <1>2, ReplayMatches
<1>4. Known' = Known
  BY <1>1 DEF Known
<1> QED BY <1>1, <1>3, <1>4 DEF Fits

LEMMA NextFits ==
  ASSUME Exclusive, Typed, Timely, Booting, EmptyAtBoot, Fits, [Next]_vars PROVE Fits'
<1>1. CASE UNCHANGED <<booted, hand, log, live, opener, replay, unread, wiping>>
  <2>1. Known' = Known
    BY <1>1 DEF Known
  <2>2. InOrder(DOMAIN Known)' = InOrder(DOMAIN Known)
    BY <1>1, <2>1 DEF InOrder
  <2>3. \A o : replay' = [i \in DOMAIN o |-> log'[o[i]]] <=> replay = [i \in DOMAIN o |-> log[o[i]]]
    BY <1>1
  <2> QED BY <1>1, <2>1, <2>2, <2>3 DEF Fits
<1>2. CASE Prune
  BY <1>2, PruneFits
<1>3. CASE Store
  BY <1>3, StoreFits
<1>4. CASE Account
  BY <1>4, AccountFits
<1>5. CASE Crash
  BY <1>5 DEF Crash, Fits
<1>6. CASE HydrateRead
  BY <1>6, ReadFits
<1>7. CASE HydrateFold
  BY <1>7, FoldFits
<1>8. CASE NukeStore
  <2>1. booted' = "done" /\ wiping' /\ unread' = {}
    BY <1>8 DEF NukeStore, Exclusive, Typed
  <2> QED BY <2>1 DEF Fits
<1>9. CASE NukeRegistry
  <2>1. /\ DOMAIN log' = {} /\ DOMAIN live' = {} /\ opener' = Silent /\ hand' = None
        /\ booted' = "done" /\ unread' = {}
    BY <1>9 DEF NukeRegistry, Booting, Nothing, Fits
  <2>2. DOMAIN Known' = {}
    BY <2>1 DEF Known, Restrict
  <2>3. Matches(live', opener', Known')
    BY <2>1, <2>2, EmptyMatches
  <2> QED BY <2>1, <2>3 DEF Fits
<1> QED BY <1>1, <1>2, <1>3, <1>4, <1>5, <1>6, <1>7, <1>8, <1>9
        DEF Next, vars, Pass, HookArrives, Start, Stop, LogInterval, Ticker, Mint, Send,
            CoalesceDrop, Lose

LEMMA InitTimely == ASSUME Init PROVE Timely
<1>1. /\ queue = <<>> /\ outbox["control"] = <<>> /\ outbox["ticker"] = <<>> /\ DOMAIN log = {}
  BY DEF Init, Nothing
<1>2. Rows = {} /\ Queued = {} /\ Commanded = {} /\ Ticked = {}
  BY <1>1 DEF Rows, Queued, Commanded, Ticked, Range
<1>3. Sorted(queue) /\ Sorted(outbox["control"])
  BY <1>1 DEF Sorted
<1> QED BY <1>2, <1>3 DEF Timely, Precede

LEMMA FitsIsAccounting == ASSUME Typed, Fits PROVE RegistryMatchesLog
<1> SUFFICES ASSUME Settled
             PROVE  /\ DOMAIN live = {Known[r].session : r \in DOMAIN Known}
                    /\ \A s \in DOMAIN live :
                         LET seen == Mine(Known, s) IN
                         /\ live[s].active = AgentActive(seen)
                         /\ live[s].ended = Terminal(seen[Latest(seen)].kind)
                         /\ live[s].signal = \E r \in DOMAIN seen : Signal(seen[r].kind)
                    /\ SumFunction([s \in DOMAIN live |-> live[s].engaged]) = TotalHuman(Known)
  BY DEF RegistryMatchesLog
<1>1. Matches(live, opener, Known)
  BY DEF Settled, Fits
<1>2. ASSUME NEW s \in DOMAIN live
      PROVE  LET seen == Mine(Known, s) IN
             /\ live[s].active = AgentActive(seen)
             /\ live[s].ended = Terminal(seen[Latest(seen)].kind)
             /\ live[s].signal = \E r \in DOMAIN seen : Signal(seen[r].kind)
  <2> DEFINE seen == Mine(Known, s)
  <2>1. IsLog(seen)
    BY KnownIsLog, MineIsLog
  <2>2. AccountOf(live[s], seen)
    BY <1>1 DEF Matches
  <2>3. live[s].ended \in BOOLEAN /\ live[s].signal \in BOOLEAN
    BY DEF Typed, IsRegistry, Lives
  <2> HIDE DEF seen
  <2>4. PICK m \in DOMAIN seen : IsLast(seen, m) /\ (live[s].ended <=> Terminal(seen[m].kind))
    BY <2>2 DEF AccountOf
  <2>5. Latest(seen) = m
    <3>1. \A q \in DOMAIN seen : q # m => Before(seen, q, m)
      BY <2>4 DEF IsLast
    <3>2. \A r \in DOMAIN seen : (\A q \in DOMAIN seen : q # r => Before(seen, q, r)) => r = m
      <4> SUFFICES ASSUME NEW r \in DOMAIN seen, \A q \in DOMAIN seen : q # r => Before(seen, q, r),
                          r # m
                   PROVE  FALSE
        OBVIOUS
      <4>1. Before(seen, m, r) /\ Before(seen, r, m)
        BY <3>1
      <4> QED BY <2>1, <4>1, BeforeIsOrder
    <3> QED BY <3>1, <3>2 DEF Latest
  <2>6. live[s].ended <=> Terminal(seen[Latest(seen)].kind)
    BY <2>4, <2>5
  <2>7. live[s].signal <=> \E r \in DOMAIN seen : Signal(seen[r].kind)
    BY <2>2 DEF AccountOf
  <2>8. live[s].active = AgentActive(seen)
    BY <2>2 DEF AccountOf
  <2>9. live[s].ended = Terminal(seen[Latest(seen)].kind)
    BY <2>3, <2>6 DEF Terminal
  <2>10. live[s].signal = \E r \in DOMAIN seen : Signal(seen[r].kind)
    BY <2>3, <2>7
  <2> QED BY <2>8, <2>9, <2>10 DEF seen
<1>3. SumFunction([s \in DOMAIN live |-> live[s].engaged]) = TotalHuman(Known)
  BY <1>1 DEF Matches, Engaged
<1> QED BY <1>1, <1>2, <1>3 DEF Matches

\* For any sessions, thresholds, coalescing window, queue, replays and crashes: the
\* registry, folded one event at a time and rebuilt by replays of a part of the log,
\* is what the batch accounting makes of the rows it knows; when no message is taken
\* during a boot's or a nuke's writes, no stamped event waits while time passes, and
\* no interval is logged across the signals of others.
THEOREM RegistryIsAccounting ==
  ASSUME Exclusive, InStep PROVE Spec => []RegistryMatchesLog
<1> DEFINE I == Typed /\ Appended /\ Booting /\ EmptyAtBoot /\ Timely /\ Fits
<1>1. HydratesFirst
  BY DEF Exclusive, HydratesFirst
<1>2. Init => I
  BY InitIsTyped, InitAppended, InitTimely, InitFits DEF Init, Booting, EmptyAtBoot, Nothing
<1>3. I /\ [Next]_vars => I'
  BY <1>1, NextIsTyped, NextAppended, NextBooting, NextEmptyAtBoot, NextTimely, NextFits
<1>4. I => RegistryMatchesLog
  BY FitsIsAccounting
<1> QED BY <1>2, <1>3, <1>4, PTL DEF Spec

--------------------------------------------------------------------------------
(* The types of a capture of tokens, with every hazard admitted.           *)

\* A transcript has a generation, room for a line, and a prologue to fingerprint.
TurnSized == MaxGens \in Nat \ {0} /\ MaxLines \in Nat \ {0} /\ Prologue \in Nat \ {0}

Prints == {NoFp} \cup ((1 .. MaxGens) \X (1 .. Prologue))
Opened == [gen : 1 .. MaxGens, size : 0 .. 2 * MaxLines, fp : Prints]
TurnTyped ==
  /\ TurnTypeOK
  /\ step # "idle" => open \in Opened
  /\ step = "read" => tail \in [from : Nat, to : 0 .. 2 * MaxLines, next : Nat \ {0}]

LEMMA WholeLines ==
  ASSUME TurnSized, NEW n \in 0 .. 2 * MaxLines
  PROVE  Lines(n) \in 0 .. MaxLines /\ 2 * Lines(n) \in {2 * m : m \in 0 .. MaxLines}
<1>1. Lines(n) \in 0 .. MaxLines
  BY DEF TurnSized, Lines
<1> QED BY <1>1

LEMMA FingerprintTyped ==
  ASSUME TurnSized, NEW g \in 1 .. MaxGens, NEW n \in Nat
  PROVE  Fingerprint(g, n) \in Prints
BY DEF TurnSized, Fingerprint, Prints, Least

LEMMA TurnTypeInit == ASSUME TurnSized PROVE TurnInit => TurnTyped
<1> SUFFICES ASSUME TurnInit PROVE TurnTyped
  OBVIOUS
<1>1. 1 \in 1 .. MaxGens /\ 1 \in 1 .. MaxLines /\ 2 \in 0 .. 2 * MaxLines
  BY DEF TurnSized
<1>2. offset \in {0, 2} /\ {0, 2} \subseteq {2 * m : m \in 0 .. MaxLines}
  <2>1. 0 \in 0 .. MaxLines /\ 1 \in 0 .. MaxLines /\ 2 * 0 = 0 /\ 2 * 1 = 2
    BY DEF TurnSized
  <2> QED BY <2>1 DEF TurnInit
<1>3. rows \subseteq (1 .. MaxGens) \X (1 .. MaxLines)
  BY <1>1 DEF TurnInit
<1>4. file \in [gen : 1 .. MaxGens, size : 0 .. 2 * MaxLines]
  BY <1>1 DEF TurnInit
<1> QED BY <1>2, <1>3, <1>4 DEF TurnInit, TurnTyped, TurnTypeOK

LEMMA TurnTypeStep ==
  ASSUME TurnSized, TurnTyped, [TurnNext]_turnVars PROVE TurnTyped'
<1> USE DEF TurnTyped, TurnTypeOK
<1>1. CASE UNCHANGED turnVars
  BY <1>1 DEF turnVars
<1>2. CASE Extend \/ \E n \in 0 .. 2 * MaxLines : Replace(n)
  <2>1. file' \in [gen : 1 .. MaxGens, size : 0 .. 2 * MaxLines]
    <3>1. CASE Extend
      <4>1. file.size + 1 \in 0 .. 2 * MaxLines /\ file' = [file EXCEPT !.size = file.size + 1]
        BY <3>1 DEF Extend, TurnSized
      <4> QED BY <4>1
    <3>2. ASSUME NEW n \in 0 .. 2 * MaxLines, Replace(n)
          PROVE  file' \in [gen : 1 .. MaxGens, size : 0 .. 2 * MaxLines]
      BY <3>2 DEF Replace, TurnSized
    <3> QED BY <1>2, <3>1, <3>2
  <2> QED BY <1>2, <2>1 DEF Extend, Replace
<1>3. CASE Open
  <2>1. open' \in Opened
    BY <1>3, FingerprintTyped DEF Open, Opened
  <2> QED BY <1>3, <2>1 DEF Open
<1>4. CASE RememberFp
  <2>1. open.fp \in Prints
    BY <1>4 DEF RememberFp, Opened
  <2> QED BY <1>4, <2>1 DEF RememberFp, Prints
<1>5. ASSUME NEW n \in 0 .. 2 * MaxLines, Read(n) PROVE TurnTyped'
  <2>1. From \in 0 .. 2 * MaxLines
    <3>1. PICK m \in 0 .. MaxLines : offset = 2 * m
      OBVIOUS
    <3>2. offset \in 0 .. 2 * MaxLines /\ 0 \in 0 .. 2 * MaxLines
      BY <3>1 DEF TurnSized
    <3> QED BY <3>2 DEF From
  <2>2. Lines(From) + 1 \in Nat \ {0} /\ From \in Nat
    BY <2>1, WholeLines DEF TurnSized
  <2>3. tail' = [from |-> From, to |-> n, next |-> Lines(From) + 1]
    BY <1>5 DEF Read
  <2>4. tail' \in [from : Nat, to : 0 .. 2 * MaxLines, next : Nat \ {0}]
    BY <2>2, <2>3
  <2> QED BY <1>5, <2>4 DEF Read
<1>6. ASSUME NEW ok \in BOOLEAN, UpsertTokenUsage(ok) PROVE TurnTyped'
  <2>1. /\ tail \in [from : Nat, to : 0 .. 2 * MaxLines, next : Nat \ {0}]
        /\ open \in Opened /\ tail.next <= Lines(tail.to)
    BY <1>6 DEF UpsertTokenUsage
  <2>2. open.gen \in 1 .. MaxGens /\ tail.next \in 1 .. MaxLines
    BY <2>1, WholeLines DEF Opened, TurnSized
  <2>3. rows' \subseteq (1 .. MaxGens) \X (1 .. MaxLines)
    BY <1>6, <2>2 DEF UpsertTokenUsage
  <2>4. tail' = [tail EXCEPT !.next = tail.next + 1]
    BY <1>6 DEF UpsertTokenUsage
  <2>5. tail' \in [from : Nat, to : 0 .. 2 * MaxLines, next : Nat \ {0}]
    BY <2>1, <2>4
  <2> QED BY <1>6, <2>3, <2>5 DEF UpsertTokenUsage
<1>7. ASSUME NEW ok \in BOOLEAN, MarkOffset(ok) PROVE TurnTyped'
  <2>1. tail.to \in 0 .. 2 * MaxLines
    BY <1>7 DEF MarkOffset
  <2>2. NewOffset \in {2 * m : m \in 0 .. MaxLines}
    BY <2>1, WholeLines DEF NewOffset
  <2>3. offset' \in {2 * m : m \in 0 .. MaxLines}
    BY <1>7, <2>2 DEF MarkOffset
  <2> QED BY <1>7, <2>3 DEF MarkOffset
<1>8. ASSUME NEW ok \in BOOLEAN, MarkFp(ok) PROVE TurnTyped'
  <2>1. open.fp \in Prints
    BY <1>8 DEF MarkFp, Opened
  <2> QED BY <1>8, <2>1 DEF MarkFp, Prints
<1>9. CASE TurnCrash
  BY <1>9 DEF TurnCrash
<1> QED BY <1>1, <1>2, <1>3, <1>4, <1>5, <1>6, <1>7, <1>8, <1>9 DEF TurnNext

\* Whatever is torn, fails or crashes, an offset stands between two whole lines, so
\* that no later turn is read from its middle (capture_tokens_into).
THEOREM TurnsTyped == ASSUME TurnSized PROVE TurnSpec => []TurnTypeOK
<1>1. TurnInit => TurnTyped
  BY TurnTypeInit
<1>2. TurnTyped /\ [TurnNext]_turnVars => TurnTyped'
  BY TurnTypeStep
<1>3. TurnTyped => TurnTypeOK
  BY DEF TurnTyped
<1> QED BY <1>1, <1>2, <1>3, PTL DEF TurnSpec

================================================================================
