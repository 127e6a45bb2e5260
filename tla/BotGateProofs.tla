---------------------------- MODULE BotGateProofs ----------------------------
(***************************************************************************)
(* The token store and the request history, for every number of clients,   *)
(* tokens and entries, and every limit.  What holds of the store needs     *)
(* nothing of the history, and the other way round.  The last part says    *)
(* when the rate rule, which a bounded history can miss, does hold.        *)
(***************************************************************************)
EXTENDS BotGate, SequenceTheorems, FiniteSetTheorems, WellFoundedInduction, TLAPS

\* Each token was used, or earned, by its client no later than the client's
\* last use of a token or last captcha.
StoreInv ==
    /\ now \in Times
    /\ DOMAIN store \subseteq Tokens
    /\ \A t \in DOMAIN store: store[t] \in Entry /\ store[t].seen <= now
    /\ earned \in [Clients -> Times \cup {Never}]
    /\ \A t \in DOMAIN store:
           /\ earned[store[t].client] # Never
           /\ store[t].seen <= earned[store[t].client]

\* What an action may do to the store and to `earned`.
Uses(client, token) ==
    /\ Valid(token, client)
    /\ store' = [Live EXCEPT ![token].seen = now]
    /\ earned' = [earned EXCEPT ![client] = now]

Creates(client) ==
    /\ CreateBypass(Live, client)
    /\ earned' = [earned EXCEPT ![client] = now]

Leaves ==
    /\ store' \in {store, Live}
    /\ UNCHANGED earned

(* Live: a part of the store. *)
LEMMA LiveFacts ==
    /\ DOMAIN Live \subseteq DOMAIN store
    /\ \A t \in DOMAIN Live: Live[t] = store[t]
    /\ \A t \in DOMAIN store \ DOMAIN Live: Expired(t)
  BY DEF Live

\* The actions, sorted by what they do to the store.
LEMMA StoreMoves ==
    ASSUME Next
    PROVE  \/ now < MaxTime /\ now' = now + 1 /\ UNCHANGED <<store, earned>>
           \/ /\ UNCHANGED now
              /\ \/ \E client \in Clients, token \in Tokens:
                        Uses(client, token) /\ last'.client = client
                 \/ /\ last'.got # "bypass"
                    /\ Leaves \/ \E client \in Clients: Creates(client)
<1>1. CASE Tick
  BY <1>1 DEF Tick
<1>2. ASSUME NEW client \in Clients, NEW token \in Tokens, Bypass(client, token)
      PROVE  UNCHANGED now /\ Uses(client, token) /\ last'.client = client
  BY <1>2 DEF Bypass, Uses
<1>3. ASSUME NEW client, NEW kind, NEW got \in {"captcha", "token"},
             Track(client, kind, got)
      PROVE  last'.got \in {got, "page"}
  BY <1>3 DEF Track
<1>4. ASSUME NEW client \in Clients, NEW token, NEW kind, Judge(client, kind, token)
      PROVE  UNCHANGED now /\ last'.got # "bypass" /\ Leaves
  BY <1>3, <1>4 DEF Judge, Leaves, Looked
<1>5. ASSUME NEW client \in Clients, NEW token, Solve(client, token)
      PROVE  UNCHANGED now /\ last'.got # "bypass" /\ (Leaves \/ Creates(client))
  BY <1>3, <1>5 DEF Solve, Leaves, Creates, Looked
<1> QED
  BY <1>1, <1>2, <1>4, <1>5 DEF Next

-----------------------------------------------------------------------------
(* The tokens *)

\* An evicted store is a part of the store.
LEMMA EvictedFacts ==
    ASSUME NEW s, NEW e \in Evicted(s)
    PROVE  /\ DOMAIN e \subseteq DOMAIN s
           /\ \A t \in DOMAIN e: e[t] = s[t]
<1>1. CASE e = s
  BY <1>1
<1>2. CASE e = <<>>
  <2>1. DOMAIN e = {}
    BY <1>2
  <2> QED
    BY <2>1
<1>3. ASSUME NEW t, e = Without(s, t)
      PROVE  DOMAIN e \subseteq DOMAIN s /\ \A u \in DOMAIN e: e[u] = s[u]
  BY <1>3 DEF Without
<1> QED
  BY <1>1, <1>2, <1>3 DEF Evicted

LEMMA StoreInvHolds == Spec => []StoreInv
<1> USE GateAssumption DEF GateAssumption, Times, Never
<1>1. Init => StoreInv
  <2> SUFFICES ASSUME Init PROVE StoreInv
    OBVIOUS
  <2>1. DOMAIN store = {}
    BY DEF Init
  <2>2. now = 0 /\ earned = [c \in Clients |-> Never]
    BY DEF Init
  <2> QED
    BY <2>1, <2>2 DEF StoreInv
<1>2. StoreInv /\ [Next]_vars => StoreInv'
  <2> SUFFICES ASSUME StoreInv, [Next]_vars PROVE StoreInv'
    OBVIOUS
  <2>1. CASE now < MaxTime /\ now' = now + 1 /\ UNCHANGED <<store, earned>>
    <3>1. now' \in Times /\ now <= now'
      BY <2>1 DEF StoreInv
    <3>2. \A t \in DOMAIN store: store[t].seen <= now'
      BY <3>1 DEF StoreInv, Entry
    <3> QED
      BY <2>1, <3>1, <3>2 DEF StoreInv
  <2>2. CASE UNCHANGED now /\ Leaves
    BY <2>2, LiveFacts DEF StoreInv, Leaves
  <2>3. ASSUME UNCHANGED now, NEW client \in Clients, NEW token \in Tokens,
               Uses(client, token)
        PROVE  StoreInv'
    <3>1. token \in DOMAIN Live /\ Live[token].client = client
      BY <2>3 DEF Uses, Valid
    <3>2. DOMAIN store' = DOMAIN Live
      BY <2>3 DEF Uses
    <3>3. \A t \in DOMAIN Live: Live[t] \in Entry /\ Live[t].seen <= now
      BY LiveFacts DEF StoreInv
    <3>4. \A t \in DOMAIN Live:
              store'[t] = IF t = token THEN [Live[t] EXCEPT !.seen = now] ELSE Live[t]
      BY <2>3, <3>1 DEF Uses, Live
    <3>5. \A t \in DOMAIN store':
              /\ store'[t] \in Entry /\ store'[t].seen <= now
              /\ store'[t].client = Live[t].client
              /\ t # token => store'[t].seen = Live[t].seen
      BY <3>2, <3>3, <3>4 DEF StoreInv, Entry
    <3>6. /\ earned' \in [Clients -> Times \cup {Never}]
          /\ earned'[client] = now
          /\ \A c \in Clients: c # client => earned'[c] = earned[c]
      BY <2>3 DEF Uses, StoreInv
    <3>7. ASSUME NEW t \in DOMAIN store'
          PROVE  /\ earned'[store'[t].client] # Never
                 /\ store'[t].seen <= earned'[store'[t].client]
      <4>1. CASE store'[t].client = client
        BY <3>5, <3>6, <4>1 DEF StoreInv
      <4>2. CASE store'[t].client # client
        <5>1. t # token /\ t \in DOMAIN store /\ Live[t] = store[t]
          BY <3>1, <3>2, <3>5, <4>2, LiveFacts
        <5>2. store'[t].client \in Clients
          BY <3>5 DEF Entry
        <5> QED
          BY <3>5, <3>6, <4>2, <5>1, <5>2 DEF StoreInv
      <4> QED
        BY <4>1, <4>2
    <3> QED
      BY <2>3, <3>2, <3>5, <3>6, <3>7, LiveFacts DEF StoreInv
  <2>4. ASSUME UNCHANGED now, NEW client \in Clients, Creates(client)
        PROVE  StoreInv'
    <3>1. PICK e \in Evicted(Live), token \in Tokens: store' = Insert(e, token, client)
      BY <2>4 DEF Creates, CreateBypass
    <3>2. /\ DOMAIN e \subseteq DOMAIN store
          /\ \A t \in DOMAIN e: e[t] = store[t]
      BY <3>1, EvictedFacts, LiveFacts
    <3>3. /\ DOMAIN store' = DOMAIN e \cup {token}
          /\ store'[token] = [client |-> client, seen |-> now]
          /\ \A t \in DOMAIN e: t # token => store'[t] = store[t]
      BY <3>1, <3>2 DEF Insert
    <3>4. /\ earned' \in [Clients -> Times \cup {Never}]
          /\ earned'[client] = now
          /\ \A c \in Clients: c # client => earned'[c] = earned[c]
      BY <2>4 DEF Creates, StoreInv
    <3>5. ASSUME NEW t \in DOMAIN store'
          PROVE  /\ t \in Tokens /\ store'[t] \in Entry /\ store'[t].seen <= now
                 /\ earned'[store'[t].client] # Never
                 /\ store'[t].seen <= earned'[store'[t].client]
      <4>1. CASE t = token
        BY <3>3, <3>4, <4>1 DEF StoreInv, Entry
      <4>2. CASE t # token
        <5>1. t \in DOMAIN store /\ store'[t] = store[t]
          BY <3>2, <3>3, <4>2
        <5>2. /\ store[t] \in Entry /\ store[t].client \in Clients
              /\ store[t].seen <= now /\ now # Never
          BY <5>1 DEF StoreInv, Entry
        <5> QED
          BY <3>4, <5>1, <5>2 DEF StoreInv
      <4> QED
        BY <4>1, <4>2
    <3> QED
      BY <2>4, <3>4, <3>5 DEF StoreInv
  <2>5. CASE UNCHANGED vars
    BY <2>5 DEF StoreInv, vars
  <2> QED
    BY <2>1, <2>2, <2>3, <2>4, <2>5, StoreMoves
<1> QED
  BY <1>1, <1>2, PTL DEF Spec

\* A client passes uncounted only within the time to live of its last captcha or
\* its last use of the token (hasValidBypass, createBypass).
THEOREM PassesEarned == Spec => BypassIsEarned
<1> DEFINE Earns ==
        \A c \in Clients:
            UNCHANGED now /\ last'.client = c /\ last'.got = "bypass" =>
                earned[c] # Never /\ now - earned[c] <= Ttl
<1>1. StoreInv /\ [Next]_vars => [Earns]_vars
  <2> SUFFICES ASSUME StoreInv, Next, UNCHANGED now, last'.got = "bypass"
               PROVE  earned[last'.client] # Never /\ now - earned[last'.client] <= Ttl
    OBVIOUS
  <2>1. now \in Nat
    BY GateAssumption DEF StoreInv, Times, GateAssumption
  <2>2. PICK client \in Clients, token \in Tokens:
            Uses(client, token) /\ last'.client = client
    BY <2>1, StoreMoves
  <2>3. token \in DOMAIN Live /\ Live[token].client = client
    BY <2>2 DEF Uses, Valid
  <2>4. token \in DOMAIN store /\ store[token].client = client /\ ~Expired(token)
    BY <2>3, LiveFacts DEF Live
  <2>5. /\ store[token].seen \in Nat
        /\ store[token].seen <= earned[client]
        /\ earned[client] # Never /\ earned[client] \in Nat
    BY <2>4, GateAssumption DEF StoreInv, Entry, Times, Never, GateAssumption
  <2> QED
    BY <2>1, <2>2, <2>4, <2>5, GateAssumption DEF Expired, GateAssumption
<1> QED
  BY <1>1, StoreInvHolds, PTL DEF Spec, BypassIsEarned

(* One element more or less. *)
LEMMA OneLess ==
    ASSUME NEW d, NEW x \in d, IsFiniteSet(d)
    PROVE  Cardinality(d \ {x}) = Cardinality(d) - 1
  BY FS_RemoveElement

LEMMA OneMore ==
    ASSUME NEW d, NEW x, IsFiniteSet(d)
    PROVE  Cardinality(d \cup {x}) \in {Cardinality(d), Cardinality(d) + 1}
  BY FS_AddElement

(* The store is a finite part of the tokens. *)
LEMMA PartsAreFinite ==
    ASSUME NEW s, s \subseteq Tokens
    PROVE  IsFiniteSet(s) /\ Cardinality(s) \in Nat
  BY GateAssumption, FS_Subset, FS_CardinalityType DEF GateAssumption

\* evictOldestIfNeeded leaves room for one token.
LEMMA EvictedHasRoom ==
    ASSUME NEW s, DOMAIN s \subseteq Tokens, NEW e \in Evicted(s),
           Cardinality(DOMAIN s) <= IF MaxEntries = 0 THEN 1 ELSE MaxEntries
    PROVE  Cardinality(DOMAIN e) < IF MaxEntries = 0 THEN 1 ELSE MaxEntries
<1> USE GateAssumption DEF GateAssumption
<1>1. IsFiniteSet(DOMAIN s) /\ Cardinality(DOMAIN s) \in Nat
  BY PartsAreFinite
<1>2. CASE Cardinality(DOMAIN s) < MaxEntries
  BY <1>1, <1>2 DEF Evicted
<1>3. CASE MaxEntries = 0
  <2>1. e = <<>>
    BY <1>1, <1>3 DEF Evicted
  <2>2. DOMAIN e = {}
    BY <2>1
  <2> QED
    BY <1>3, <2>2, FS_EmptySet
<1>4. CASE Cardinality(DOMAIN s) >= MaxEntries /\ MaxEntries # 0
  <2>1. PICK t \in Oldest(s): e = Without(s, t)
    BY <1>1, <1>4 DEF Evicted
  <2>2. t \in DOMAIN s /\ DOMAIN e = DOMAIN s \ {t}
    BY <2>1 DEF Oldest, Without
  <2>3. Cardinality(DOMAIN e) = Cardinality(DOMAIN s) - 1
    BY <1>1, <2>2, OneLess
  <2> QED
    BY <1>1, <1>4, <2>3
<1> QED
  BY <1>1, <1>2, <1>3, <1>4

\* The store never holds more than max_entries tokens (one if that is 0).
THEOREM StoreStaysBounded == Spec => []StoreBounded
<1> USE GateAssumption DEF GateAssumption
<1> DEFINE Bound == IF MaxEntries = 0 THEN 1 ELSE MaxEntries
<1>0. Bound \in Nat \ {0}
  OBVIOUS
<1>1. Init => StoreBounded
  <2> SUFFICES ASSUME Init PROVE StoreBounded
    OBVIOUS
  <2>1. DOMAIN store = {}
    BY DEF Init
  <2> QED
    BY <1>0, <2>1, FS_EmptySet DEF StoreBounded
<1>2. StoreInv /\ StoreBounded /\ [Next]_vars => StoreBounded'
  <2> SUFFICES ASSUME StoreInv, StoreBounded, [Next]_vars PROVE StoreBounded'
    OBVIOUS
  <2>1. /\ DOMAIN store \subseteq Tokens /\ DOMAIN Live \subseteq DOMAIN store
        /\ IsFiniteSet(DOMAIN store) /\ Cardinality(DOMAIN store) \in Nat
        /\ IsFiniteSet(DOMAIN Live) /\ Cardinality(DOMAIN Live) \in Nat
        /\ Cardinality(DOMAIN Live) <= Cardinality(DOMAIN store)
    <3>1. DOMAIN store \subseteq Tokens /\ DOMAIN Live \subseteq DOMAIN store
      BY LiveFacts DEF StoreInv
    <3>2. IsFiniteSet(DOMAIN store) /\ Cardinality(DOMAIN store) \in Nat
      BY <3>1, PartsAreFinite
    <3>3. DOMAIN Live \subseteq Tokens
      BY <3>1
    <3>4. IsFiniteSet(DOMAIN Live) /\ Cardinality(DOMAIN Live) \in Nat
      BY <3>3, PartsAreFinite
    <3>5. Cardinality(DOMAIN Live) <= Cardinality(DOMAIN store)
      BY <3>1, <3>2, FS_Subset
    <3> QED
      BY <3>1, <3>2, <3>4, <3>5
  <2>2. CASE DOMAIN store' \in {DOMAIN store, DOMAIN Live}
    BY <1>0, <2>1, <2>2 DEF StoreBounded
  <2>3. ASSUME NEW client \in Clients, Creates(client) PROVE StoreBounded'
    <3>1. PICK e \in Evicted(Live), token \in Tokens: store' = Insert(e, token, client)
      BY <2>3 DEF Creates, CreateBypass
    <3>2. DOMAIN Live \subseteq Tokens /\ Cardinality(DOMAIN Live) <= Bound
      BY <1>0, <2>1 DEF StoreBounded
    <3>3. Cardinality(DOMAIN e) < Bound
      BY <3>1, <3>2, EvictedHasRoom
    <3>4. DOMAIN e \subseteq Tokens
      BY <3>1, <3>2, EvictedFacts
    <3>5. IsFiniteSet(DOMAIN e) /\ Cardinality(DOMAIN e) \in Nat
      BY <3>4, PartsAreFinite
    <3>6. DOMAIN store' = DOMAIN e \cup {token}
      BY <3>1 DEF Insert
    <3>7. Cardinality(DOMAIN store') \in {Cardinality(DOMAIN e), Cardinality(DOMAIN e) + 1}
      BY <3>5, <3>6, OneMore
    <3>8. Cardinality(DOMAIN store') <= Bound
      BY <1>0, <3>3, <3>5, <3>7
    <3> QED
      BY <3>8 DEF StoreBounded
  <2>4. ASSUME NEW client, NEW token, Uses(client, token)
        PROVE  DOMAIN store' = DOMAIN Live
    BY <2>4 DEF Uses
  <2>5. CASE Leaves
    BY <2>2, <2>5 DEF Leaves
  <2>6. CASE UNCHANGED store
    BY <2>2, <2>6
  <2> QED
    BY <2>2, <2>3, <2>4, <2>5, <2>6, StoreMoves DEF vars
<1> QED
  BY <1>1, <1>2, StoreInvHolds, PTL DEF Spec

\* A token leaves the store because it has expired or because it was used the
\* longest ago of those that were there (evictOldestIfNeeded).  It rests on the
\* bound: when a token is evicted none has expired, or a new token could take
\* the name of one that had.
THEOREM OnlyOldestLeaves == Spec => OldestLeaves
<1> USE GateAssumption DEF GateAssumption
<1> DEFINE Right ==
        \A t \in DOMAIN store \ DOMAIN store':
            Expired(t) \/ \A u \in DOMAIN store \cap DOMAIN store':
                              store[t].seen <= store[u].seen
<1>1. StoreInv /\ StoreBounded /\ [Next]_vars => [Right]_vars
  <2> SUFFICES ASSUME StoreInv, StoreBounded, Next,
                      NEW t \in DOMAIN store, t \notin DOMAIN store', ~Expired(t),
                      NEW u \in DOMAIN store, u \in DOMAIN store'
               PROVE  store[t].seen <= store[u].seen
    OBVIOUS
  <2>1. t \in DOMAIN Live
    BY LiveFacts
  <2>2. ASSUME NEW client, NEW token, Uses(client, token)
        PROVE  DOMAIN store' = DOMAIN Live
    BY <2>2 DEF Uses
  <2>3. PICK client \in Clients: Creates(client)
    BY <2>1, <2>2, StoreMoves DEF Leaves
  <2>4. PICK e \in Evicted(Live), token \in Tokens: store' = Insert(e, token, client)
    BY <2>3 DEF Creates, CreateBypass
  <2>5. DOMAIN store' = DOMAIN e \cup {token}
    BY <2>4 DEF Insert
  <2>6. t \notin DOMAIN e
    BY <2>5
  <2>7. /\ DOMAIN store \subseteq Tokens /\ DOMAIN Live \subseteq DOMAIN store
        /\ IsFiniteSet(DOMAIN store) /\ Cardinality(DOMAIN store) \in Nat
        /\ IsFiniteSet(DOMAIN Live) /\ Cardinality(DOMAIN Live) \in Nat
    <3>1. DOMAIN store \subseteq Tokens /\ DOMAIN Live \subseteq DOMAIN store
      BY LiveFacts DEF StoreInv
    <3>2. DOMAIN Live \subseteq Tokens
      BY <3>1
    <3> QED
      BY <3>1, <3>2, PartsAreFinite
  <2>8. CASE MaxEntries = 0
    <3>1. Cardinality(DOMAIN store) <= 1
      BY <2>8 DEF StoreBounded
    <3>2. Cardinality(DOMAIN store) # 0
      BY <2>7, FS_EmptySet
    <3>3. Cardinality(DOMAIN store) = 1
      BY <2>7, <3>1, <3>2
    <3>4. PICK x: DOMAIN store = {x}
      BY <2>7, <3>3, FS_Singleton
    <3> QED
      BY <3>4
  <2>9. CASE MaxEntries # 0
    <3>1. Cardinality(DOMAIN Live) >= MaxEntries
      BY <2>1, <2>4, <2>6, <2>7 DEF Evicted
    <3>2. Cardinality(DOMAIN store) <= MaxEntries
      BY <2>9 DEF StoreBounded
    <3>3. Cardinality(DOMAIN Live) <= Cardinality(DOMAIN store)
      BY <2>7, FS_Subset
    <3>4. Cardinality(DOMAIN store) = Cardinality(DOMAIN Live)
      BY <2>7, <3>1, <3>2, <3>3
    <3>5. DOMAIN store = DOMAIN Live
      BY <2>7, <3>4, FS_Subset
    <3>6. PICK x \in Oldest(Live): e = Without(Live, x)
      BY <2>4, <2>7, <2>9, <3>1 DEF Evicted
    <3>7. t = x
      BY <2>1, <2>6, <3>6 DEF Without
    <3>8. Live[t].seen <= Live[u].seen
      BY <3>5, <3>6, <3>7 DEF Oldest
    <3> QED
      BY <2>1, <3>5, <3>8, LiveFacts
  <2> QED
    BY <2>8, <2>9
<1> QED
  BY <1>1, StoreInvHolds, StoreStaysBounded, PTL DEF Spec, OldestLeaves

-----------------------------------------------------------------------------
(* The history *)

\* l is all the requests of a client and s what is kept of them at time n.
Kept(l, s, n) ==
    LET d == Len(l) - Len(s) IN
    /\ l \in Seq(Sample) /\ s \in Seq(Sample)
    /\ d \in Nat /\ Len(s) <= MaxSamples
    /\ \A i \in 1..Len(s): s[i] = l[i + d]
    /\ Len(s) < MaxSamples => \A i \in 1..d: n - l[i].time > Retention
    /\ \A i, j \in 1..Len(l): i <= j => l[i].time <= l[j].time
    /\ \A i \in 1..Len(l): l[i].time <= n

HistoryInv ==
    /\ now \in Times
    /\ samples \in [Clients -> Seq(Sample)]
    /\ log \in [Clients -> Seq(Sample)]
    /\ \A c \in Clients: Kept(log[c], samples[c], now)

\* The smallest number of a set.
LEMMA MinIsLeast ==
    ASSUME NEW S, S \subseteq Nat, S # {}
    PROVE  Min(S) \in S /\ \A x \in S: Min(S) <= x
<1>1. \E m \in S: \A x \in S: ~(<<x, m>> \in OpToRel(<, Nat))
  BY WFMin, NatLessThanWellFounded
<1>2. \E m \in S: \A x \in S: ~(x < m)
  BY <1>1, Zenon DEF OpToRel
<1>3. \E m \in S: \A x \in S: m <= x
  BY <1>2
<1> QED
  BY <1>3 DEF Min

\* trimRequestHistory keeps an end of the history, no longer than it may be, and
\* if it is shorter all that was dropped is old.
LEMMA TrimmedFacts ==
    ASSUME NEW s \in Seq(Sample), Len(s) > 0, s[Len(s)].time = now, now \in Times
    PROVE  \E m \in 1..Len(s):
             /\ Trimmed(s) = SubSeq(s, m, Len(s))
             /\ Len(s) - m + 1 <= MaxSamples
             /\ Len(s) - m + 1 < MaxSamples =>
                    \A i \in 1..m - 1: now - s[i].time > Retention
<1> USE GateAssumption DEF GateAssumption
<1> DEFINE L == Len(s)
           fresh == {i \in DOMAIN s: now - s[i].time <= Retention}
           k == Min(fresh)
           kept == SubSeq(s, k, L)
           n == Len(kept) - MaxSamples + 1
           Good(m) ==
               /\ Trimmed(s) = SubSeq(s, m, Len(s))
               /\ Len(s) - m + 1 <= MaxSamples
               /\ Len(s) - m + 1 < MaxSamples =>
                      \A i \in 1..m - 1: now - s[i].time > Retention
<1>1. /\ L \in Nat \ {0} /\ DOMAIN s = 1..L /\ now \in Nat
      /\ \A i \in 1..L: s[i].time \in Nat
  <2>1. L \in Nat \ {0} /\ DOMAIN s = 1..L /\ \A i \in 1..L: s[i] \in Sample
    OBVIOUS
  <2>2. now \in Nat /\ \A x \in Sample: x.time \in Nat
    BY DEF Sample, Times
  <2> QED
    BY <2>1, <2>2
<1>2. fresh \subseteq Nat /\ L \in fresh
  BY <1>1
<1>3. k \in 1..L /\ \A i \in 1..k - 1: now - s[i].time > Retention
  <2>1. k \in fresh /\ \A x \in fresh: k <= x
    <3> HIDE DEF fresh
    <3> QED
      BY <1>2, MinIsLeast
  <2>2. \A i \in 1..k - 1: i \in DOMAIN s /\ i \notin fresh
    <3>1. k \in 1..L
      <4> HIDE DEF k, L
      <4> QED
        BY <1>1, <2>1
    <3>2. k \in Nat /\ fresh \subseteq Nat
      <4> HIDE DEF k, fresh
      <4> QED
        BY <1>1, <1>2, <2>1
    <3> HIDE DEF k, L, fresh
    <3>3. ASSUME NEW i \in 1..k - 1
          PROVE  i \in 1..L /\ ~(k <= i)
      BY <1>1, <3>1, <3>2
    <3>4. \A i \in 1..k - 1: i \in 1..L /\ ~(k <= i)
      BY <3>3
    <3> QED
      BY <1>1, <2>1, <3>4, Zenon
  <2> HIDE DEF k
  <2> QED
    BY <1>1, <2>1, <2>2
<1> HIDE DEF k
<1>4. kept \in Seq(Sample) /\ Len(kept) = L - k + 1
  BY <1>1, <1>3, SubSeqProperties
<1>5. Trimmed(s) = IF Len(kept) > MaxSamples THEN SubSeq(kept, n, Len(kept)) ELSE kept
  BY DEF Trimmed, k
<1>6. CASE Len(kept) <= MaxSamples
  <2>1. Trimmed(s) = kept
    BY <1>1, <1>3, <1>4, <1>5, <1>6
  <2>2. Good(k)
    BY <1>1, <1>3, <1>4, <1>6, <2>1
  <2> QED
    BY <1>3, <2>2
<1>7. CASE Len(kept) > MaxSamples
  <2>1. Trimmed(s) = SubSeq(kept, n, L - k + 1)
    BY <1>4, <1>5, <1>7
  <2>2. SubSeq(kept, n, L - k + 1) = SubSeq(s, k + n - 1, k + (L - k + 1) - 1)
    <3>1. n \in 1..L - k + 1 /\ L - k + 1 \in 1..L - k + 1 /\ k \in 1..L /\ L \in 1..L
      BY <1>1, <1>3, <1>4, <1>7
    <3> HIDE DEF n, L
    <3> QED
      BY <3>1, SubSeqOfSubSeq DEF L
  <2>3. k + (L - k + 1) - 1 = L /\ k + n - 1 \in 1..L /\ L - (k + n - 1) + 1 = MaxSamples
    BY <1>1, <1>3, <1>4, <1>7
  <2>4. Trimmed(s) = SubSeq(s, k + n - 1, L)
    <3> HIDE DEF kept, n, L
    <3> QED
      BY <2>1, <2>2, <2>3
  <2>5. ASSUME NEW m, m = k + n - 1 PROVE Good(m)
    <3>1. Trimmed(s) = SubSeq(s, m, L) /\ L - m + 1 = MaxSamples
      BY <2>3, <2>4, <2>5
    <3> QED
      BY <3>1
  <2> QED
    BY <2>3, <2>5
<1> QED
  BY <1>1, <1>3, <1>4, <1>6, <1>7

LEMMA KeptLater ==
    ASSUME NEW l, NEW s, NEW n \in Nat, Kept(l, s, n)
    PROVE  Kept(l, s, n + 1)
<1>1. /\ l \in Seq(Sample) /\ s \in Seq(Sample) /\ Len(l) - Len(s) \in Nat
      /\ \A i \in 1..Len(l): l[i].time \in Nat
  <2>1. \A x \in Sample: x.time \in Nat
    BY GateAssumption DEF Sample, Times, GateAssumption
  <2> QED
    BY <2>1 DEF Kept
<1>2. \A i \in 1..Len(l) - Len(s): i \in 1..Len(l)
  BY <1>1
<1>3. \A t, r \in Nat: (n - t > r => (n + 1) - t > r) /\ (t <= n => t <= n + 1)
  OBVIOUS
<1>4. Len(s) < MaxSamples =>
          \A i \in 1..Len(l) - Len(s): (n + 1) - l[i].time > Retention
  <2>1. Retention \in Nat
    BY GateAssumption DEF GateAssumption
  <2> QED
    BY <1>1, <1>2, <1>3, <2>1 DEF Kept
<1>5. \A i \in 1..Len(l): l[i].time <= n + 1
  BY <1>1, <1>3 DEF Kept
<1> QED
  BY <1>4, <1>5 DEF Kept

LEMMA KeptMore ==
    ASSUME NEW l, NEW s, Kept(l, s, now), now \in Times,
           NEW x \in Sample, x.time = now
    PROVE  Kept(Append(l, x), Trimmed(Append(s, x)), now)
<1> DEFINE l1 == Append(l, x)
           s1 == Append(s, x)
           d == Len(l) - Len(s)
<1>1. /\ l \in Seq(Sample) /\ s \in Seq(Sample) /\ d \in Nat
      /\ Len(l) \in Nat /\ Len(s) \in Nat
  BY DEF Kept
<1>2. /\ l1 \in Seq(Sample) /\ Len(l1) = Len(l) + 1 /\ l1[Len(l1)] = x
      /\ \A i \in 1..Len(l): l1[i] = l[i]
  BY <1>1
<1>3. /\ s1 \in Seq(Sample) /\ Len(s1) = Len(s) + 1 /\ s1[Len(s1)] = x
      /\ \A i \in 1..Len(s): s1[i] = s[i]
  BY <1>1
<1> HIDE DEF l1, s1
<1>4. \A i \in 1..Len(s1): s1[i] = l1[i + d]
  <2> SUFFICES ASSUME NEW i \in 1..Len(s1) PROVE s1[i] = l1[i + d]
    OBVIOUS
  <2>1. CASE i = Len(s1)
    BY <1>1, <1>2, <1>3, <2>1
  <2>2. CASE i # Len(s1)
    <3>1. i \in 1..Len(s) /\ i + d \in 1..Len(l)
      BY <1>1, <1>3, <2>2
    <3> QED
      BY <1>2, <1>3, <3>1 DEF Kept
  <2> QED
    BY <2>1, <2>2
<1>5. now \in Nat /\ \A y \in Sample: y.time \in Nat
  BY GateAssumption DEF Sample, Times, GateAssumption
<1>6. /\ \A i \in 1..Len(l1): l1[i].time \in Nat /\ l1[i].time <= now
      /\ \A i, j \in 1..Len(l1): i <= j => l1[i].time <= l1[j].time
  <2>1. \A i \in 1..Len(l): l[i].time \in Nat /\ l[i].time <= now
    BY <1>1, <1>5 DEF Kept
  <2>2. \A i \in 1..Len(l1): i \in 1..Len(l) \/ i = Len(l1)
    BY <1>1, <1>2
  <2>3. \A i \in 1..Len(l1): l1[i].time \in Nat /\ l1[i].time <= now
    BY <1>2, <1>5, <2>1, <2>2
  <2>4. ASSUME NEW i \in 1..Len(l1), NEW j \in 1..Len(l1), i <= j
        PROVE  l1[i].time <= l1[j].time
    <3>1. CASE j = Len(l1)
      BY <1>2, <2>3, <3>1
    <3>2. CASE j # Len(l1)
      <4>1. i \in 1..Len(l) /\ j \in 1..Len(l)
        BY <1>1, <1>2, <2>4, <3>2
      <4> QED
        BY <1>2, <2>4, <4>1 DEF Kept
    <3> QED
      BY <3>1, <3>2
  <2> QED
    BY <2>3, <2>4
<1>7. PICK m \in 1..Len(s1):
          /\ Trimmed(s1) = SubSeq(s1, m, Len(s1))
          /\ Len(s1) - m + 1 <= MaxSamples
          /\ Len(s1) - m + 1 < MaxSamples =>
                 \A i \in 1..m - 1: now - s1[i].time > Retention
  <2>1. Len(s1) > 0 /\ s1[Len(s1)].time = now
    BY <1>1, <1>3
  <2> QED
    BY <1>3, <2>1, TrimmedFacts
<1> DEFINE h == Trimmed(s1)
<1>8. /\ h \in Seq(Sample) /\ Len(h) = Len(s1) - m + 1
      /\ \A i \in 1..Len(h): h[i] = s1[m + i - 1]
  BY <1>1, <1>3, <1>7, SubSeqProperties
<1> HIDE DEF h
<1>9. Len(l1) - Len(h) = d + m - 1 /\ d + m - 1 \in Nat /\ Len(h) <= MaxSamples
  BY <1>1, <1>2, <1>3, <1>7, <1>8
<1>10. \A i \in 1..Len(h): h[i] = l1[i + (d + m - 1)]
  <2> SUFFICES ASSUME NEW i \in 1..Len(h) PROVE h[i] = l1[i + (d + m - 1)]
    OBVIOUS
  <2>1. m + i - 1 \in 1..Len(s1) /\ (m + i - 1) + d = i + (d + m - 1)
    BY <1>1, <1>3, <1>7, <1>8
  <2> QED
    BY <1>4, <1>8, <2>1
<1>11. ASSUME Len(h) < MaxSamples, NEW i \in 1..d + m - 1
       PROVE  now - l1[i].time > Retention
  <2>1. i \in 1..Len(l1) /\ l1[i].time \in Nat
    BY <1>1, <1>2, <1>3, <1>6, <1>7
  <2>2. CASE i > d
    <3>1. i - d \in 1..m - 1 /\ i - d \in 1..Len(s1) /\ (i - d) + d = i
      BY <1>1, <1>3, <1>7, <2>2
    <3>2. now - s1[i - d].time > Retention
      BY <1>7, <1>8, <1>11, <3>1
    <3> QED
      BY <1>4, <3>1, <3>2
  <2>3. CASE i <= d /\ Len(s) < MaxSamples
    <3>1. i \in 1..Len(l) - Len(s) /\ i \in 1..Len(l)
      BY <1>1, <2>3
    <3> QED
      BY <1>2, <2>3, <3>1 DEF Kept
  <2>4. CASE i <= d /\ Len(s) >= MaxSamples
    <3>1. m > 1 /\ 1 \in 1..Len(s1) /\ 1 + d \in 1..Len(l1) /\ i <= 1 + d
      BY <1>1, <1>2, <1>3, <1>8, <1>11, <2>4, GateAssumption DEF GateAssumption
    <3>2. now - s1[1].time > Retention
      BY <1>7, <1>8, <1>11, <3>1
    <3>3. s1[1] = l1[1 + d] /\ l1[i].time <= l1[1 + d].time
      BY <1>4, <1>6, <2>1, <3>1
    <3>4. l1[1 + d].time \in Nat
      BY <1>6, <3>1
    <3>5. now - l1[1 + d].time > Retention
      BY <3>2, <3>3
    <3>6. \A p, q, r \in Nat: q - p > r => \A o \in Nat: o <= p => q - o > r
      OBVIOUS
    <3> QED
      BY <1>5, <2>1, <3>3, <3>4, <3>5, <3>6, GateAssumption DEF GateAssumption
  <2> QED
    BY <1>1, <2>2, <2>3, <2>4, GateAssumption DEF Kept, GateAssumption
<1>12. Kept(l1, h, now)
  BY <1>2, <1>6, <1>8, <1>9, <1>10, <1>11 DEF Kept
<1> QED
  BY <1>12 DEF l1, s1, h

LEMMA HistoryInvHolds == Spec => []HistoryInv
<1> USE GateAssumption DEF GateAssumption
<1>1. Init => HistoryInv
  <2> SUFFICES ASSUME Init PROVE HistoryInv
    OBVIOUS
  <2>1. now = 0 /\ now \in Times
    BY DEF Init, Times
  <2>2. /\ samples = [c \in Clients |-> <<>>]
        /\ log = [c \in Clients |-> <<>>]
    BY DEF Init
  <2>3. Kept(<<>>, <<>>, now)
    BY <2>1 DEF Kept
  <2> QED
    BY <2>1, <2>2, <2>3 DEF HistoryInv
<1>2. HistoryInv /\ [Next]_vars => HistoryInv'
  <2> SUFFICES ASSUME HistoryInv, [Next]_vars PROVE HistoryInv'
    OBVIOUS
  <2>1. CASE UNCHANGED <<now, samples, log>>
    BY <2>1 DEF HistoryInv
  <2>2. CASE Tick
    <3>1. now' = now + 1 /\ now < MaxTime /\ UNCHANGED <<samples, log>>
      BY <2>2 DEF Tick
    <3>2. now \in Nat /\ now' \in Times
      BY <3>1 DEF HistoryInv, Times
    <3>3. \A c \in Clients: Kept(log[c], samples[c], now + 1)
      BY <3>2, KeptLater DEF HistoryInv
    <3> QED
      BY <3>1, <3>2, <3>3 DEF HistoryInv
  <2>3. ASSUME NEW client \in Clients, NEW kind \in Kinds, NEW got, UNCHANGED now,
               Track(client, kind, got)
        PROVE  HistoryInv'
    <3> DEFINE x == [time |-> now, kind |-> kind]
               l == Append(log[client], x)
               s == Trimmed(Append(samples[client], x))
    <3>1. /\ samples' = [samples EXCEPT ![client] = s]
          /\ log' = [log EXCEPT ![client] = l]
      BY <2>3 DEF Track
    <3>2. Kept(l, s, now)
      <4>1. x \in Sample /\ x.time = now /\ now \in Times
        BY DEF Sample, HistoryInv
      <4>2. Kept(log[client], samples[client], now)
        BY DEF HistoryInv
      <4> HIDE DEF x
      <4> QED
        BY <4>1, <4>2, KeptMore
    <3> HIDE DEF l, s
    <3>3. l \in Seq(Sample) /\ s \in Seq(Sample)
      BY <3>2 DEF Kept
    <3>4. ASSUME NEW c \in Clients PROVE Kept(log'[c], samples'[c], now)
      BY <3>1, <3>2 DEF HistoryInv
    <3> QED
      BY <2>3, <3>1, <3>3, <3>4 DEF HistoryInv
  <2>4. ASSUME NEW client \in Clients, NEW token, Bypass(client, token)
        PROVE  UNCHANGED <<now, samples, log>>
    BY <2>4 DEF Bypass
  <2>5. ASSUME NEW client \in Clients, NEW token, NEW kind \in Kinds,
               Judge(client, kind, token)
        PROVE  HistoryInv'
    BY <2>3, <2>5 DEF Judge
  <2>6. ASSUME NEW client \in Clients, NEW token, Solve(client, token)
        PROVE  HistoryInv'
    <3>1. "document" \in Kinds
      BY DEF Kinds
    <3> QED
      BY <2>3, <2>6, <3>1 DEF Solve
  <2> QED
    BY <2>1, <2>2, <2>4, <2>5, <2>6 DEF Next, vars
<1> QED
  BY <1>1, <1>2, PTL DEF Spec

\* The history of a client is the end of what it has sent, and what was dropped
\* is old, or made room for MAX_SAMPLES newer ones (trimRequestHistory).
THEOREM HistoryStaysRecent == Spec => []HistoryIsRecent
<1>1. HistoryInv => HistoryIsRecent
  <2> SUFFICES ASSUME HistoryInv, NEW c \in Clients
               PROVE  LET dropped == Len(log[c]) - Len(samples[c]) IN
                      /\ dropped \in Nat
                      /\ samples[c] = SubSeq(log[c], dropped + 1, Len(log[c]))
                      /\ Len(samples[c]) < MaxSamples =>
                             \A i \in 1..dropped: now - log[c][i].time > Retention
    BY DEF HistoryIsRecent
  <2> DEFINE l == log[c]
             s == samples[c]
             d == Len(l) - Len(s)
  <2>1. Kept(l, s, now)
    BY DEF HistoryInv
  <2> HIDE DEF l, s
  <2>2. /\ l \in Seq(Sample) /\ s \in Seq(Sample) /\ d \in Nat
        /\ \A i \in 1..Len(s): s[i] = l[i + d]
    BY <2>1 DEF Kept
  <2>3. /\ SubSeq(l, d + 1, Len(l)) \in Seq(Sample)
        /\ Len(SubSeq(l, d + 1, Len(l))) = Len(s)
        /\ \A i \in 1..Len(s): SubSeq(l, d + 1, Len(l))[i] = l[i + d]
    <3>1. /\ d + 1 \in Int /\ Len(l) \in Int /\ Len(s) \in Nat
          /\ \A i \in d + 1..Len(l): l[i] \in Sample
      BY <2>2
    <3>2. /\ SubSeq(l, d + 1, Len(l)) \in Seq(Sample)
          /\ Len(SubSeq(l, d + 1, Len(l))) =
                 IF d + 1 <= Len(l) THEN Len(l) - (d + 1) + 1 ELSE 0
          /\ \A i \in 1..Len(l) - (d + 1) + 1:
                 SubSeq(l, d + 1, Len(l))[i] = l[(d + 1) + i - 1]
      BY <3>1, SubSeqProperties
    <3> QED
      BY <2>2, <3>1, <3>2
  <2>4. s = SubSeq(l, d + 1, Len(l))
    BY <2>2, <2>3
  <2>5. Len(s) < MaxSamples => \A i \in 1..d: now - l[i].time > Retention
    BY <2>1 DEF Kept
  <2> QED
    BY <2>2, <2>4, <2>5 DEF l, s
<1> QED
  BY <1>1, HistoryInvHolds, PTL

\* Types, and the bound of the history (src/botDetection/botDetection.cpp).
THEOREM TypeStaysCorrect == Spec => []TypeOK
<1> DEFINE LastOK == last \in [client: Clients, rate: Nat,
                               got: {"page", "bypass", "captcha", "token"}]
<1>1. Init => LastOK
  BY DEF Init
<1>2. HistoryInv /\ LastOK /\ [Next]_vars => LastOK'
  <2> SUFFICES ASSUME HistoryInv, LastOK, [Next]_vars PROVE LastOK'
    OBVIOUS
  <2>1. ASSUME NEW s \in Seq(Sample) PROVE Rate(s) \in Nat
    <3>1. IsFiniteSet(DOMAIN s)
      BY FS_Interval
    <3>2. {i \in DOMAIN s: s[i].kind # "asset" /\ now - s[i].time <= Minute}
              \in SUBSET DOMAIN s
      OBVIOUS
    <3> QED
      BY <3>1, <3>2, FS_Subset, FS_CardinalityType DEF Rate
  <2>2. ASSUME NEW client \in Clients, NEW kind \in Kinds,
               NEW got \in {"captcha", "token"}, Track(client, kind, got)
        PROVE  LastOK'
    <3> DEFINE x == [time |-> now, kind |-> kind]
               h == Trimmed(Append(samples[client], x))
    <3>1. h \in Seq(Sample)
      <4>1. x \in Sample /\ x.time = now /\ now \in Times
        BY DEF Sample, HistoryInv
      <4>2. Kept(log[client], samples[client], now)
        BY DEF HistoryInv
      <4> HIDE DEF x
      <4> QED
        BY <4>1, <4>2, KeptMore DEF Kept
    <3>2. Rate(h) \in Nat
      <4> HIDE DEF h
      <4> QED
        BY <2>1, <3>1
    <3>3. PICK suspicious \in BOOLEAN:
              last' = [client |-> client, rate |-> Rate(h),
                       got |-> IF Rate(h) > MaxRate \/ suspicious THEN got
                               ELSE "page"]
      BY <2>2 DEF Track
    <3> HIDE DEF h
    <3> QED
      BY <3>2, <3>3
  <2>3. ASSUME NEW client \in Clients, NEW token, NEW kind \in Kinds,
               Judge(client, kind, token)
        PROVE  LastOK'
    BY <2>2, <2>3 DEF Judge
  <2>4. ASSUME NEW client \in Clients, NEW token, Solve(client, token)
        PROVE  LastOK'
    <3>1. "document" \in Kinds
      BY DEF Kinds
    <3> QED
      BY <2>2, <2>4, <3>1 DEF Solve
  <2>5. ASSUME NEW client \in Clients, NEW token, Bypass(client, token)
        PROVE  LastOK'
    BY <2>5 DEF Bypass
  <2>6. CASE Tick \/ UNCHANGED vars
    BY <2>6 DEF Tick, vars
  <2> QED
    BY <2>3, <2>4, <2>5, <2>6 DEF Next
<1>3. StoreInv /\ HistoryInv /\ LastOK => TypeOK
  BY DEF StoreInv, HistoryInv, Kept, TypeOK
<1> QED
  BY <1>1, <1>2, <1>3, StoreInvHolds, HistoryInvHolds, PTL DEF Spec

-----------------------------------------------------------------------------
(* The rate rule *)

\* The samples that countRequestsInLastMinute counts.
Counted(s) == {i \in DOMAIN s: s[i].kind # "asset" /\ now - s[i].time <= Minute}

\* All of them in the last minute, and as many as a history may hold.
Saturated(s) ==
    Len(s) = MaxSamples /\ \A i \in DOMAIN s: now - s[i].time <= Minute

\* A request is judged by what its client has sent in the last minute, or by a
\* part of it that fills the history; never by more than it has sent.
RateIsExact ==
    [][log' # log =>
         LET c == last'.client IN
         /\ last'.rate <= Rate(log'[c])
         /\ last'.rate = Rate(log'[c]) \/ Saturated(samples'[c])]_vars

\* The rate rule holds of a client that asks for pages only.
PagesAreLimited ==
    [][LET sent == log'[last'.client] IN
       /\ log' # log
       /\ \A i \in DOMAIN sent: sent[i].kind # "asset"
       /\ Rate(sent) > MaxRate
       => last'.got # "page"]_vars

LEMMA CountedFacts ==
    ASSUME NEW s \in Seq(Sample)
    PROVE  /\ Counted(s) \subseteq 1..Len(s) /\ IsFiniteSet(Counted(s))
           /\ Rate(s) = Cardinality(Counted(s)) /\ Rate(s) \in Nat
<1>1. DOMAIN s = 1..Len(s) /\ Len(s) \in Nat /\ IsFiniteSet(1..Len(s))
  BY FS_Interval
<1>2. Counted(s) \in SUBSET (1..Len(s))
  BY <1>1 DEF Counted
<1>3. IsFiniteSet(Counted(s)) /\ Cardinality(Counted(s)) \in Nat
  BY <1>1, <1>2, FS_Subset, FS_CardinalityType
<1>4. Rate(s) = Cardinality(Counted(s))
  BY DEF Rate, Counted
<1> QED
  BY <1>2, <1>3, <1>4

\* What is kept of a history counts for what was sent, or is full of requests of
\* the last minute.
LEMMA RateOfKept ==
    ASSUME Minute <= Retention, NEW l, NEW s, Kept(l, s, now), now \in Times
    PROVE  /\ Rate(s) <= Rate(l)
           /\ Rate(s) = Rate(l) \/ Saturated(s)
<1> USE GateAssumption DEF GateAssumption
<1> DEFINE d == Len(l) - Len(s)
           f == [i \in Counted(s) |-> i + d]
<1>1. /\ l \in Seq(Sample) /\ s \in Seq(Sample) /\ d \in Nat /\ Len(s) \in Nat
      /\ Len(l) \in Nat /\ Len(l) = Len(s) + d /\ now \in Nat
      /\ DOMAIN s = 1..Len(s) /\ DOMAIN l = 1..Len(l)
      /\ \A i \in 1..Len(l): l[i].time \in Nat
  <2>1. now \in Nat /\ \A x \in Sample: x.time \in Nat
    BY DEF Sample, Times
  <2> QED
    BY <2>1 DEF Kept
<1>2. \A i \in 1..Len(s): i + d \in 1..Len(l) /\ s[i] = l[i + d]
  BY <1>1 DEF Kept
<1> HIDE DEF d
<1>3. /\ IsFiniteSet(Counted(s)) /\ Counted(s) \subseteq 1..Len(s)
      /\ Rate(s) = Cardinality(Counted(s)) /\ Rate(s) \in Nat
      /\ IsFiniteSet(Counted(l)) /\ Counted(l) \subseteq 1..Len(l)
      /\ Rate(l) = Cardinality(Counted(l)) /\ Rate(l) \in Nat
  BY <1>1, CountedFacts
<1>4. \A i \in Counted(s): i + d \in Counted(l)
  BY <1>1, <1>2 DEF Counted
<1>5. f \in Injection(Counted(s), Counted(l))
  <2>1. f \in [Counted(s) -> Counted(l)]
    BY <1>4
  <2>2. \A i, j \in Counted(s): i + d = j + d => i = j
    BY <1>1, <1>3
  <2>3. \A i, j \in Counted(s): f[i] = f[j] => i = j
    BY <2>2
  <2> HIDE DEF f
  <2> QED
    BY <2>1, <2>3 DEF Injection, IsInjective
<1>6. /\ Cardinality(Counted(s)) <= Cardinality(Counted(l))
      /\ Cardinality(Counted(s)) = Cardinality(Counted(l))
             <=> f \in Surjection(Counted(s), Counted(l))
  <2> HIDE DEF f
  <2> QED
    BY <1>3, <1>5, FS_Injection
\* Nothing of the last minute was dropped.
<1>7. CASE \A j \in 1..d: now - l[j].time > Minute
  <2>1. ASSUME NEW j \in Counted(l) PROVE \E i \in Counted(s): f[i] = j
    <3>1. j \in 1..Len(l) /\ now - l[j].time <= Minute
      BY <1>1, <2>1 DEF Counted
    <3>2. l[j].time \in Nat
      BY <1>1, <3>1
    <3>3. j \notin 1..d
      BY <1>1, <1>7, <3>1, <3>2
    <3>4. j - d \in 1..Len(s) /\ (j - d) + d = j
      BY <1>1, <3>1, <3>3
    <3>5. s[j - d] = l[j]
      BY <1>2, <3>4
    <3>6. j - d \in Counted(s)
      BY <1>1, <2>1, <3>4, <3>5 DEF Counted
    <3> QED
      BY <3>4, <3>6
  <2>2. f \in [Counted(s) -> Counted(l)]
    BY <1>4
  <2>3. f \in Surjection(Counted(s), Counted(l))
    <3> HIDE DEF f
    <3> QED
      BY <2>1, <2>2 DEF Surjection
  <2> HIDE DEF f
  <2> QED
    BY <1>3, <1>6, <2>3
\* Something of it was: what is kept is later, and fills the history.
<1>8. CASE \E j \in 1..d: ~(now - l[j].time > Minute)
  <2>1. PICK j \in 1..d: ~(now - l[j].time > Minute)
    BY <1>8
  <2>2. j \in 1..Len(l) /\ l[j].time \in Nat
    BY <1>1, <2>1
  <2>3. now - l[j].time <= Minute /\ ~(now - l[j].time > Retention)
    BY <1>1, <2>1, <2>2
  <2>4. Len(s) = MaxSamples
    <3>1. Len(s) <= MaxSamples
      BY DEF Kept
    <3>2. ~(Len(s) < MaxSamples)
      BY <2>1, <2>3, Zenon DEF Kept, d
    <3> QED
      BY <1>1, <3>1, <3>2
  <2>5. ASSUME NEW i \in 1..Len(s) PROVE now - s[i].time <= Minute
    <3>1. i + d \in 1..Len(l) /\ j <= i + d /\ s[i] = l[i + d]
      BY <1>1, <1>2, <2>1, <2>5
    <3>2. l[j].time <= l[i + d].time
      BY <2>2, <3>1 DEF Kept
    <3>3. l[i + d].time \in Nat
      BY <1>1, <3>1
    <3>4. \A p, q, r, t \in Nat: t - p <= r /\ p <= q => t - q <= r
      OBVIOUS
    <3>5. now - l[i + d].time <= Minute
      BY <1>1, <2>2, <2>3, <3>2, <3>3, <3>4
    <3> QED
      BY <3>1, <3>5
  <2>6. Saturated(s)
    BY <1>1, <2>4, <2>5 DEF Saturated
  <2> QED
    BY <1>3, <1>6, <2>6
<1> QED
  BY <1>7, <1>8

\* What Track leaves to be judged, whatever the judgement.
LEMMA JudgedBy ==
    ASSUME HistoryInv, NEW client \in Clients, NEW kind \in Kinds, NEW got,
           Track(client, kind, got)
    PROVE  LET l == log'[client]
               s == samples'[client]
           IN  /\ Kept(l, s, now)
               /\ last'.client = client /\ last'.rate = Rate(s)
               /\ Rate(s) > MaxRate => last'.got = got
<1> DEFINE x == [time |-> now, kind |-> kind]
           l == Append(log[client], x)
           s == Trimmed(Append(samples[client], x))
<1>1. /\ samples' = [samples EXCEPT ![client] = s]
      /\ log' = [log EXCEPT ![client] = l]
  BY DEF Track
<1>2. PICK suspicious \in BOOLEAN:
          last' = [client |-> client, rate |-> Rate(s),
                   got |-> IF Rate(s) > MaxRate \/ suspicious THEN got ELSE "page"]
  BY DEF Track
<1>3. Kept(l, s, now)
  <2>1. x \in Sample /\ x.time = now /\ now \in Times
    BY DEF Sample, HistoryInv
  <2>2. Kept(log[client], samples[client], now)
    BY DEF HistoryInv
  <2> HIDE DEF x
  <2> QED
    BY <2>1, <2>2, KeptMore
<1> HIDE DEF l, s
<1>4. log'[client] = l /\ samples'[client] = s
  BY <1>1 DEF HistoryInv
<1> QED
  BY <1>2, <1>3, <1>4

\* A step that tracks a request.
LEMMA TrackedBy ==
    ASSUME HistoryInv, [Next]_vars, log' # log
    PROVE  /\ now' = now
           /\ \E client \in Clients, kind \in Kinds, got \in {"captcha", "token"}:
                  Track(client, kind, got)
<1>1. ASSUME NEW client \in Clients, NEW token, NEW kind \in Kinds,
             Judge(client, kind, token)
      PROVE  now' = now /\ Track(client, kind, "captcha")
  BY <1>1 DEF Judge
<1>2. ASSUME NEW client \in Clients, NEW token, Solve(client, token)
      PROVE  now' = now /\ Track(client, "document", "token") /\ "document" \in Kinds
  BY <1>2 DEF Solve, Kinds
<1>3. ASSUME NEW client \in Clients, NEW token, Bypass(client, token)
      PROVE  FALSE
  BY <1>3 DEF Bypass
<1>4. ~Tick /\ ~UNCHANGED vars
  BY DEF Tick, vars
<1>5. PICK client \in Clients, token \in Tokens \cup {NoToken}:
          (\E kind \in Kinds: Judge(client, kind, token)) \/ Solve(client, token)
  BY <1>3, <1>4, Zenon DEF Next
<1> QED
  BY <1>1, <1>2, <1>5

\* The rate is exact, or the whole history is of the last minute: the rule never
\* hits a client within the limit (trimRequestHistory, countRequestsInLastMinute).
THEOREM RateStaysExact == ASSUME Minute <= Retention PROVE Spec => RateIsExact
<1> DEFINE Exact ==
             log' # log =>
               LET c == last'.client IN
               /\ last'.rate <= Rate(log'[c])
               /\ last'.rate = Rate(log'[c]) \/ Saturated(samples'[c])
<1>1. HistoryInv /\ [Next]_vars => Exact
  <2> SUFFICES ASSUME HistoryInv, [Next]_vars, log' # log
               PROVE  LET c == last'.client IN
                      /\ last'.rate <= Rate(log'[c])
                      /\ last'.rate = Rate(log'[c]) \/ Saturated(samples'[c])
    OBVIOUS
  <2>1. PICK client \in Clients, kind \in Kinds, got \in {"captcha", "token"}:
            Track(client, kind, got)
    BY TrackedBy
  <2> DEFINE l == log'[client]
             s == samples'[client]
  <2>2. Kept(l, s, now) /\ last'.client = client /\ last'.rate = Rate(s)
    BY <2>1, JudgedBy
  <2> HIDE DEF l, s
  <2>3. Rate(s) <= Rate(l) /\ (Rate(s) = Rate(l) \/ Saturated(s))
    BY <2>2, RateOfKept DEF HistoryInv
  <2> QED
    BY <2>2, <2>3 DEF l, s
<1> QED
  BY <1>1, HistoryInvHolds, PTL DEF Spec, RateIsExact

\* A client that asks for more pages in a minute than it may, and for nothing else,
\* gets a captcha: a history that is full of them is above the limit too. This is
\* the rule of BOT_TESTING.md for the clients it describes.
THEOREM PagesStayLimited ==
    ASSUME Minute <= Retention, MaxRate < MaxSamples
    PROVE  Spec => PagesAreLimited
<1> DEFINE Limited ==
             LET sent == log'[last'.client] IN
             /\ log' # log
             /\ \A i \in DOMAIN sent: sent[i].kind # "asset"
             /\ Rate(sent) > MaxRate
             => last'.got # "page"
<1>1. HistoryInv /\ [Next]_vars => Limited
  <2> SUFFICES ASSUME HistoryInv, [Next]_vars, log' # log,
                      \A i \in DOMAIN log'[last'.client]:
                          log'[last'.client][i].kind # "asset",
                      Rate(log'[last'.client]) > MaxRate
               PROVE  last'.got # "page"
    OBVIOUS
  <2>1. PICK client \in Clients, kind \in Kinds, got \in {"captcha", "token"}:
            Track(client, kind, got)
    BY TrackedBy
  <2> DEFINE l == log'[client]
             s == samples'[client]
  <2>2. /\ Kept(l, s, now) /\ last'.client = client
        /\ Rate(s) > MaxRate => last'.got = got
    BY <2>1, JudgedBy
  <2>3. (\A i \in DOMAIN l: l[i].kind # "asset") /\ Rate(l) > MaxRate
    BY <2>2
  <2> HIDE DEF l, s
  <2>4. Rate(s) = Rate(l) \/ Saturated(s)
    BY <2>2, RateOfKept DEF HistoryInv
  <2>5. CASE Saturated(s)
    <3>1. /\ s \in Seq(Sample) /\ l \in Seq(Sample) /\ Len(s) = MaxSamples
          /\ DOMAIN s = 1..Len(s) /\ DOMAIN l = 1..Len(l)
          /\ \A i \in 1..Len(s): i + (Len(l) - Len(s)) \in 1..Len(l)
          /\ \A i \in 1..Len(s): s[i] = l[i + (Len(l) - Len(s))]
      <4>1. /\ s \in Seq(Sample) /\ l \in Seq(Sample) /\ Len(l) - Len(s) \in Nat
            /\ Len(s) \in Nat /\ Len(l) \in Nat
            /\ \A i \in 1..Len(s): s[i] = l[i + (Len(l) - Len(s))]
        BY <2>2 DEF Kept
      <4>2. \A i \in 1..Len(s): i + (Len(l) - Len(s)) \in 1..Len(l)
        BY <4>1
      <4> QED
        BY <2>5, <4>1, <4>2 DEF Saturated
    <3>2. Counted(s) = 1..Len(s)
      <4>1. \A i \in 1..Len(s): s[i].kind # "asset"
        BY <2>3, <3>1
      <4>2. \A i \in 1..Len(s): now - s[i].time <= Minute
        BY <2>5, <3>1 DEF Saturated
      <4> QED
        BY <3>1, <4>1, <4>2 DEF Counted
    <3>3. Cardinality(1..Len(s)) = MaxSamples
      <4>1. MaxSamples \in Nat /\ MaxSamples > 0
        BY GateAssumption DEF GateAssumption
      <4> QED
        BY <3>1, <4>1, FS_Interval
    <3>4. Rate(s) = MaxSamples
      BY <3>1, <3>2, <3>3, CountedFacts
    <3> QED
      BY <2>2, <3>4, GateAssumption DEF GateAssumption
  <2>6. CASE Rate(s) = Rate(l)
    BY <2>2, <2>3, <2>6
  <2> QED
    BY <2>4, <2>5, <2>6
<1> QED
  BY <1>1, HistoryInvHolds, PTL DEF Spec, PagesAreLimited

=============================================================================
