------------------------------ MODULE BotGate ------------------------------
(***************************************************************************)
(* The gate in front of every location with bot detection: the bounded     *)
(* history of requests per client (src/botDetection/botDetection.cpp), the *)
(* store of captcha tokens (src/captchaBypass/captchaBypass.cpp) and the   *)
(* two places of src/server/server.cpp that use them.                      *)
(*                                                                         *)
(* A token bypasses the history: a request that carries a valid one is not *)
(* counted.  The rules on intervals and on missing assets (floating-point  *)
(* scores) are a choice: any request may be found suspicious.              *)
(***************************************************************************)
EXTENDS Naturals, Sequences, FiniteSets, FiniteSetsExt

CONSTANTS Clients,       \* fingerprints
          Tokens,        \* catsurf_clearance values
          NoToken,       \* no such cookie
          MaxEntries,    \* max_entries
          Ttl,           \* ttl_seconds
          MaxSamples,    \* MAX_SAMPLES_PER_FINGERPRINT
          Retention,     \* RETENTION_MS
          Minute,        \* SIXTY_SECONDS_MS
          MaxRate,       \* max_requests_per_minute
          MaxTime,       \* bound of the runs: the last instant
          MaxRequests    \* bound of the runs: requests counted

ASSUME GateAssumption ==
    /\ NoToken \notin Tokens
    /\ MaxEntries \in Nat /\ Ttl \in Nat
    /\ MaxSamples \in Nat \ {0} /\ Retention \in Nat
    /\ Minute \in Nat /\ MaxRate \in Nat
    /\ MaxTime \in Nat /\ MaxRequests \in Nat
    \* A token not in use is found: there are 2^64 - 1 of them.
    /\ IsFiniteSet(Tokens) /\ Cardinality(Tokens) > MaxEntries

VARIABLES
    now,       \* the clock
    store,     \* token_store: a function from the tokens in it
    samples,   \* bot_request_history
    last,      \* the last answer: client, requests_per_minute, what it got
    log,       \* history: every request tracked, never trimmed
    earned     \* history: when a client last solved a captcha or used a token

vars == <<now, store, samples, last, log, earned>>

Kinds == {"document", "asset"}
Times == 0..MaxTime
Sample == [time: Times, kind: Kinds]
Entry == [client: Clients, seen: Times]
Never == MaxTime + 1

TypeOK ==
    /\ now \in Times
    /\ DOMAIN store \subseteq Tokens
    /\ \A t \in DOMAIN store: store[t] \in Entry
    /\ samples \in [Clients -> Seq(Sample)]
    /\ \A c \in Clients: Len(samples[c]) <= MaxSamples
    /\ last \in [client: Clients, rate: Nat,
                 got: {"page", "bypass", "captcha", "token"}]
    /\ log \in [Clients -> Seq(Sample)]
    /\ earned \in [Clients -> Times \cup {Never}]

-----------------------------------------------------------------------------
(* CaptchaBypass *)

Expired(t) == now - store[t].seen > Ttl

\* cleanupExpired
Live == [t \in {u \in DOMAIN store: ~Expired(u)} |-> store[t]]

\* Mutant: the fingerprint is not compared.
ValidForAnyone(token, client) == token \in DOMAIN Live

\* hasValidBypass
Valid(token, client) == token \in DOMAIN Live /\ Live[token].client = client

Without(s, t) == [u \in DOMAIN s \ {t} |-> s[u]]

Oldest(s) == {t \in DOMAIN s: \A u \in DOMAIN s: s[t].seen <= s[u].seen}

\* Mutant: an off-by-one in the loop of evictOldestIfNeeded.
EvictedLate(s) ==
    IF Cardinality(DOMAIN s) <= MaxEntries THEN {s}
    ELSE {Without(s, t): t \in Oldest(s)}

\* Mutant: whatever entry comes first.
EvictedFirst(s) ==
    IF Cardinality(DOMAIN s) < MaxEntries THEN {s}
    ELSE {Without(s, t): t \in DOMAIN s}

\* evictOldestIfNeeded, which leaves room for one, or nothing when there is no
\* room.  Each insertion follows an eviction: there is one entry to evict.
Evicted(s) ==
    IF Cardinality(DOMAIN s) < MaxEntries THEN {s}
    ELSE IF MaxEntries = 0 THEN {<<>>}
    ELSE {Without(s, t): t \in Oldest(s)}

Insert(s, t, client) ==
    [u \in DOMAIN s \cup {t} |->
        IF u = t THEN [client |-> client, seen |-> now] ELSE s[u]]

\* createBypass.  The cookie of the request, if any, had expired tokens removed.
CreateBypass(s, client) ==
    \E e \in Evicted(s): \E t \in Tokens \ DOMAIN e:
        store' = Insert(e, t, client)

-----------------------------------------------------------------------------
(* analyzeAndTrackRequest *)

\* Mutant: what is kept is the start of the history.
TrimmedEnd(s) ==
    LET fresh == {i \in DOMAIN s: now - s[i].time <= Retention}
        kept  == SubSeq(s, Min(fresh), Len(s))
    IN  IF Len(kept) > MaxSamples THEN SubSeq(kept, 1, MaxSamples) ELSE kept

\* Mutant: trimmed by age only.
TrimmedByAge(s) ==
    LET fresh == {i \in DOMAIN s: now - s[i].time <= Retention}
    IN  SubSeq(s, Min(fresh), Len(s))

\* trimRequestHistory: by age from the front, then by number.  The request
\* just added is fresh.
Trimmed(s) ==
    LET fresh == {i \in DOMAIN s: now - s[i].time <= Retention}
        kept  == SubSeq(s, Min(fresh), Len(s))
    IN  IF Len(kept) > MaxSamples
        THEN SubSeq(kept, Len(kept) - MaxSamples + 1, Len(kept))
        ELSE kept

\* collectPrimaryRequestTimes, countRequestsInLastMinute
Rate(s) == Cardinality({i \in DOMAIN s: /\ s[i].kind # "asset"
                                        /\ now - s[i].time <= Minute})

\* Bound of the runs: how many requests have been tracked.
Tracked == MapThenSumSet(LAMBDA c: Len(log[c]), Clients)

\* The request is added and judged; got is what the client gets if it is
\* found to be a bot.
Track(client, kind, got) ==
    LET sample == [time |-> now, kind |-> kind]
        h == Trimmed(Append(samples[client], sample))
    IN  /\ Tracked < MaxRequests
        /\ samples' = [samples EXCEPT ![client] = h]
        /\ log' = [log EXCEPT ![client] = Append(@, sample)]
        /\ \E suspicious \in BOOLEAN:
             last' = [client |-> client, rate |-> Rate(h),
                      got |-> IF Rate(h) > MaxRate \/ suspicious THEN got
                              ELSE "page"]

-----------------------------------------------------------------------------
(* process_request, handleBlockedBotRequest *)

Init ==
    /\ now = 0
    /\ store = <<>>
    /\ samples = [c \in Clients |-> <<>>]
    /\ log = [c \in Clients |-> <<>>]
    /\ last \in [client: Clients, rate: {0}, got: {"page"}]
    /\ earned = [c \in Clients |-> Never]

\* What hasValidBypass leaves: an absent cookie is not looked up.
Looked(token) == IF token = NoToken THEN store ELSE Live

\* A valid token: used, renewed, and the request is not tracked.
Bypass(client, token) ==
    /\ Valid(token, client)
    /\ store' = [Live EXCEPT ![token].seen = now]
    /\ earned' = [earned EXCEPT ![client] = now]
    /\ last' = [client |-> client, rate |-> 0, got |-> "bypass"]
    /\ UNCHANGED <<now, samples, log>>

\* Any other request: the page, or a captcha if it is found to be a bot.
Judge(client, kind, token) ==
    /\ ~Valid(token, client)
    /\ Track(client, kind, "captcha")
    /\ store' = Looked(token)
    /\ UNCHANGED <<now, earned>>

\* The captcha form, sent back: a bot gets a new token, others their page.
\* createBypass cleans the store before it evicts.
Solve(client, token) ==
    /\ ~Valid(token, client)
    /\ Track(client, "document", "token")
    /\ IF last'.got = "token"
       THEN /\ CreateBypass(Live, client)
            /\ earned' = [earned EXCEPT ![client] = now]
       ELSE store' = Looked(token) /\ UNCHANGED earned
    /\ UNCHANGED now

Tick ==
    /\ now < MaxTime
    /\ now' = now + 1
    /\ UNCHANGED <<store, samples, last, log, earned>>

Next ==
    \/ Tick
    \/ \E client \in Clients, token \in Tokens: Bypass(client, token)
    \/ \E client \in Clients, token \in Tokens \cup {NoToken}:
         \/ \E kind \in Kinds: Judge(client, kind, token)
         \/ Solve(client, token)

Spec == Init /\ [][Next]_vars

-----------------------------------------------------------------------------
(* Properties *)

\* The store never holds more than max_entries tokens (one if that is 0).
StoreBounded == Cardinality(DOMAIN store) <= IF MaxEntries = 0 THEN 1 ELSE MaxEntries

\* A token leaves the store because it has expired or because it was used the
\* longest ago of those that were there (evictOldestIfNeeded).
OldestLeaves ==
    [][\A t \in DOMAIN store \ DOMAIN store':
          Expired(t) \/ \A u \in DOMAIN store \cap DOMAIN store':
                            store[t].seen <= store[u].seen]_vars

\* A client passes uncounted only within the time to live of its own last
\* captcha or its own last use of the token (hasValidBypass, createBypass).
BypassIsEarned ==
    [][\A c \in Clients:
          UNCHANGED now /\ last'.client = c /\ last'.got = "bypass" =>
              earned[c] # Never /\ now - earned[c] <= Ttl]_vars

\* The history of a client is the end of what it has sent, and what was
\* dropped is old, or made room for MAX_SAMPLES newer ones.
HistoryIsRecent ==
    \A c \in Clients:
        LET dropped == Len(log[c]) - Len(samples[c]) IN
        /\ dropped \in Nat
        /\ samples[c] = SubSeq(log[c], dropped + 1, Len(log[c]))
        /\ Len(samples[c]) < MaxSamples =>
               \A i \in 1..dropped: now - log[c][i].time > Retention

-----------------------------------------------------------------------------
(* What a document says and the code does not do *)

\* BOT_TESTING.md: more than 60 requests a minute get a 429.  The history holds
\* 120 requests of any kind: enough assets push the others out of it.
RateLimitHolds ==
    [][log' # log /\ Rate(log'[last'.client]) > MaxRate => last'.got # "page"]_vars

=============================================================================
