------------------------- MODULE GitHubClientProofs -------------------------
(***************************************************************************)
(* The answers of GitHubClient are true for any number of calls, resources, *)
(* retries and changes by others, and any size of the cache: a create is    *)
(* carried out once, the definite answers to a write tell what happened,    *)
(* and what a read returns was current while it ran.                        *)
(*                                                                          *)
(* ClientInvariant is inductive.  Sound(c) concerns one call; a step is one *)
(* of one call, of GitHub for one call, or of somebody else, and for the    *)
(* calls it does not concern CallsLeftAlone says that Sound stays.          *)
(***************************************************************************)
EXTENDS GitHubClient, FiniteSetTheorems, SequenceTheorems, TLAPS

-----------------------------------------------------------------------------
(***************************************************************************)
(* What the operations of the cache do to any sequence of entries that has  *)
(* one entry for each key: they keep it one, bring in no entry but the one  *)
(* that is put, and a put leaves no more entries than the bound allows.     *)
(***************************************************************************)

(***************************************************************************)
(* Removing an element shifts the ones behind it.                           *)
(***************************************************************************)
LEMMA RemoveAtProperties ==
  ASSUME NEW E, NEW s \in Seq(E), NEW i \in 1..Len(s)
  PROVE  /\ RemoveAt(s, i) \in Seq(E)
         /\ Len(RemoveAt(s, i)) = Len(s) - 1
         /\ \A p \in 1..(Len(s) - 1) :
              RemoveAt(s, i)[p] = IF p < i THEN s[p] ELSE s[p + 1]
<1>. DEFINE front == SubSeq(s, 1, i - 1)
            back == SubSeq(s, i + 1, Len(s))
<1>1. Len(s) \in Nat /\ \A p \in 1..Len(s) : s[p] \in E
  BY LenProperties, ElementOfSeq
<1>2. front \in Seq(E) /\ Len(front) = i - 1 /\ \A p \in 1..(i - 1) : front[p] = s[p]
  BY <1>1, SubSeqProperties
<1>3. /\ back \in Seq(E) /\ Len(back) = Len(s) - i
      /\ \A p \in 1..(Len(s) - i) : back[p] = s[p + i]
  BY <1>1, SubSeqProperties
<1>4. RemoveAt(s, i) = front \o back
  BY DEF RemoveAt
<1>. HIDE DEF front, back
<1>. DEFINE r == front \o back
<1>5. /\ r \in Seq(E) /\ Len(r) = Len(front) + Len(back)
      /\ \A p \in 1..(Len(front) + Len(back)) :
           r[p] = IF p <= Len(front) THEN front[p] ELSE back[p - Len(front)]
  BY <1>2, <1>3, ConcatProperties
<1>6. r = RemoveAt(s, i)
  BY <1>4
<1>. HIDE DEF r
<1>7. Len(front) + Len(back) = Len(s) - 1 /\ Len(front) = i - 1
  BY <1>1, <1>2, <1>3
<1>8. ASSUME NEW p \in 1..(Len(s) - 1), p < i PROVE r[p] = s[p]
  <2>1. p \in 1..(i - 1) /\ p <= Len(front) /\ p \in 1..(Len(front) + Len(back))
    BY <1>1, <1>7, <1>8
  <2>. QED  BY <1>2, <1>5, <2>1
<1>9. ASSUME NEW p \in 1..(Len(s) - 1), p >= i PROVE r[p] = s[p + 1]
  <2>1. /\ p - (i - 1) \in 1..(Len(s) - i) /\ p - (i - 1) + i = p + 1
        /\ ~(p <= i - 1)
    BY <1>1, <1>9
  <2>2. r[p] = back[p - (i - 1)]
    BY <1>5, <1>7, <2>1
  <2>3. back[p - (i - 1)] = s[p - (i - 1) + i]
    BY <1>3, <2>1
  <2>. QED  BY <2>1, <2>2, <2>3
<1>. QED  BY <1>1, <1>5, <1>6, <1>7, <1>8, <1>9

(***************************************************************************)
(* Where there is an entry for a key, Position finds it.                    *)
(***************************************************************************)
LEMMA PositionFinds ==
  ASSUME NEW held, NEW k \in CachedKeys(held)
  PROVE  Position(held, k) \in DOMAIN held /\ held[Position(held, k)].key = k
BY DEF Position, CachedKeys

(***************************************************************************)
(* Without() takes out the entry of a key and no other.                     *)
(***************************************************************************)
LEMMA WithoutProperties ==
  ASSUME NEW E, NEW held \in Seq(E), OneEach(held), NEW k
  PROVE  /\ Without(held, k) \in Seq(E)
         /\ OneEach(Without(held, k))
         /\ k \notin CachedKeys(Without(held, k))
         /\ ToSet(Without(held, k)) \subseteq ToSet(held)
         /\ Len(Without(held, k)) =
              IF k \in CachedKeys(held) THEN Len(held) - 1 ELSE Len(held)
<1>. DEFINE i == Position(held, k)
            w == Without(held, k)
<1>1. Len(held) \in Nat /\ DOMAIN held = 1..Len(held)
  BY LenProperties
<1>2. CASE k \notin CachedKeys(held)
  BY <1>2 DEF Without
<1>3. CASE k \in CachedKeys(held)
  <2>1. i \in 1..Len(held) /\ held[i].key = k
    BY <1>1, <1>3, PositionFinds
  <2>2. w = RemoveAt(held, i)
    BY <1>3 DEF Without
  <2>. HIDE DEF i, w
  <2>3. /\ w \in Seq(E) /\ Len(w) = Len(held) - 1
        /\ \A p \in 1..(Len(held) - 1) :
             w[p] = IF p < i THEN held[p] ELSE held[p + 1]
    BY <2>1, <2>2, RemoveAtProperties
  <2>4. DOMAIN w = 1..(Len(held) - 1)
    BY <2>3, LenProperties
  <2>5. ASSUME NEW p \in DOMAIN w
        PROVE  \E q \in DOMAIN held \ {i} :
                 w[p] = held[q] /\ q = (IF p < i THEN p ELSE p + 1)
    BY <1>1, <2>1, <2>3, <2>4
  <2>6. OneEach(w)
    <3>. SUFFICES ASSUME NEW p \in DOMAIN w, NEW q \in DOMAIN w, w[p].key = w[q].key
                  PROVE  p = q
      BY DEF OneEach
    <3>1. PICK a \in DOMAIN held : w[p] = held[a] /\ a = (IF p < i THEN p ELSE p + 1)
      BY <2>5
    <3>2. PICK b \in DOMAIN held : w[q] = held[b] /\ b = (IF q < i THEN q ELSE q + 1)
      BY <2>5
    <3>3. a = b
      BY <3>1, <3>2 DEF OneEach
    <3>. QED  BY <1>1, <2>1, <2>4, <3>1, <3>2, <3>3
  <2>7. k \notin CachedKeys(w)
    BY <1>1, <2>1, <2>5 DEF OneEach, CachedKeys
  <2>8. ToSet(w) \subseteq ToSet(held)
    BY <2>5 DEF ToSet
  <2>. QED  BY <1>3, <2>3, <2>6, <2>7, <2>8 DEF w
<1>. QED  BY <1>2, <1>3

(***************************************************************************)
(* An entry at the end, whose key is not there yet.                         *)
(***************************************************************************)
LEMMA AppendKeepsOneEach ==
  ASSUME NEW E, NEW held \in Seq(E), OneEach(held),
         NEW e \in E, e.key \notin CachedKeys(held)
  PROVE  /\ Append(held, e) \in Seq(E)
         /\ OneEach(Append(held, e))
         /\ ToSet(Append(held, e)) = ToSet(held) \cup {e}
         /\ Len(Append(held, e)) = Len(held) + 1
<1>. DEFINE a == Append(held, e)
<1>1. /\ a \in Seq(E) /\ Len(a) = Len(held) + 1
      /\ \A p \in 1..Len(held) : a[p] = held[p]
      /\ a[Len(held) + 1] = e
  BY AppendProperties
<1>2. /\ Len(held) \in Nat /\ DOMAIN held = 1..Len(held)
      /\ DOMAIN a = 1..(Len(held) + 1)
  BY <1>1, LenProperties
<1>. HIDE DEF a
<1>3. OneEach(a)
  BY <1>1, <1>2 DEF OneEach, CachedKeys
<1>4. ToSet(a) = ToSet(held) \cup {e}
  BY <1>1, <1>2 DEF ToSet
<1>. QED  BY <1>1, <1>3, <1>4 DEF a

(***************************************************************************)
(* Dropping entries from the front restores the bound.                      *)
(***************************************************************************)
LEMMA TrimProperties ==
  ASSUME NEW E, NEW held \in Seq(E), OneEach(held)
  PROVE  /\ Trim(held) \in Seq(E)
         /\ OneEach(Trim(held))
         /\ ToSet(Trim(held)) \subseteq ToSet(held)
         /\ Len(Trim(held)) <= MaxEntries
         /\ held # <<>> => /\ Trim(held) # <<>>
                              /\ Trim(held)[Len(Trim(held))] = held[Len(held)]
<1>. DEFINE m == IF Len(held) > MaxEntries THEN Len(held) - MaxEntries + 1 ELSE 1
            t == Trim(held)
<1>1. /\ Len(held) \in Nat /\ DOMAIN held = 1..Len(held)
      /\ \A p \in 1..Len(held) : held[p] \in E
  BY LenProperties, ElementOfSeq
<1>2. MaxEntries \in Nat /\ MaxEntries >= 1 /\ m \in Nat /\ m >= 1
  BY <1>1, CacheAssumption
<1>3. /\ t \in Seq(E)
      /\ Len(t) = IF m <= Len(held) THEN Len(held) - m + 1 ELSE 0
      /\ \A p \in 1..(Len(held) - m + 1) : t[p] = held[m + p - 1]
  BY <1>1, <1>2, SubSeqProperties DEF Trim
<1>4. DOMAIN t = 1..Len(t)
  BY <1>3, LenProperties
<1>. HIDE DEF t, m
<1>5. OneEach(t)
  <2>. SUFFICES ASSUME NEW p \in DOMAIN t, NEW q \in DOMAIN t, t[p].key = t[q].key
                PROVE  p = q
    BY DEF OneEach
  <2>1. /\ p \in 1..(Len(held) - m + 1) /\ q \in 1..(Len(held) - m + 1)
        /\ m + p - 1 \in DOMAIN held /\ m + q - 1 \in DOMAIN held
    <3>1. Len(t) \in Nat /\ Len(t) <= Len(held) - m + 1
          /\ (Len(t) > 0 => Len(t) = Len(held) - m + 1)
      BY <1>1, <1>2, <1>3
    <3>2. /\ p \in Nat /\ 1 <= p /\ p <= Len(held) - m + 1
          /\ q \in Nat /\ 1 <= q /\ q <= Len(held) - m + 1
      BY <1>1, <1>2, <1>4, <3>1
    <3>. QED  BY <1>1, <1>2, <3>2
  <2>2. held[m + p - 1].key = held[m + q - 1].key
    BY <1>3, <2>1
  <2>3. m + p - 1 = m + q - 1
    BY <2>1, <2>2 DEF OneEach
  <2>. QED  BY <1>2, <2>1, <2>3
<1>6. ToSet(t) \subseteq ToSet(held)
  <2>. SUFFICES ASSUME NEW p \in DOMAIN t PROVE \E q \in DOMAIN held : t[p] = held[q]
    BY DEF ToSet
  <2>1. p \in 1..(Len(held) - m + 1) /\ m + p - 1 \in DOMAIN held
    BY <1>1, <1>2, <1>3, <1>4
  <2>. QED  BY <1>3, <2>1
<1>7. Len(t) <= MaxEntries
  BY <1>1, <1>2, <1>3 DEF m
<1>8. ASSUME held # <<>> PROVE t # <<>> /\ t[Len(t)] = held[Len(held)]
  <2>1. Len(held) >= 1
    BY <1>1, <1>8, EmptySeq
  <2>2. Len(t) = Len(held) - m + 1 /\ Len(t) \in Nat /\ Len(t) >= 1
    <3>1. m <= Len(held)
      BY <1>1, <1>2, <2>1 DEF m
    <3>. QED  BY <1>1, <1>2, <1>3, <3>1
  <2>3. t[Len(t)] = held[m + Len(t) - 1]
    BY <1>1, <1>2, <1>3, <2>2
  <2>. QED  BY <1>1, <1>2, <2>2, <2>3, EmptySeq
<1>. QED  BY <1>3, <1>5, <1>6, <1>7, <1>8 DEF t

(***************************************************************************)
(* put(): the cache stays within its bound with one entry per key, brings   *)
(* in nothing but the entry it was given, and that one is never the victim  *)
(* of the eviction.                                                         *)
(***************************************************************************)
THEOREM StoreKeepsTheBound ==
  ASSUME NEW E, NEW held \in Seq(E), OneEach(held), NEW e \in E
  PROVE  /\ Store(held, e) \in Seq(E)
         /\ OneEach(Store(held, e))
         /\ Len(Store(held, e)) <= MaxEntries
         /\ ToSet(Store(held, e)) \subseteq ToSet(held) \cup {e}
         /\ Store(held, e)[Len(Store(held, e))] = e
<1>. DEFINE w == Without(held, e.key)
            a == Append(w, e)
<1>1. /\ w \in Seq(E) /\ OneEach(w) /\ e.key \notin CachedKeys(w)
      /\ ToSet(w) \subseteq ToSet(held)
  BY WithoutProperties
<1>. HIDE DEF w
<1>2. /\ a \in Seq(E) /\ OneEach(a) /\ ToSet(a) = ToSet(w) \cup {e}
  BY <1>1, AppendKeepsOneEach
<1>3. a # <<>> /\ Len(a) = Len(w) + 1 /\ a[Len(w) + 1] = e
  BY <1>1, AppendProperties
<1>. HIDE DEF a
<1>4. Store(held, e) = Trim(a)
  BY DEF Store, a, w
<1>. QED  BY <1>1, <1>2, <1>3, <1>4, TrimProperties

(***************************************************************************)
(* get(): the entry found becomes the most recently used one; nothing is    *)
(* added or lost.                                                           *)
(***************************************************************************)
THEOREM TouchKeepsTheEntries ==
  ASSUME NEW E, NEW held \in Seq(E), OneEach(held), NEW k
  PROVE  /\ Touch(held, k) \in Seq(E)
         /\ OneEach(Touch(held, k))
         /\ Len(Touch(held, k)) = Len(held)
         /\ ToSet(Touch(held, k)) \subseteq ToSet(held)
<1>1. CASE k \notin CachedKeys(held)
  BY <1>1 DEF Touch
<1>2. CASE k \in CachedKeys(held)
  <2>. DEFINE w == Without(held, k)
              e == Lookup(held, k)
  <2>1. e \in E /\ e.key = k /\ e \in ToSet(held)
    BY <1>2, PositionFinds, LenProperties, ElementOfSeq DEF Lookup, ToSet
  <2>2. /\ w \in Seq(E) /\ OneEach(w) /\ k \notin CachedKeys(w)
        /\ ToSet(w) \subseteq ToSet(held) /\ Len(w) = Len(held) - 1
    BY <1>2, WithoutProperties
  <2>3. Touch(held, k) = Append(w, e)
    BY <1>2 DEF Touch
  <2>4. Len(held) \in Nat
    BY LenProperties
  <2>. HIDE DEF w, e
  <2>. QED  BY <2>1, <2>2, <2>3, <2>4, AppendKeepsOneEach
<1>. QED  BY <1>1, <1>2

(***************************************************************************)
(* A lookup answers with an entry of the cache under the key asked for.     *)
(***************************************************************************)
LEMMA LookupFinds ==
  ASSUME NEW E, NEW held \in Seq(E), NEW k
  PROVE  \/ Lookup(held, k) = NoEntry
         \/ Lookup(held, k) \in E /\ Lookup(held, k) \in ToSet(held)
BY PositionFinds, LenProperties, ElementOfSeq DEF Lookup, ToSet

-----------------------------------------------------------------------------

(***************************************************************************)
(* The variables keep their types.  Three ways to leave an attempt or to    *)
(* begin one come first.                                                    *)
(***************************************************************************)
LEMMA FinishTypes ==
  ASSUME TypeOK, NEW c \in Calls, NEW result \in Outcomes, Finish(c, result)
  PROVE  /\ pc' \in [Calls -> {"idle", "sending", "backoff", "done"}]
         /\ reply' \in [Calls -> Replies \cup {NoReply}]
         /\ outcome' \in [Calls -> Outcomes \cup {NoOutcome}]
BY DEF TypeOK, Finish

LEMMA RetryTypes ==
  ASSUME TypeOK, NEW c \in Calls, NEW transient, NEW error \in Kinds \ {"data"},
         RetryOrRaise(c, transient, error)
  PROVE  /\ pc' \in [Calls -> {"idle", "sending", "backoff", "done"}]
         /\ reply' \in [Calls -> Replies \cup {NoReply}]
         /\ outcome' \in [Calls -> Outcomes \cup {NoOutcome}]
<1>1. [kind |-> error] \in Outcomes
  BY DEF Outcomes
<1>2. CASE Finish(c, [kind |-> error])
  BY <1>1, <1>2, FinishTypes
<1>3. CASE BackOff(c)
  BY <1>3 DEF TypeOK, BackOff
<1>. QED  BY <1>2, <1>3 DEF RetryOrRaise

LEMMA SendTypes ==
  ASSUME TypeOK, NEW c \in Calls, NEW n \in 1..Attempts, Send(c, n)
  PROVE  /\ pc' \in [Calls -> {"idle", "sending", "backoff", "done"}]
         /\ attempt' \in [Calls -> 0..Attempts]
         /\ wire' \subseteq [call : Calls, attempt : 1..Attempts]
<1>1. Attempts \in Nat
  BY ClientAssumption DEF Attempts
<1>. QED  BY <1>1 DEF TypeOK, Send

LEMMA AnswerTypes ==
  ASSUME TypeOK, version' \in [Urls -> Nat], NEW q \in wire,
         NEW status \in {"not modified", "ok", "unavailable"} \cup Refusals,
         NEW limit \in Rates, Answer(q, status, limit)
  PROVE  reply' \in [Calls -> Replies \cup {NoReply}]
<1>. DEFINE r == [status |-> status, version |-> version'[url[q.call]], rate |-> limit]
<1>1. q.call \in Calls /\ url[q.call] \in Urls
  BY DEF TypeOK
<1>2. r \in Replies
  BY <1>1 DEF Replies
<1>3. reply' = reply \/ reply' = [reply EXCEPT ![q.call] = r]
  BY DEF Answer
<1>4. reply \in [Calls -> Replies \cup {NoReply}]
  BY DEF TypeOK
<1>. HIDE DEF r
<1>. QED  BY <1>1, <1>2, <1>3, <1>4

(***************************************************************************)
(* What GitHub carried out is at most as much as the attempts allow.        *)
(***************************************************************************)
LEMMA AwaitingIsFinite ==
  ASSUME TypeOK, NEW c \in Calls
  PROVE  IsFiniteSet(Awaiting(c)) /\ Cardinality(Awaiting(c)) \in Nat
<1>1. attempt[c] \in Nat
  BY ClientAssumption DEF TypeOK, Attempts
<1>2. IsFiniteSet(1..attempt[c]) /\ Awaiting(c) \subseteq 1..attempt[c]
  BY <1>1, FS_Interval DEF Awaiting
<1>. QED  BY <1>2, FS_Subset, FS_CardinalityType

LEMMA RequestIsAwaited ==
  ASSUME TypeOK, NEW q \in wire, q.attempt <= attempt[q.call]
  PROVE  /\ q.call \in Calls /\ q.attempt \in Awaiting(q.call)
         /\ q = [call |-> q.call, attempt |-> q.attempt]
<1>1. q \in [call : Calls, attempt : 1..Attempts] /\ Attempts \in Nat
  BY ClientAssumption DEF TypeOK, Attempts
<1>2. q.call \in Calls /\ q = [call |-> q.call, attempt |-> q.attempt]
  BY <1>1
<1>3. q.attempt \in 1..attempt[q.call]
  BY <1>1, <1>2 DEF TypeOK
<1>. QED  BY <1>2, <1>3 DEF Awaiting

LEMMA WriteCounts ==
  ASSUME TypeOK, NEW q \in wire, q.attempt <= attempt[q.call], Sound(q.call)
  PROVE  applied[q.call] + 1 \in 0..Attempts
<1>. DEFINE c == q.call
<1>1. c \in Calls /\ q.attempt \in Awaiting(c)
  BY RequestIsAwaited
<1>2. Cardinality(Awaiting(c)) >= 1
  BY <1>1, AwaitingIsFinite, FS_EmptySet
<1>3. applied[c] \in Nat /\ attempt[c] \in 0..Attempts /\ Attempts \in Nat
  BY <1>1, ClientAssumption DEF TypeOK, Attempts
<1>4. applied[c] + Cardinality(Awaiting(c)) <= attempt[c]
  BY DEF Sound
<1>. HIDE DEF c
<1>5. applied[c] + 1 \in 0..Attempts
  BY <1>1, <1>2, <1>3, <1>4, AwaitingIsFinite
<1>. QED  BY <1>5 DEF c

LEMMA StartTypes ==
  ASSUME TypeOK, NEW c \in Calls, NEW m \in Methods, Start(c, m)
  PROVE  TypeOK'
<1>1. /\ entries' \in Seq(Entry) /\ OneEach(entries') /\ Len(entries') <= MaxEntries
      /\ cached' \in [Calls -> Entry \cup {NoEntry}]
  <2>1. entries \in Seq(Entry) /\ OneEach(entries) /\ Len(entries) <= MaxEntries
    BY DEF TypeOK
  <2>2. /\ Touch(entries, url[c]) \in Seq(Entry) /\ OneEach(Touch(entries, url[c]))
        /\ Len(Touch(entries, url[c])) = Len(entries)
    BY <2>1, TouchKeepsTheEntries
  <2>3. Lookup(entries, url[c]) \in Entry \cup {NoEntry}
    BY <2>1, LookupFinds
  <2>4. /\ entries' = entries \/ entries' = Touch(entries, url[c])
        /\ cached' = cached \/ cached' = [cached EXCEPT ![c] = Lookup(entries, url[c])]
    BY DEF Start
  <2>5. cached \in [Calls -> Entry \cup {NoEntry}]
    BY DEF TypeOK
  <2>. QED  BY <2>1, <2>2, <2>3, <2>4, <2>5
<1>2. 1 \in 1..Attempts
  BY ClientAssumption DEF Attempts
<1>3. Send(c, 1)
  BY DEF Start
<1>4. /\ pc' \in [Calls -> {"idle", "sending", "backoff", "done"}]
      /\ attempt' \in [Calls -> 0..Attempts]
      /\ wire' \subseteq [call : Calls, attempt : 1..Attempts]
  BY <1>2, <1>3, SendTypes
<1>5. method' \in [Calls -> {"GET", "PATCH", "POST"}]
  BY ClientAssumption DEF TypeOK, Start
<1>6. current' \in [Calls -> SUBSET Nat]
  BY DEF TypeOK, Start
<1>. QED  BY <1>1, <1>4, <1>5, <1>6 DEF TypeOK, Start

LEMMA ReceiveTypes ==
  ASSUME TypeOK, NEW c \in Calls, Receive(c)
  PROVE  TypeOK'
<1>1. reply[c] \in Replies /\ rate' \in Rates
  BY DEF TypeOK, Receive, Absorb, Replies
<1>2. /\ pc' \in [Calls -> {"idle", "sending", "backoff", "done"}]
      /\ reply' \in [Calls -> Replies \cup {NoReply}]
      /\ outcome' \in [Calls -> Outcomes \cup {NoOutcome}]
      /\ entries' \in Seq(Entry) /\ OneEach(entries') /\ Len(entries') <= MaxEntries
  <2>1. CASE NotModified(c)
    <3>1. [kind |-> "data", version |-> cached[c].data, hit |-> TRUE] \in Outcomes
      BY <2>1 DEF TypeOK, NotModified, Outcomes, Entry
    <3>. QED  BY <2>1, <3>1, FinishTypes DEF TypeOK, NotModified
  <2>2. CASE Succeeded(c) /\ method[c] = "GET"
    <3>. DEFINE e == [key |-> url[c], etag |-> reply[c].version, data |-> reply[c].version]
    <3>1. e \in Entry
      BY <1>1 DEF TypeOK, Entry, Replies
    <3>2. entries' = entries \/ entries' = Store(entries, e)
      BY <2>2 DEF Succeeded
    <3>3. [kind |-> "data", version |-> reply[c].version, hit |-> FALSE] \in Outcomes
      BY <1>1 DEF Outcomes, Replies
    <3>4. Finish(c, [kind |-> "data", version |-> reply[c].version, hit |-> FALSE])
      BY <2>2 DEF Succeeded
    <3>. HIDE DEF e
    <3>5. entries' \in Seq(Entry) /\ OneEach(entries') /\ Len(entries') <= MaxEntries
      BY <3>1, <3>2, StoreKeepsTheBound DEF TypeOK
    <3>. QED  BY <3>3, <3>4, <3>5, FinishTypes
  <2>3. CASE Succeeded(c) /\ method[c] # "GET"
    <3>1. [kind |-> "written"] \in Outcomes
      BY DEF Outcomes, Kinds
    <3>. QED  BY <2>3, <3>1, FinishTypes DEF TypeOK, Succeeded
  <2>4. CASE Rejected(c)
    <3>1. reply[c].status \in Kinds \ {"data"}
      BY <2>4 DEF Rejected, Kinds
    <3>. QED  BY <2>4, <3>1, RetryTypes DEF TypeOK, Rejected
  <2>. QED  BY <2>1, <2>2, <2>3, <2>4 DEF Receive
<1>. QED  BY <1>1, <1>2 DEF TypeOK, Receive, githubVars

LEMMA ChangeTypes ==
  ASSUME TypeOK, NEW u \in Urls, Change(u)
  PROVE  version' \in [Urls -> Nat] /\ current' \in [Calls -> SUBSET Nat]
<1>1. version \in [Urls -> Nat] /\ current \in [Calls -> SUBSET Nat]
  BY DEF TypeOK
<1>2. version[u] + 1 \in Nat
  BY <1>1
<1>. QED  BY <1>1, <1>2 DEF Change

LEMMA WhatHandleChanges ==
  ASSUME NEW q, Handle(q)
  PROVE  /\ applied' = applied \/ applied' = [applied EXCEPT ![q.call] = @ + 1]
         /\ budget' = budget \/ (budget > 0 /\ budget' = budget - 1)
         /\ UNCHANGED <<version, current>> \/ Change(url[q.call])
<1>1. CASE AnswerNotModified(q)
  BY <1>1 DEF AnswerNotModified
<1>2. CASE AnswerContent(q)
  BY <1>2 DEF AnswerContent
<1>3. CASE CarryOut(q)
  BY <1>3 DEF CarryOut
<1>4. CASE TurnDown(q)
  BY <1>4 DEF TurnDown
<1>. QED  BY <1>1, <1>2, <1>3, <1>4 DEF Handle

LEMMA HandleTypes ==
  ASSUME TypeOK, NEW q \in wire, q.attempt <= attempt[q.call], Sound(q.call), Handle(q)
  PROVE  TypeOK'
<1>1. q.call \in Calls /\ url[q.call] \in Urls
  BY RequestIsAwaited DEF TypeOK
<1>2. applied' \in [Calls -> 0..Attempts]
  <2>1. applied' = applied \/ applied' = [applied EXCEPT ![q.call] = @ + 1]
    BY WhatHandleChanges
  <2>2. applied[q.call] + 1 \in 0..Attempts
    BY WriteCounts
  <2>3. applied \in [Calls -> 0..Attempts]
    BY DEF TypeOK
  <2>. QED  BY <1>1, <2>1, <2>2, <2>3
<1>3. version' \in [Urls -> Nat] /\ current' \in [Calls -> SUBSET Nat]
  <2>1. CASE UNCHANGED <<version, current>>
    BY <2>1 DEF TypeOK
  <2>2. CASE Change(url[q.call])
    BY <1>1, <2>2, ChangeTypes
  <2>. QED  BY <2>1, <2>2, WhatHandleChanges
<1>4. budget' \in 0..Budget
  <2>1. budget \in 0..Budget /\ Budget \in Nat
    BY ClientAssumption DEF TypeOK
  <2>. QED  BY <2>1, WhatHandleChanges
<1>5. /\ BudgetLeft \in Rates /\ "unknown" \in Rates
      /\ (IF budget > 0 THEN "left" ELSE "none") \in Rates
  BY DEF BudgetLeft, Rates
<1>6. reply' \in [Calls -> Replies \cup {NoReply}]
  <2>1. \E status \in {"not modified", "ok", "unavailable"} \cup Refusals, limit \in Rates :
          Answer(q, status, limit)
    BY <1>5 DEF Handle, AnswerNotModified, AnswerContent, CarryOut, TurnDown, Refusals
  <2>. QED  BY <1>3, <2>1, AnswerTypes
<1>. QED  BY <1>2, <1>3, <1>4, <1>6 DEF TypeOK, Handle

LEMMA ClientTypes ==
  ASSUME ClientInvariant, [Next]_vars
  PROVE  TypeOK'
<1>. USE DEF ClientInvariant
<1>1. ASSUME NEW c \in Calls, NEW m \in Methods, Start(c, m) PROVE TypeOK'
  BY <1>1, StartTypes
<1>2. ASSUME NEW c \in Calls, TransportError(c) PROVE TypeOK'
  <2>1. "unreachable" \in Kinds \ {"data"}
    BY DEF Kinds
  <2>. QED  BY <1>2, <2>1, RetryTypes DEF TransportError, TypeOK, githubVars
<1>3. ASSUME NEW c \in Calls, SleepEnds(c) PROVE TypeOK'
  <2>1. attempt[c] + 1 \in 1..Attempts
    <3>1. attempt[c] \in 0..Attempts /\ Attempts \in Nat
      BY ClientAssumption DEF TypeOK, Attempts
    <3>2. attempt[c] < Attempts
      BY <1>3 DEF SleepEnds, Sound
    <3>. QED  BY <3>1, <3>2
  <2>. QED  BY <1>3, <2>1, SendTypes DEF SleepEnds, TypeOK, githubVars
<1>4. ASSUME NEW c \in Calls, Receive(c) PROVE TypeOK'
  BY <1>4, ReceiveTypes
<1>5. ASSUME NEW q \in wire, Handle(q) PROVE TypeOK'
  <2>1. q.call \in Calls /\ q.attempt <= attempt[q.call]
    BY RequestIsAwaited
  <2>. QED  BY <1>5, <2>1, HandleTypes
<1>6. ASSUME NEW u \in Urls, Edit(u) PROVE TypeOK'
  BY <1>6, ClientAssumption DEF Edit, Change, callVars, TypeOK
<1>7. CASE UNCHANGED vars
  BY <1>7 DEF vars, TypeOK
<1>. QED  BY <1>1, <1>2, <1>3, <1>4, <1>5, <1>6, <1>7 DEF Next, ClientStep

-----------------------------------------------------------------------------
(***************************************************************************)
(* A step that changes nothing of a call but what was current meanwhile     *)
(* leaves it sound.                                                         *)
(***************************************************************************)
LEMMA SameAwaiting ==
  ASSUME NEW c, attempt'[c] = attempt[c],
         \A n : [call |-> c, attempt |-> n] \in wire' <=> [call |-> c, attempt |-> n] \in wire
  PROVE  Awaiting(c)' = Awaiting(c)
BY DEF Awaiting

LEMMA CallsLeftAlone ==
  ASSUME NEW c \in Calls, Sound(c),
         pc'[c] = pc[c], method'[c] = method[c], url'[c] = url[c],
         attempt'[c] = attempt[c], cached'[c] = cached[c], reply'[c] = reply[c],
         outcome'[c] = outcome[c], applied'[c] = applied[c],
         Awaiting(c)' = Awaiting(c),
         current[c] \subseteq current'[c],
         pc[c] \in {"sending", "backoff"} => version'[url[c]] \in current'[c]
  PROVE  Sound(c)'
BY DEF Sound

(***************************************************************************)
(* A call that starts, and one that sends again.                            *)
(***************************************************************************)
LEMMA StartIsSound ==
  ASSUME ClientInvariant, NEW c \in Calls, NEW m \in Methods, Start(c, m), NEW d \in Calls
  PROVE  Sound(d)'
<1>1. TypeOK /\ Sound(c) /\ Sound(d)
  BY DEF ClientInvariant
<1>2. /\ pc[c] = "idle" /\ pc' = [pc EXCEPT ![c] = "sending"]
      /\ attempt' = [attempt EXCEPT ![c] = 1]
      /\ wire' = wire \cup {[call |-> c, attempt |-> 1]}
      /\ method' = [method EXCEPT ![c] = m]
      /\ current' = [current EXCEPT ![c] = {version[url[c]]}]
      /\ UNCHANGED <<url, reply, outcome, version, applied>>
  BY DEF Start, Send
<1>3. cached' = cached \/ cached' = [cached EXCEPT ![c] = Lookup(entries, url[c])]
  BY DEF Start
<1>4. CASE d # c
  <2>1. Awaiting(d)' = Awaiting(d)
    BY <1>1, <1>2, <1>4, SameAwaiting DEF TypeOK
  <2>2. pc'[d] = pc[d] /\ method'[d] = method[d] /\ attempt'[d] = attempt[d]
        /\ current'[d] = current[d]
    BY <1>1, <1>2, <1>4 DEF TypeOK
  <2>3. cached'[d] = cached[d]
    BY <1>1, <1>3, <1>4 DEF TypeOK
  <2>. QED  BY <1>1, <1>2, <2>1, <2>2, <2>3, CallsLeftAlone DEF Sound
<1>5. CASE d = c
  <2>1. attempt[c] = 0 /\ outcome[c] = NoOutcome /\ reply[c] = NoReply
    BY <1>1, <1>2 DEF Sound
  <2>2. applied[c] = 0
    <3>1. applied[c] \in Nat
      BY <1>1, ClientAssumption DEF TypeOK, Attempts
    <3>2. applied[c] + Cardinality(Awaiting(c)) <= 0
      BY <1>1, <2>1 DEF Sound
    <3>. QED  BY <1>1, <3>1, <3>2, AwaitingIsFinite
  <2>3. /\ pc'[c] = "sending" /\ attempt'[c] = 1 /\ applied'[c] = 0
        /\ reply'[c] = NoReply /\ outcome'[c] = NoOutcome
        /\ version'[url'[c]] \in current'[c]
    BY <1>1, <1>2, <2>1, <2>2 DEF TypeOK
  <2>4. Awaiting(c)' = {1}
    BY <1>2, <2>3 DEF Awaiting
  <2>5. Cardinality(Awaiting(c)') = 1
    <3>1. Cardinality({} \cup {1}) = 1
      BY FS_EmptySet, FS_AddElement
    <3>. QED  BY <2>4, <3>1
  <2>6. cached'[c] # NoEntry => cached'[c].etag = cached'[c].data
    <3>1. CASE cached' = cached
      BY <1>1, <3>1 DEF Sound
    <3>2. CASE cached' = [cached EXCEPT ![c] = Lookup(entries, url[c])]
      <4>1. cached'[c] = Lookup(entries, url[c])
        BY <1>1, <3>2 DEF TypeOK
      <4>2. cached'[c] = NoEntry \/ cached'[c] \in ToSet(entries)
        BY <1>1, <4>1, LookupFinds DEF TypeOK
      <4>. QED  BY <4>2 DEF ClientInvariant
    <3>. QED  BY <1>3, <3>1, <3>2
  <2>. QED  BY <1>5, <2>3, <2>5, <2>6 DEF Sound, NoReply, NoOutcome, Refusals
<1>. QED  BY <1>4, <1>5

LEMMA SleepIsSound ==
  ASSUME ClientInvariant, NEW c \in Calls, SleepEnds(c), NEW d \in Calls
  PROVE  Sound(d)'
<1>. DEFINE n == attempt[c] + 1
<1>1. TypeOK /\ Sound(c) /\ Sound(d)
  BY DEF ClientInvariant
<1>2. /\ pc[c] = "backoff" /\ pc' = [pc EXCEPT ![c] = "sending"]
      /\ attempt' = [attempt EXCEPT ![c] = n]
      /\ wire' = wire \cup {[call |-> c, attempt |-> n]}
      /\ UNCHANGED <<method, url, cached, reply, outcome, version, applied, current>>
  BY DEF SleepEnds, Send, githubVars
<1>3. attempt[c] \in Nat /\ applied[c] \in Nat
  BY <1>1, ClientAssumption DEF TypeOK, Attempts
<1>4. CASE d # c
  <2>1. pc'[d] = pc[d] /\ attempt'[d] = attempt[d]
    BY <1>1, <1>2, <1>4 DEF TypeOK
  <2>2. Awaiting(d)' = Awaiting(d)
    BY <1>2, <1>4, <2>1, SameAwaiting
  <2>. QED  BY <1>1, <1>2, <2>1, <2>2, CallsLeftAlone DEF Sound
<1>5. CASE d = c
  <2>1. pc'[c] = "sending" /\ attempt'[c] = n
    BY <1>1, <1>2 DEF TypeOK
  <2>2. Awaiting(c)' = Awaiting(c) \cup {n}
    BY <1>2, <1>3, <2>1 DEF Awaiting
  <2>3. n \notin Awaiting(c)
    BY <1>3 DEF Awaiting
  <2>4. Cardinality(Awaiting(c)') = Cardinality(Awaiting(c)) + 1
    BY <1>1, <2>2, <2>3, AwaitingIsFinite, FS_AddElement
  <2>5. applied'[c] + Cardinality(Awaiting(c)') <= attempt'[c]
    <3>1. applied[c] + Cardinality(Awaiting(c)) <= attempt[c]
      BY <1>1 DEF Sound
    <3>2. applied'[c] = applied[c] /\ Cardinality(Awaiting(c)) \in Nat
      BY <1>1, <1>2, AwaitingIsFinite
    <3>. QED  BY <1>3, <2>1, <2>4, <3>1, <3>2
  <2>6. method[c] # "POST" /\ reply[c] = NoReply /\ outcome[c] = NoOutcome
        /\ version[url[c]] \in current[c]
    BY <1>1, <1>2 DEF Sound
  <2>. QED  BY <1>1, <1>2, <1>5, <2>1, <2>5, <2>6 DEF Sound, NoReply, NoOutcome, Refusals
<1>. QED  BY <1>4, <1>5

(***************************************************************************)
(* A call that gives its result, or goes to sleep.                          *)
(***************************************************************************)
LEMMA FinishIsSound ==
  ASSUME TypeOK, NEW c \in Calls, Sound(c), NEW result, Finish(c, result),
         UNCHANGED <<attempt, method, url, cached, wire, version, applied, current>>,
         result.kind = "data" => result.version \in current[c],
         method[c] # "GET" /\ result.kind = "written" => applied[c] >= 1,
         result.kind \in Refusals =>
           /\ attempt[c] \notin Awaiting(c)
           /\ method[c] = "GET" \/ attempt[c] # 1 \/ applied[c] = 0
  PROVE  Sound(c)'
<1>1. pc'[c] = "done" /\ outcome'[c] = result /\ reply'[c] = NoReply
  BY DEF TypeOK, Finish
<1>2. Awaiting(c)' = Awaiting(c)
  BY DEF Awaiting
<1>3. /\ attempt'[c] = attempt[c] /\ method'[c] = method[c] /\ cached'[c] = cached[c]
      /\ applied'[c] = applied[c] /\ current'[c] = current[c]
  OBVIOUS
<1>4. NoReply.status = "none" /\ "none" \notin Refusals
  BY DEF NoReply, Refusals
<1>5. result.kind \in Refusals => result.kind \notin {"data", "written"}
  BY DEF Refusals
<1>. QED  BY <1>1, <1>2, <1>3, <1>4, <1>5 DEF Sound

LEMMA RetryIsSound ==
  ASSUME TypeOK, NEW c \in Calls, Sound(c), pc[c] = "sending",
         NEW transient, NEW error, RetryOrRaise(c, transient, error),
         UNCHANGED <<attempt, method, url, cached, wire, version, applied, current>>,
         error \notin {"data", "written"},
         error \in Refusals =>
           /\ attempt[c] \notin Awaiting(c)
           /\ method[c] = "GET" \/ attempt[c] # 1 \/ applied[c] = 0
  PROVE  Sound(c)'
<1>1. CASE Finish(c, [kind |-> error])
  <2>1. [kind |-> error].kind = error
    OBVIOUS
  <2>. QED  BY <1>1, <2>1, FinishIsSound
<1>2. CASE BackOff(c) /\ method[c] \in RetryableMethods /\ attempt[c] < Attempts
  <2>1. pc'[c] = "backoff" /\ reply'[c] = NoReply /\ outcome'[c] = outcome[c]
    BY <1>2 DEF TypeOK, BackOff
  <2>2. Awaiting(c)' = Awaiting(c)
    BY DEF Awaiting
  <2>3. method[c] # "POST"
    BY <1>2 DEF RetryableMethods
  <2>4. /\ attempt'[c] = attempt[c] /\ method'[c] = method[c] /\ cached'[c] = cached[c]
        /\ applied'[c] = applied[c] /\ current'[c] = current[c]
        /\ version'[url'[c]] = version[url[c]]
    OBVIOUS
  <2>5. NoReply.status = "none" /\ NoOutcome.kind = "none" /\ "none" \notin Refusals
    BY DEF NoReply, NoOutcome, Refusals
  <2>6. outcome[c] = NoOutcome
    BY DEF Sound
  <2>. QED  BY <1>2, <2>1, <2>2, <2>3, <2>4, <2>5, <2>6 DEF Sound
<1>. QED  BY <1>1, <1>2 DEF RetryOrRaise

LEMMA OthersUntouched ==
  ASSUME TypeOK, NEW c \in Calls, NEW d \in Calls \ {c}, Sound(d),
         BackOff(c) \/ \E result : Finish(c, result),
         UNCHANGED <<attempt, method, url, cached, wire, version, applied, current>>
  PROVE  Sound(d)'
<1>1. pc'[d] = pc[d] /\ reply'[d] = reply[d] /\ outcome'[d] = outcome[d]
  BY DEF TypeOK, BackOff, Finish
<1>2. Awaiting(d)' = Awaiting(d)
  BY DEF Awaiting
<1>. QED  BY <1>1, <1>2, CallsLeftAlone DEF Sound

LEMMA TransportErrorIsSound ==
  ASSUME ClientInvariant, NEW c \in Calls, TransportError(c), NEW d \in Calls
  PROVE  Sound(d)'
<1>1. TypeOK /\ Sound(c) /\ Sound(d)
  BY DEF ClientInvariant
<1>2. /\ pc[c] = "sending" /\ RetryOrRaise(c, TRUE, "unreachable")
      /\ UNCHANGED <<attempt, method, url, cached, wire, version, applied, current>>
  BY DEF TransportError, githubVars
<1>3. CASE d = c
  BY <1>1, <1>2, <1>3, RetryIsSound DEF Refusals
<1>4. CASE d # c
  BY <1>1, <1>2, <1>4, OthersUntouched DEF RetryOrRaise
<1>. QED  BY <1>3, <1>4

LEMMA ReceiveIsSound ==
  ASSUME ClientInvariant, NEW c \in Calls, Receive(c), NEW d \in Calls
  PROVE  Sound(d)'
<1>1. TypeOK /\ Sound(c) /\ Sound(d)
  BY DEF ClientInvariant
<1>2. /\ pc[c] = "sending" /\ reply[c] # NoReply
      /\ UNCHANGED <<attempt, method, url, cached, wire, version, applied, current>>
  BY DEF Receive, githubVars
<1>3. CASE d # c
  <2>1. \/ \E result : Finish(c, result)
        \/ BackOff(c)
    BY DEF Receive, NotModified, Succeeded, Rejected, RetryOrRaise
  <2>. QED  BY <1>1, <1>2, <1>3, <2>1, OthersUntouched
<1>4. CASE d = c
  <2>1. CASE NotModified(c)
    <3>. DEFINE result == [kind |-> "data", version |-> cached[c].data, hit |-> TRUE]
    <3>1. Finish(c, result) /\ cached[c].data \in current[c]
      BY <1>1, <2>1 DEF NotModified, Sound
    <3>2. result.kind = "data" /\ result.version = cached[c].data
      OBVIOUS
    <3>. HIDE DEF result
    <3>. QED  BY <1>1, <1>2, <1>4, <3>1, <3>2, FinishIsSound DEF Refusals
  <2>2. CASE Succeeded(c) /\ method[c] = "GET"
    <3>. DEFINE result == [kind |-> "data", version |-> reply[c].version, hit |-> FALSE]
    <3>1. Finish(c, result) /\ reply[c].version \in current[c]
      BY <1>1, <2>2 DEF Succeeded, Sound
    <3>2. result.kind = "data" /\ result.version = reply[c].version
      OBVIOUS
    <3>. HIDE DEF result
    <3>. QED  BY <1>1, <1>2, <1>4, <3>1, <3>2, FinishIsSound DEF Refusals
  <2>3. CASE Succeeded(c) /\ method[c] # "GET"
    <3>. DEFINE result == [kind |-> "written"]
    <3>1. Finish(c, result) /\ applied[c] >= 1
      BY <1>1, <2>3 DEF Succeeded, Sound
    <3>2. result.kind = "written"
      OBVIOUS
    <3>. HIDE DEF result
    <3>. QED  BY <1>1, <1>2, <1>4, <3>1, <3>2, FinishIsSound DEF Refusals
  <2>4. CASE Rejected(c)
    <3>1. /\ RetryOrRaise(c, reply[c].status \in {"unavailable", "too many"}, reply[c].status)
          /\ reply[c].status \notin {"data", "written"}
      BY <2>4 DEF Rejected
    <3>2. reply[c].status \in Refusals =>
            /\ attempt[c] \notin Awaiting(c)
            /\ method[c] = "GET" \/ attempt[c] # 1 \/ applied[c] = 0
      BY <1>1, <1>2 DEF Sound
    <3>. QED  BY <1>1, <1>2, <1>4, <3>1, <3>2, RetryIsSound
  <2>. QED  BY <2>1, <2>2, <2>3, <2>4 DEF Receive
<1>. QED  BY <1>3, <1>4

(***************************************************************************)
(* GitHub handles a request of call q.call, or somebody edits a resource.   *)
(***************************************************************************)
LEMMA ChangeKeepsCurrent ==
  ASSUME TypeOK, NEW u \in Urls, Change(u), NEW d \in Calls
  PROVE  /\ current[d] \subseteq current'[d]
         /\ pc[d] \in {"sending", "backoff"} /\ version[url[d]] \in current[d] =>
              version'[url[d]] \in current'[d]
<1>1. /\ version \in [Urls -> Nat] /\ url[d] \in Urls
      /\ version' = [version EXCEPT ![u] = @ + 1]
      /\ current'[d] = IF url[d] = u /\ pc[d] \in {"sending", "backoff"}
                       THEN current[d] \cup {version[u] + 1} ELSE current[d]
  BY DEF TypeOK, Change
<1>. QED  BY <1>1

LEMMA EditIsSound ==
  ASSUME ClientInvariant, NEW u \in Urls, Edit(u), NEW d \in Calls
  PROVE  Sound(d)'
<1>1. TypeOK /\ Sound(d)
  BY DEF ClientInvariant
<1>2. /\ Change(u)
      /\ UNCHANGED <<pc, method, url, attempt, cached, reply, outcome, applied, wire>>
  BY DEF Edit, callVars
<1>3. Awaiting(d)' = Awaiting(d)
  BY <1>2 DEF Awaiting
<1>4. pc[d] \in {"sending", "backoff"} => version[url[d]] \in current[d]
  BY <1>1 DEF Sound
<1>. QED  BY <1>1, <1>2, <1>3, <1>4, ChangeKeepsCurrent, CallsLeftAlone

\* What GitHub's answer says of the call it goes to.
LEMMA AnswersAreTrue ==
  ASSUME ClientInvariant, NEW q \in wire, Handle(q)
  PROVE  LET c == q.call IN
         \/ reply'[c] = reply[c]
         \/ /\ pc[c] = "sending" /\ attempt[c] = q.attempt
            /\ \/ /\ reply'[c].status = "unavailable"
               \/ /\ reply'[c].status = "not modified" /\ method[c] = "GET"
                  /\ cached[c] # NoEntry /\ cached[c].data \in current[c]
               \/ /\ reply'[c].status = "ok" /\ method[c] = "GET"
                  /\ reply'[c].version \in current[c]
               \/ /\ reply'[c].status = "ok" /\ method[c] # "GET"
                  /\ applied'[c] = applied[c] + 1
               \/ /\ reply'[c].status \in Refusals /\ applied'[c] = applied[c]
<1>. DEFINE c == q.call
<1>1. q \in wire /\ q.attempt <= attempt[q.call] /\ TypeOK
  BY DEF ClientInvariant
<1>2. c \in Calls /\ Sound(c)
  BY <1>1, RequestIsAwaited DEF ClientInvariant
<1>3. ASSUME NEW status, NEW limit, Answer(q, status, limit)
      PROVE  \/ reply'[c] = reply[c]
             \/ /\ pc[c] = "sending" /\ attempt[c] = q.attempt
                /\ reply'[c].status = status /\ reply'[c].version = version'[url[c]]
  BY <1>1, <1>2, <1>3 DEF Answer, TypeOK
<1>4. pc[c] = "sending" => version[url[c]] \in current[c]
  BY <1>2 DEF Sound
<1>. HIDE DEF c
<1>5. CASE AnswerNotModified(q)
  <2>1. cached[c] # NoEntry /\ cached[c].etag = version[url[c]] /\ method[c] = "GET"
    BY <1>5 DEF AnswerNotModified, StillCurrent, c
  <2>2. cached[c].data = cached[c].etag
    BY <1>2, <2>1 DEF Sound
  <2>3. \/ reply'[c] = reply[c]
        \/ pc[c] = "sending" /\ attempt[c] = q.attempt /\ reply'[c].status = "not modified"
    BY <1>3, <1>5 DEF AnswerNotModified
  <2>. QED  BY <1>4, <2>1, <2>2, <2>3 DEF c
<1>6. CASE AnswerContent(q)
  <2>1. method[c] = "GET" /\ version' = version
    BY <1>6 DEF AnswerContent, c
  <2>2. \/ reply'[c] = reply[c]
        \/ /\ pc[c] = "sending" /\ attempt[c] = q.attempt /\ reply'[c].status = "ok"
           /\ reply'[c].version = version'[url[c]]
    BY <1>3, <1>6 DEF AnswerContent
  <2>. QED  BY <1>4, <2>1, <2>2 DEF c
<1>7. CASE CarryOut(q)
  <2>1. method[c] # "GET" /\ applied'[c] = applied[c] + 1
    BY <1>1, <1>2, <1>7 DEF CarryOut, TypeOK, c
  <2>2. \/ reply'[c] = reply[c]
        \/ /\ pc[c] = "sending" /\ attempt[c] = q.attempt
           /\ reply'[c].status \in {"ok", "unavailable"}
    BY <1>3, <1>7 DEF CarryOut
  <2>. QED  BY <2>1, <2>2 DEF c
<1>8. CASE TurnDown(q)
  <2>1. applied' = applied
    BY <1>8 DEF TurnDown
  <2>2. \/ reply'[c] = reply[c]
        \/ /\ pc[c] = "sending" /\ attempt[c] = q.attempt
           /\ reply'[c].status \in {"unavailable"} \cup Refusals
    BY <1>3, <1>8 DEF TurnDown, Refusals
  <2>. QED  BY <2>1, <2>2 DEF c
<1>. QED  BY <1>5, <1>6, <1>7, <1>8 DEF Handle

LEMMA HandleIsSound ==
  ASSUME ClientInvariant, NEW q \in wire, Handle(q), NEW d \in Calls
  PROVE  Sound(d)'
<1>. DEFINE c == q.call
<1>1. q \in wire /\ q.attempt <= attempt[q.call] /\ TypeOK
  BY DEF ClientInvariant
<1>2. /\ c \in Calls /\ Sound(c) /\ Sound(d) /\ q.attempt \in Awaiting(c)
      /\ q = [call |-> c, attempt |-> q.attempt]
  BY <1>1, RequestIsAwaited DEF ClientInvariant
<1>3. /\ wire' = wire \ {q}
      /\ UNCHANGED <<pc, method, url, attempt, cached, outcome>>
      /\ applied' = applied \/ applied' = [applied EXCEPT ![c] = @ + 1]
      /\ \E r : reply' = [reply EXCEPT ![c] = r] \/ reply' = reply
  BY WhatHandleChanges
  DEF Handle, Answer, AnswerNotModified, AnswerContent, CarryOut, TurnDown
<1>4. /\ current[d] \subseteq current'[d]
      /\ pc[d] \in {"sending", "backoff"} => version'[url[d]] \in current'[d]
  <2>1. pc[d] \in {"sending", "backoff"} => version[url[d]] \in current[d]
    BY <1>2 DEF Sound
  <2>2. CASE UNCHANGED <<version, current>>
    BY <2>1, <2>2
  <2>3. CASE Change(url[q.call])
    BY <1>1, <1>2, <2>1, <2>3, ChangeKeepsCurrent DEF TypeOK
  <2>. QED  BY <2>2, <2>3, WhatHandleChanges
<1>. HIDE DEF c
<1>5. CASE d # c
  <2>1. applied'[d] = applied[d] /\ reply'[d] = reply[d]
    BY <1>1, <1>3, <1>5 DEF TypeOK
  <2>2. Awaiting(d)' = Awaiting(d)
    BY <1>2, <1>3, <1>5, SameAwaiting
  <2>. QED  BY <1>2, <1>3, <1>4, <2>1, <2>2, CallsLeftAlone
<1>6. CASE d = c
  <2>1. Awaiting(c)' = Awaiting(c) \ {q.attempt}
    BY <1>2, <1>3 DEF Awaiting
  <2>2. applied'[c] = applied[c] \/ applied'[c] = applied[c] + 1
    BY <1>1, <1>2, <1>3 DEF TypeOK
  <2>3. applied[c] \in Nat /\ attempt[c] \in Nat /\ q.attempt \in 1..attempt[c]
    BY <1>1, <1>2, ClientAssumption DEF TypeOK, Attempts, Awaiting
  <2>4. /\ applied[c] + Cardinality(Awaiting(c)) <= attempt[c]
        /\ Cardinality(Awaiting(c)) \in Nat /\ Cardinality(Awaiting(c)) >= 1
    <3>1. IsFiniteSet(Awaiting(c)) /\ Cardinality(Awaiting(c)) \in Nat
      BY <1>1, <1>2, AwaitingIsFinite
    <3>2. Cardinality(Awaiting(c)) # 0
      BY <1>2, <3>1, FS_EmptySet
    <3>3. applied[c] + Cardinality(Awaiting(c)) <= attempt[c]
      BY <1>2 DEF Sound
    <3>. QED  BY <3>1, <3>2, <3>3
  <2>5. Cardinality(Awaiting(c)') = Cardinality(Awaiting(c)) - 1
    BY <1>1, <1>2, <2>1, AwaitingIsFinite, FS_RemoveElement
  <2>6. applied'[c] + Cardinality(Awaiting(c)') <= attempt'[c]
    BY <1>3, <2>2, <2>3, <2>4, <2>5
  <2>7. ASSUME attempt[c] = 1 PROVE applied[c] = 0 /\ q.attempt = 1
    BY <2>3, <2>4, <2>7
  <2>8. ASSUME reply[c] # NoReply \/ outcome[c].kind \in Refusals
        PROVE  attempt[c] # q.attempt /\ attempt[c] \notin Awaiting(c)' /\ attempt[c] # 1
    BY <1>2, <2>1, <2>7, <2>8 DEF Sound
  <2>9. applied'[c] >= applied[c]
    BY <2>2, <2>3
  <2>10. NoReply.status = "none" /\ "none" \notin Refusals
    BY DEF NoReply, Refusals
  <2>11. /\ pc'[c] = pc[c] /\ method'[c] = method[c] /\ url'[c] = url[c]
         /\ attempt'[c] = attempt[c] /\ cached'[c] = cached[c] /\ outcome'[c] = outcome[c]
    BY <1>3
  <2>12. CASE reply'[c] = reply[c]
    <3>1. reply[c].status = "ok" =>
            IF method[c] = "GET" THEN reply[c].version \in current'[c] ELSE applied'[c] >= 1
      BY <1>2, <1>4, <1>6, <2>2, <2>3 DEF Sound
    <3>2. /\ reply[c].status = "not modified" =>
               method[c] = "GET" /\ cached[c] # NoEntry /\ cached[c].data \in current'[c]
          /\ outcome[c].kind = "data" => outcome[c].version \in current'[c]
      BY <1>2, <1>4, <1>6 DEF Sound
    <3>3. method[c] # "GET" /\ outcome[c].kind = "written" => applied'[c] >= 1
      <4>1. method[c] # "GET" /\ outcome[c].kind = "written" => applied[c] >= 1
        BY <1>2 DEF Sound
      <4>. QED  BY <2>2, <2>3, <4>1
    <3>4. reply[c].status \in Refusals \/ outcome[c].kind \in Refusals => attempt[c] # 1
      BY <2>8, <2>10
    <3>5. /\ pc[c] = "idle" => attempt[c] = 0 /\ outcome[c] = NoOutcome
          /\ pc[c] # "sending" => reply[c] = NoReply
          /\ pc[c] \in {"sending", "backoff"} => outcome[c] = NoOutcome
          /\ method[c] = "POST" => attempt[c] <= 1 /\ pc[c] # "backoff"
          /\ pc[c] = "backoff" => attempt[c] < Attempts
          /\ cached[c] # NoEntry => cached[c].etag = cached[c].data
      BY <1>2 DEF Sound
    <3>. QED  BY <1>4, <1>6, <2>6, <2>8, <2>11, <2>12, <3>1, <3>2, <3>3, <3>4, <3>5 DEF Sound
  <2>13. CASE /\ pc[c] = "sending" /\ attempt[c] = q.attempt
              /\ \/ /\ reply'[c].status = "unavailable"
                 \/ /\ reply'[c].status = "not modified" /\ method[c] = "GET"
                    /\ cached[c] # NoEntry /\ cached[c].data \in current[c]
                 \/ /\ reply'[c].status = "ok" /\ method[c] = "GET"
                    /\ reply'[c].version \in current[c]
                 \/ /\ reply'[c].status = "ok" /\ method[c] # "GET"
                    /\ applied'[c] = applied[c] + 1
                 \/ /\ reply'[c].status \in Refusals /\ applied'[c] = applied[c]
    <3>1. outcome[c] = NoOutcome /\ NoOutcome.kind = "none"
      BY <1>2, <2>13 DEF Sound, NoOutcome
    <3>2. attempt[c] \notin Awaiting(c)'
      BY <2>1, <2>13
    <3>3. reply'[c].status = "ok" =>
            IF method[c] = "GET" THEN reply'[c].version \in current'[c] ELSE applied'[c] >= 1
      BY <1>4, <1>6, <2>3, <2>13 DEF Refusals
    <3>4. reply'[c].status = "not modified" =>
            method[c] = "GET" /\ cached[c] # NoEntry /\ cached[c].data \in current'[c]
      BY <1>4, <1>6, <2>13 DEF Refusals
    <3>5. reply'[c].status \in Refusals => attempt[c] # 1 \/ applied'[c] = 0
      BY <2>7, <2>13 DEF Refusals
    <3>. QED  BY <1>2, <1>4, <1>6, <2>6, <2>10, <2>11, <2>13, <3>1, <3>2, <3>3, <3>4, <3>5
              DEF Sound
  <2>. QED  BY <2>12, <2>13, AnswersAreTrue DEF c
<1>. QED  BY <1>5, <1>6

(***************************************************************************)
(* The cache holds versions under their own ETags, and the wire no request  *)
(* of the future.                                                           *)
(***************************************************************************)
LEMMA TagsArePreserved ==
  ASSUME ClientInvariant, [Next]_vars
  PROVE  \A e \in ToSet(entries') : e.etag = e.data
<1>. USE DEF ClientInvariant
<1>1. entries \in Seq(Entry) /\ OneEach(entries)
  BY DEF TypeOK
<1>2. ASSUME NEW c \in Calls, Receive(c) PROVE \A e \in ToSet(entries') : e.etag = e.data
  <2>. DEFINE new == [key |-> url[c], etag |-> reply[c].version, data |-> reply[c].version]
  <2>1. CASE entries' = entries
    BY <2>1
  <2>2. CASE entries' = Store(entries, new) /\ reply[c].status = "ok"
    <3>1. reply[c] \in Replies
      BY <2>2 DEF TypeOK, NoReply
    <3>2. new \in Entry /\ new.etag = new.data
      BY <3>1 DEF TypeOK, Entry, Replies
    <3>. HIDE DEF new
    <3>3. ToSet(entries') \subseteq ToSet(entries) \cup {new}
      BY <1>1, <2>2, <3>2, StoreKeepsTheBound
    <3>. QED  BY <3>2, <3>3
  <2>. QED  BY <1>2, <2>1, <2>2 DEF Receive, NotModified, Succeeded, Rejected
<1>3. ASSUME NEW c \in Calls, NEW m \in Methods, Start(c, m)
      PROVE  \A e \in ToSet(entries') : e.etag = e.data
  <2>1. entries' = entries \/ entries' = Touch(entries, url[c])
    BY <1>3 DEF Start
  <2>2. ToSet(Touch(entries, url[c])) \subseteq ToSet(entries)
    BY <1>1, TouchKeepsTheEntries
  <2>. QED  BY <2>1, <2>2
<1>4. CASE UNCHANGED entries
  BY <1>4
<1>. QED  BY <1>2, <1>3, <1>4
          DEF Next, ClientStep, TransportError, SleepEnds, Handle, Edit, vars

LEMMA WirePreserved ==
  ASSUME ClientInvariant, [Next]_vars
  PROVE  \A q \in wire' : q.attempt <= attempt'[q.call]
<1>. USE DEF ClientInvariant
<1>1. ASSUME NEW c \in Calls, NEW n \in Nat, Send(c, n), attempt[c] <= n
      PROVE  \A q \in wire' : q.attempt <= attempt'[q.call]
  <2>. SUFFICES ASSUME NEW q \in wire' PROVE q.attempt <= attempt'[q.call]
    OBVIOUS
  <2>1. attempt' = [attempt EXCEPT ![c] = n] /\ wire' = wire \cup {[call |-> c, attempt |-> n]}
    BY <1>1 DEF Send
  <2>2. CASE q = [call |-> c, attempt |-> n]
    BY <2>1, <2>2 DEF TypeOK
  <2>3. CASE q \in wire
    <3>1. q.call \in Calls /\ q.attempt \in Nat /\ q.attempt <= attempt[q.call]
      BY <2>3, ClientAssumption DEF TypeOK, Attempts
    <3>2. attempt[q.call] \in Nat
      BY <3>1, ClientAssumption DEF TypeOK, Attempts
    <3>3. CASE q.call = c
      BY <1>1, <2>1, <3>1, <3>2, <3>3 DEF TypeOK
    <3>4. CASE q.call # c
      BY <2>1, <3>1, <3>4 DEF TypeOK
    <3>. QED  BY <3>3, <3>4
  <2>. QED  BY <2>1, <2>2, <2>3
<1>2. ASSUME NEW c \in Calls, NEW m \in Methods, Start(c, m)
      PROVE  \A q \in wire' : q.attempt <= attempt'[q.call]
  <2>1. attempt[c] = 0 /\ Send(c, 1)
    BY <1>2 DEF Start, Sound
  <2>. QED  BY <1>1, <2>1
<1>3. ASSUME NEW c \in Calls, SleepEnds(c)
      PROVE  \A q \in wire' : q.attempt <= attempt'[q.call]
  <2>1. attempt[c] \in Nat /\ Send(c, attempt[c] + 1)
    BY <1>3, ClientAssumption DEF SleepEnds, TypeOK, Attempts
  <2>2. attempt[c] + 1 \in Nat /\ attempt[c] <= attempt[c] + 1
    BY <2>1
  <2>. QED  BY <1>1, <2>1, <2>2
<1>4. CASE wire' \subseteq wire /\ UNCHANGED attempt
  BY <1>4
<1>. QED  BY <1>2, <1>3, <1>4
          DEF Next, ClientStep, TransportError, Receive, Handle, Edit, callVars, vars

-----------------------------------------------------------------------------
(***************************************************************************)
(* ClientInvariant holds initially, and every step preserves it.            *)
(***************************************************************************)
LEMMA ClientInitially == Init => ClientInvariant
<1>. SUFFICES ASSUME Init PROVE ClientInvariant
  OBVIOUS
<1>1. entries = <<>> /\ wire = {}
  BY DEF Init
<1>2. /\ <<>> \in Seq(Entry) /\ Len(<<>>) = 0 /\ DOMAIN <<>> = {}
      /\ ToSet(<<>>) = {} /\ OneEach(<<>>)
  BY EmptySeq, LenProperties DEF ToSet, OneEach
<1>3. TypeOK
  <2>1. Attempts \in Nat /\ 0 \in 0..Attempts /\ MaxEntries \in Nat
    BY ClientAssumption, CacheAssumption DEF Attempts
  <2>2. entries \in Seq(Entry) /\ OneEach(entries) /\ Len(entries) <= MaxEntries
    BY <1>1, <1>2, <2>1
  <2>. QED  BY <1>1, <2>1, <2>2, ClientAssumption DEF Init, TypeOK, Rates
<1>4. ASSUME NEW c \in Calls PROVE Sound(c)
  <2>1. /\ pc[c] = "idle" /\ attempt[c] = 0 /\ outcome[c] = NoOutcome /\ reply[c] = NoReply
        /\ applied[c] = 0 /\ cached[c] = NoEntry /\ method[c] = "GET"
    BY DEF Init
  <2>2. Awaiting(c) = {}
    BY <1>1 DEF Awaiting
  <2>3. Cardinality(Awaiting(c)) = 0
    BY <2>2, FS_EmptySet
  <2>. QED  BY <2>1, <2>3 DEF Sound, NoReply, NoOutcome, Refusals
<1>. QED  BY <1>1, <1>2, <1>3, <1>4 DEF ClientInvariant

LEMMA ClientPreserved ==
  ASSUME ClientInvariant, [Next]_vars
  PROVE  ClientInvariant'
<1>1. ASSUME NEW d \in Calls PROVE Sound(d)'
  <2>1. CASE UNCHANGED vars
    <3>1. Sound(d) /\ Awaiting(d)' = Awaiting(d)
      BY <2>1 DEF ClientInvariant, vars, Awaiting
    <3>. QED  BY <2>1, <3>1, CallsLeftAlone DEF vars, Sound
  <2>. QED  BY <2>1, StartIsSound, TransportErrorIsSound, SleepIsSound, ReceiveIsSound,
               HandleIsSound, EditIsSound DEF Next, ClientStep
<1>. QED  BY <1>1, ClientTypes, TagsArePreserved, WirePreserved DEF ClientInvariant

(***************************************************************************)
(* The invariant holds in every state, for all values of the constants.     *)
(***************************************************************************)
THEOREM ClientIsInvariant == Spec => []ClientInvariant
<1>1. ClientInvariant /\ [Next]_vars => ClientInvariant'
  BY ClientPreserved
<1>. QED  BY <1>1, ClientInitially, PTL DEF Spec

(***************************************************************************)
(* The state keeps its shape: no call makes more than max_retries + 1       *)
(* attempts, and the cache stays within its bound.                          *)
(***************************************************************************)
THEOREM ClientTypeCorrect == Spec => []TypeOK
<1>1. ClientInvariant => TypeOK
  BY DEF ClientInvariant
<1>. QED  BY <1>1, ClientIsInvariant, PTL

(***************************************************************************)
(* "A 502 on create must never produce two issues."                         *)
(***************************************************************************)
LEMMA OnePostOneIssue == ClientInvariant => CreatedOnce
<1>. SUFFICES ASSUME ClientInvariant, NEW c \in Calls, method[c] = "POST"
              PROVE  applied[c] <= 1
  BY DEF CreatedOnce
<1>1. TypeOK /\ Sound(c)
  BY DEF ClientInvariant
<1>2. applied[c] \in Nat /\ attempt[c] \in Nat
  BY <1>1, ClientAssumption DEF TypeOK, Attempts
<1>3. attempt[c] <= 1 /\ applied[c] + Cardinality(Awaiting(c)) <= attempt[c]
  BY <1>1 DEF Sound
<1>. QED  BY <1>1, <1>2, <1>3, AwaitingIsFinite

THEOREM CreatesHappenOnce == Spec => []CreatedOnce
BY OnePostOneIssue, ClientIsInvariant, PTL

(***************************************************************************)
(* Success of a write means that it was carried out, a refusal that it was  *)
(* not, unless it repeated an attempt whose end the call never learnt.      *)
(***************************************************************************)
LEMMA AnswersTellWhatHappened == ClientInvariant => WriteAnswerIsTrue
<1>. SUFFICES ASSUME ClientInvariant, NEW c \in Calls, method[c] # "GET"
              PROVE  /\ outcome[c].kind = "written" => applied[c] >= 1
                     /\ outcome[c].kind \in Refusals /\ (method[c] = "POST" \/ attempt[c] = 1)
                        => applied[c] = 0
  BY DEF WriteAnswerIsTrue
<1>1. TypeOK /\ Sound(c)
  BY DEF ClientInvariant
<1>2. outcome[c].kind = "written" => applied[c] >= 1
  BY <1>1 DEF Sound
<1>3. ASSUME outcome[c].kind \in Refusals, attempt[c] = 1 PROVE applied[c] = 0
  BY <1>1, <1>3 DEF Sound
<1>4. ASSUME method[c] = "POST", attempt[c] # 1 PROVE applied[c] = 0
  <2>1. applied[c] \in Nat /\ attempt[c] \in Nat
    BY <1>1, ClientAssumption DEF TypeOK, Attempts
  <2>2. attempt[c] <= 1 /\ applied[c] + Cardinality(Awaiting(c)) <= attempt[c]
    BY <1>1, <1>4 DEF Sound
  <2>. QED  BY <1>1, <1>4, <2>1, <2>2, AwaitingIsFinite
<1>. QED  BY <1>2, <1>3, <1>4

THEOREM WritesAreAnsweredTruly == Spec => []WriteAnswerIsTrue
BY AnswersTellWhatHappened, ClientIsInvariant, PTL

(***************************************************************************)
(* What a read returns was current while it ran.                            *)
(***************************************************************************)
LEMMA DataWasCurrent == ClientInvariant => FreshRead
BY DEF ClientInvariant, Sound, FreshRead

THEOREM ReadsAreFresh == Spec => []FreshRead
BY DataWasCurrent, ClientIsInvariant, PTL

=============================================================================
