----------------------------- MODULE ETagCache -----------------------------
(***************************************************************************)
(* class ETagCache of app/github_client.py: the bounded cache of GET bodies *)
(* and their ETags, an OrderedDict kept in order of use.  Here it is the    *)
(* sequence of its entries, the least recently used one first, and an entry *)
(* is a record with a key and whatever the client stores under it.          *)
(*                                                                          *)
(* These are operators on such a sequence; GitHubClient keeps one.          *)
(* TrimOneMore is Trim with an off-by-one slip; no specification uses it.   *)
(***************************************************************************)
EXTENDS Naturals, Sequences, SequencesExt

CONSTANT MaxEntries

ASSUME CacheAssumption == MaxEntries \in Nat \ {0}

NoEntry == [key |-> "none"]

OneEach(entries) == \A p, q \in DOMAIN entries : entries[p].key = entries[q].key => p = q

CachedKeys(entries) == {entries[p].key : p \in DOMAIN entries}

Position(entries, k) == CHOOSE p \in DOMAIN entries : entries[p].key = k

Without(entries, k) ==
  IF k \in CachedKeys(entries) THEN RemoveAt(entries, Position(entries, k)) ELSE entries

\* get(): the entry, or None.
Lookup(entries, k) ==
  IF k \in CachedKeys(entries) THEN entries[Position(entries, k)] ELSE NoEntry

\* get() moves the entry it finds to the end.
Touch(entries, k) ==
  IF k \in CachedKeys(entries)
  THEN Append(Without(entries, k), Lookup(entries, k))
  ELSE entries

TrimOneMore(entries) ==
  SubSeq(entries,
         IF Len(entries) > MaxEntries + 1 THEN Len(entries) - MaxEntries ELSE 1,
         Len(entries))

\* popitem(last=False) until the bound holds again.
Trim(entries) ==
  SubSeq(entries,
         IF Len(entries) > MaxEntries THEN Len(entries) - MaxEntries + 1 ELSE 1,
         Len(entries))

\* put(): replaces or adds the entry, moves it to the end, and trims.
Store(entries, e) == Trim(Append(Without(entries, e.key), e))

=============================================================================
