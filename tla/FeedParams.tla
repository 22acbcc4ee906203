------------------------------ MODULE FeedParams ------------------------------
(***************************************************************************)
(* What a request asks for (internal/entity/params.go) and what of it the  *)
(* handler computes with (internal/api/rest/telegram.go): the cache key,   *)
(* the lifetime in the cache, the lifetime in the client's cache.          *)
(*                                                                         *)
(* A Go int has IntWidth bits here, which arithmetic wraps around; Minute  *)
(* is time.Minute.  Words are values, but a key spells them out: it is a   *)
(* sequence of characters.                                                 *)
(***************************************************************************)
EXTENDS Integers, Sequences, SequencesExt, Subsequences

CONSTANTS
  Query,            \* the requests considered
  Word,             \* words that posts contain and requests exclude
  Character,        \* what keys are put together from
  Letters,          \* how each of their spellings is written
  Blank,            \* a piece of the exclude parameter that is only spaces
  Missing,          \* stands for a parameter that is not given
  Malformed,        \* stands for a cache_ttl that strconv.Atoi refuses
  IntWidth,
  Minute,           \* units of time.Duration in a minute
  SecondsPerMinute  \* 60

Spelling == [word : Word, upper : BOOLEAN]

\* The path and the query: exclude in its pieces, exclude_case_sensitive as
\* the code understands it.
Queries ==
  [username : Seq(Character), format : {"", "rss", "atom", "other"},
   exclude : Seq(Spelling \cup {Blank}), caseSensitive : BOOLEAN,
   cache_ttl : Int \cup {Missing, Malformed}]

ASSUME QueryAssumption == Query \subseteq Queries
\* A Duration counts units shorter than a second.
ASSUME WidthAssumption ==
  IntWidth \in Nat \ {0} /\ Minute \in Nat \ {0} /\ SecondsPerMinute \in 1..Minute

\* The provers know no more of a power than that it is a number.
ASSUME PowerAssumption == 2 ^ (IntWidth - 1) > 0

\* A format or a flag counts as one.
ASSUME CharacterAssumption == {":", "|", "rss", "atom", "0", "1"} \subseteq Character

\* Words contain no bar, at which they are split; a word has letters, which tell
\* it from every other.  Of usernames nothing is assumed: any path segment is one.
ASSUME SpellingAssumption ==
  /\ Letters \in [Spelling -> Seq(Character) \ {<<>>}]
  /\ \A s \in Spelling : "|" \notin ToSet(Letters[s])
  /\ \A s, t \in Spelling : Letters[s] = Letters[t] => s = t
  /\ Blank \notin Spelling

------------------------------------------------------------------------------
(* NewFeedParamFromRequest.                                                  *)

Rejected(q) ==
  \/ q.username = <<>>
  \/ q.format = "other"
  \/ q.cache_ttl = Malformed
  \/ q.cache_ttl # Missing /\ q.cache_ttl < 0

ExcludeWordsUnfiltered(pieces) == pieces

\* Pieces that are only spaces are dropped, for every text contains them.
ExcludeWords(pieces) ==
  Pick(pieces, {i \in DOMAIN pieces : pieces[i] # Blank})

CacheTTLOrDefault(q, cacheTTLDefault) ==
  IF q.cache_ttl \in {Missing, 0} THEN cacheTTLDefault ELSE q.cache_ttl

\* DEFAULT_CACHE_TTL may be any number.
CacheTTL(q, cacheTTLDefault) ==
  IF q.cache_ttl = Missing THEN cacheTTLDefault ELSE q.cache_ttl

FeedParamsOf(q, cacheTTLDefault) ==
  [Username |-> q.username, Format |-> IF q.format = "" THEN "rss" ELSE q.format,
   ExcludeWords |-> ExcludeWords(q.exclude), ExcludeCaseSensitive |-> q.caseSensitive,
   CacheTTL |-> CacheTTL(q, cacheTTLDefault)]

------------------------------------------------------------------------------
(* What the handler makes of them.                                           *)

Wrap(n) ==
  LET half == 2 ^ (IntWidth - 1) IN ((n + half) % (2 * half)) - half

Lifetime(params) == Wrap(params.CacheTTL * Minute)

MaxAge(params) == Wrap(params.CacheTTL * SecondsPerMinute)

Spelled(words, separator) ==
  FlattenSeq([i \in DOMAIN words |->
    IF i = 1 THEN Letters[words[i]] ELSE separator \o Letters[words[i]]])

buildCacheKeyUnseparated(params) ==
  params.Username \o <<":", params.Format, ":">> \o Spelled(params.ExcludeWords, <<>>)
    \o <<":", IF params.ExcludeCaseSensitive THEN "1" ELSE "0">>

buildCacheKey(params) ==
  params.Username \o <<":", params.Format, ":">> \o Spelled(params.ExcludeWords, <<"|">>)
    \o <<":", IF params.ExcludeCaseSensitive THEN "1" ELSE "0">>

==============================================================================
