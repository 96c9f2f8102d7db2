------------------------------ MODULE UrlOrder ------------------------------
(***************************************************************************)
(* The BaseURLs of one channel index as warmup/url_manager.go orders them. *)
(* The manager keeps a list of states per channel index, matches it with   *)
(* the configured URLs whenever a request asks for the order, and hears of *)
(* successes and failures later, when the configuration may have changed   *)
(* or another channel may have moved to the index.                         *)
(***************************************************************************)
EXTENDS Naturals, Sequences, FiniteSets

CONSTANTS
  Urls,       \* BaseURLs, each once in a list (GetAllBaseURLs removes duplicates)
  MaxUrls,    \* bound: the length of a list
  Askers,     \* requests in flight on the channel
  Cooldown,   \* failureCooldown, in ticks
  MaxFails    \* bound: failures counted for a URL

ASSUME UrlOrderAssumption ==
  Urls # {} /\ MaxUrls \in Nat /\ Cooldown \in Nat \ {0} /\ MaxFails \in Nat \ {0}

UrlLists == {list \in UNION {[1..n -> Urls] : n \in 1..MaxUrls} :
               Cardinality({list[i] : i \in DOMAIN list}) = Len(list)}

(* A state of a URL is [url, originalIdx, failCount, age]; age is the time  *)
(* since lastFailTime, counted up to the cooldown.                          *)

VARIABLES
  configured,  \* the channel's BaseURLs
  urlStates,   \* the list of the channel in channelStates, empty when there is none
  asked,       \* the list a request asked the order of
  served       \* the order it was given

urlVars == <<configured, urlStates, asked, served>>

UrlsInit ==
  /\ configured \in UrlLists
  /\ urlStates = << >>
  /\ asked = [a \in Askers |-> << >>]
  /\ served = [a \in Askers |-> << >>]

-----------------------------------------------------------------------------
Cooling(u) == u.failCount > 0 /\ u.age < Cooldown

(* The rules of sortURLs, one class after the other.                        *)
Class(u) == IF u.failCount = 0 THEN 1 ELSE IF Cooling(u) THEN 3 ELSE 2

Less(u, v) ==
  \/ Class(u) < Class(v)
  \/ /\ Class(u) = 1 /\ Class(v) = 1
     /\ u.originalIdx < v.originalIdx
  \/ /\ Class(u) = 2 /\ Class(v) = 2
     /\ \/ u.failCount < v.failCount
        \/ u.failCount = v.failCount /\ u.originalIdx < v.originalIdx
  \/ /\ Class(u) = 3 /\ Class(v) = 3
     /\ u.age > v.age

(* SliceStable: what the rules leave open stays as it was.                  *)
SortURLs(list) ==
  LET Before(i, j) == Less(list[i], list[j]) \/ (~Less(list[j], list[i]) /\ i < j)
      Rank(i)      == Cardinality({j \in DOMAIN list : Before(j, i)}) + 1
  IN  [n \in DOMAIN list |-> list[CHOOSE i \in DOMAIN list : Rank(i) = n]]

Fresh(urls) ==
  [i \in DOMAIN urls |-> [url |-> urls[i], originalIdx |-> i, failCount |-> 0, age |-> Cooldown]]

(* Mutant: only the lengths are compared.                                   *)
UrlsMatchInLength(states, urls) == Len(states) = Len(urls)

(* The set is compared, not the order.                                      *)
UrlsMatch(states, urls) ==
  /\ Len(states) = Len(urls)
  /\ \A i \in DOMAIN states : \E j \in DOMAIN urls : urls[j] = states[i].url

EnsureChannelState(urls) == IF UrlsMatch(urlStates, urls) THEN urlStates ELSE Fresh(urls)

Results(list) == [i \in DOMAIN list |-> [url |-> list[i].url, success |-> ~Cooling(list[i])]]

(* A list of one URL is answered without a state.                           *)
GetSortedURLs(a) ==
  /\ asked[a] = << >>
  /\ asked' = [asked EXCEPT ![a] = configured]
  /\ IF Len(configured) = 1
     THEN /\ served' = [served EXCEPT ![a] = <<[url |-> configured[1], success |-> TRUE]>>]
          /\ UNCHANGED urlStates
     ELSE /\ urlStates' = SortURLs(EnsureChannelState(configured))
          /\ served' = [served EXCEPT ![a] = Results(urlStates')]
  /\ UNCHANGED configured

(* A URL the list no longer has is ignored.                                 *)
Mark(a, Marked(_)) ==
  /\ \E i \in DOMAIN served[a] :
       urlStates' = SortURLs([j \in DOMAIN urlStates |->
                       IF urlStates[j].url = served[a][i].url THEN Marked(urlStates[j])
                                                              ELSE urlStates[j]])
  /\ UNCHANGED <<configured, asked, served>>

MarkSuccess(a) == LET Good(u) == [u EXCEPT !.failCount = 0] IN Mark(a, Good)

MarkFailure(a) ==
  LET Bad(u) == [u EXCEPT !.failCount = IF u.failCount < MaxFails THEN u.failCount + 1
                                                                   ELSE u.failCount,
                          !.age = 0]
  IN  Mark(a, Bad)

RequestEnds(a) ==
  /\ asked[a] # << >>
  /\ asked' = [asked EXCEPT ![a] = << >>]
  /\ served' = [served EXCEPT ![a] = << >>]
  /\ UNCHANGED <<configured, urlStates>>

(* Console, file or a deletion that shifts another channel to the index.    *)
Reconfigure ==
  /\ configured' \in UrlLists
  /\ UNCHANGED <<urlStates, asked, served>>

UrlTick ==
  /\ urlStates' = [i \in DOMAIN urlStates |->
                     [urlStates[i] EXCEPT !.age = IF @ < Cooldown THEN @ + 1 ELSE @]]
  /\ UNCHANGED <<configured, asked, served>>

UrlsNext ==
  \/ \E a \in Askers : GetSortedURLs(a) \/ MarkSuccess(a) \/ MarkFailure(a) \/ RequestEnds(a)
  \/ Reconfigure \/ UrlTick

UrlsSpec == UrlsInit /\ [][UrlsNext]_urlVars

-----------------------------------------------------------------------------
(* Properties *)

(* A request tries exactly the URLs its channel has, each once, whatever    *)
(* the index was used for before, and those in their cooldown come last.    *)
UrlsServed ==
  \A a \in Askers :
    LET order == served[a]
    IN  /\ Len(order) = Len(asked[a])
        /\ {order[i].url : i \in DOMAIN order} = {asked[a][i] : i \in DOMAIN asked[a]}
        /\ \A i, j \in DOMAIN order : i < j /\ order[j].success => order[i].success
=============================================================================
