-------------------------- MODULE AccessKeysProofs --------------------------
(***************************************************************************)
(* For any number of handlers, keys and rotations, and any lifetimes and   *)
(* timeouts, a token is admitted on a key that was published recently: the *)
(* inductive invariant AccessInv dates what is in the cache and what is on *)
(* its way to it.  And a good token is refused only for a cause: CauseInv  *)
(* says where its key is while it is published.                            *)
(***************************************************************************)
EXTENDS AccessKeys, TLAPS

(* k was published at time t or later. *)
PublishedSince(k, t) == k \in published \/ (withdrawn[k] # Never /\ withdrawn[k] >= t)

(* A cached key was published within a lifetime and a fetch of keysUntil.   *)
CacheOK ==
  /\ keysUntil <= clock + MaxTTL
  /\ \A k \in keys : PublishedSince(k, keysUntil - (MaxTTL + FetchTimeout))

FetchTime(n) == CASE n = 0 -> 0
                  [] n = 1 -> FetchTimeout
                  [] n = 2 -> FetchTimeout + FetchTimeout
                  [] OTHER -> 3 * FetchTimeout

(* The token of a handler at work was in order when it came, and what has   *)
(* passed since then are the fetches of the handler.                        *)
TokenOK(h) ==
  /\ h.token \in Tokens /\ h.token.sound
  /\ clock + Skew >= h.token.nbf
  /\ h.at = "fetching" => h.deadline <= h.token.exp + Skew + FetchTime(h.fetches)
  /\ h.at # "fetching" => clock <= h.token.exp + Skew + FetchTime(h.fetches)

(* A fetch lasts FetchTimeout, brings the keys of a moment within it, and   *)
(* what it puts into the cache is fresh when the handler looks again.       *)
ProgressOK(h) ==
  /\ h.at = "cached" => h.attempt = 0 /\ h.fetches = 0
  /\ h.at \in {"fetching", "reread"} => h.fetches \in 1 .. h.attempt
  /\ h.at = "fetching" =>
       /\ clock <= h.deadline /\ h.deadline <= clock + FetchTimeout
       /\ \A k \in h.document : PublishedSince(k, h.deadline - FetchTimeout)
  /\ h.at = "reread" => clock < keysUntil

Busy == {"cached", "fetching", "reread"}
HandlersOK ==
  \A r \in Requests : ProgressOK(handler[r]) /\ (handler[r].at \in Busy => TokenOK(handler[r]))

AccessInv == TypeOK /\ CacheOK /\ HandlersOK

-----------------------------------------------------------------------------
LEMMA Parameters ==
  /\ MaxTTL \in Nat \ {0} /\ FetchTimeout \in Nat \ {0} /\ DefaultTTL \in Nat \ {0}
  /\ DefaultTTL <= MaxTTL
  /\ Skew \in Nat /\ MaxTime \in Nat /\ MaxRotations \in Nat
  /\ \A t \in Tokens : t.nbf \in Nat /\ t.exp \in Nat
  /\ NoToken \notin Tokens
  /\ \A S \in KeySets : S \subseteq Keys /\ S # {}
<1>1. /\ MaxTTL \in Nat \ {0} /\ FetchTimeout \in Nat \ {0} /\ DefaultTTL \in Nat \ {0}
      /\ DefaultTTL <= MaxTTL
  BY AccessKeysAssumption DEF AccessKeysAssumption
<1>2. Skew \in Nat /\ MaxTime \in Nat /\ MaxRotations \in Nat
  BY AccessKeysAssumption DEF AccessKeysAssumption
<1>3. (\A t \in Tokens : t.nbf \in Nat /\ t.exp \in Nat) /\ NoToken \notin Tokens
  BY AccessKeysAssumption DEF AccessKeysAssumption
<1>4. KeySets \subseteq (SUBSET Keys) \ {{}}
  BY AccessKeysAssumption DEF AccessKeysAssumption
<1> QED BY <1>1, <1>2, <1>3, <1>4

LEMMA LifetimeBounds ==
  ASSUME NEW age \in Ages
  PROVE  Lifetime(age) \in 1 .. MaxTTL
<1>1. age \in Nat
  BY AccessKeysAssumption DEF AccessKeysAssumption
<1> QED BY <1>1, Parameters DEF Lifetime

LEMMA FetchTimes ==
  ASSUME NEW n \in 0 .. 3
  PROVE  /\ FetchTime(n) \in Nat
         /\ FetchTime(n) <= 3 * FetchTimeout
         /\ n # 3 => FetchTime(n + 1) = FetchTime(n) + FetchTimeout
<1>1. n = 0 \/ n = 1 \/ n = 2 \/ n = 3
  OBVIOUS
<1> QED BY <1>1, Parameters DEF FetchTime

LEMMA RestingFacts ==
  ASSUME NEW place \in {"idle", "cached", "admitted", "denied"}
  PROVE  /\ Resting(place) \in Handlers
         /\ Resting(place).at = place /\ Resting(place).attempt = 0
         /\ Resting(place).fetches = 0
  BY DEF Resting, Handlers, Attempts

(* A request that starts a fetch in time: the deadline is in time, too. *)
LEMMA FetchStarts ==
  ASSUME TypeOK, NEW h \in Handlers, NEW attempt \in 1 .. 3,
         h.fetches < attempt,
         h.token \in Tokens, h.token.sound, clock + Skew >= h.token.nbf,
         clock <= h.token.exp + Skew + FetchTime(h.fetches)
  PROVE  LET f == Fetch(h, attempt)
         IN  f \in Handlers /\ f.at = "fetching" /\ ProgressOK(f) /\ TokenOK(f)
<1> DEFINE f == Fetch(h, attempt)
<1>1. h.fetches \in 0 .. 2 /\ clock \in Nat
  BY Parameters DEF Handlers, TypeOK
<1>2. /\ f \in Handlers
      /\ f.at = "fetching" /\ f.attempt = attempt /\ f.document = {}
      /\ f.deadline = clock + FetchTimeout /\ f.fetches = h.fetches + 1
      /\ f.token = h.token
  <2>1. clock + FetchTimeout \in Nat /\ h.fetches + 1 \in 0 .. 3 /\ attempt \in 0 .. 3
    BY <1>1, Parameters
  <2>2. f \in Handlers
    BY <2>1 DEF Fetch, Handlers, Attempts
  <2>3. /\ f.at = "fetching" /\ f.attempt = attempt /\ f.document = {}
        /\ f.deadline = clock + FetchTimeout /\ f.fetches = h.fetches + 1
        /\ f.token = h.token
    BY DEF Fetch, Handlers
  <2> QED BY <2>2, <2>3
<1> HIDE DEF f
<1>3. ProgressOK(f)
  BY <1>1, <1>2, Parameters DEF ProgressOK
<1>4. TokenOK(f)
  <2>1. FetchTime(f.fetches) = FetchTime(h.fetches) + FetchTimeout
        /\ FetchTime(h.fetches) \in Nat
    BY <1>1, <1>2, FetchTimes
  <2> QED BY <1>1, <1>2, <2>1, Parameters DEF TokenOK
<1> QED BY <1>2, <1>3, <1>4 DEF f

(* What a handler does with the key it finds, and without one. *)
InOrder(h) ==
  /\ h \in Handlers /\ ProgressOK(h)
  /\ h.at \in Busy => TokenOK(h)

LEMMA DecisionsAreInOrder ==
  ASSUME TypeOK, NEW h \in Handlers, h.at \in Busy,
         h.token \in Tokens, h.token.sound, clock + Skew >= h.token.nbf,
         clock <= h.token.exp + Skew + FetchTime(h.fetches),
         h.fetches <= h.attempt
  PROVE  /\ InOrder(AfterNoKey(h)) /\ AfterNoKey(h).at # "admitted"
         /\ \A k : /\ InOrder(AfterKey(h, k))
                   /\ AfterKey(h, k).at = "admitted" => Fits(h, k)
<1>1. /\ InOrder(Denied) /\ Denied.at = "denied"
      /\ InOrder(Admitted) /\ Admitted.at = "admitted"
  BY RestingFacts DEF InOrder, Denied, Admitted, ProgressOK, Busy
<1>2. h.attempt \in 0 .. 3 /\ h.fetches \in 0 .. 3
  BY DEF Handlers, Attempts
<1>3. h.attempt = 1 => InOrder(Fetch(h, 2)) /\ Fetch(h, 2).at = "fetching"
  BY <1>2, FetchStarts DEF InOrder, Busy
<1>4. h.attempt # 3 => InOrder(Fetch(h, 3)) /\ Fetch(h, 3).at = "fetching"
  BY <1>2, FetchStarts DEF InOrder, Busy
<1>5. InOrder(AfterNoKey(h)) /\ AfterNoKey(h).at # "admitted"
  BY <1>1, <1>3 DEF AfterNoKey
<1>6. ASSUME NEW k
      PROVE  /\ InOrder(AfterKey(h, k))
             /\ AfterKey(h, k).at = "admitted" => Fits(h, k)
  <2>1. Fits(h, k) \in BOOLEAN
    BY DEF Fits, Handlers
  <2>2. CASE Fits(h, k)
    BY <1>1, <2>2 DEF AfterKey
  <2>3. CASE ~ Fits(h, k) /\ (h.attempt = 3 \/ ~ h.token.encoded)
    BY <1>1, <2>3 DEF AfterKey
  <2>4. CASE ~ Fits(h, k) /\ ~ (h.attempt = 3 \/ ~ h.token.encoded)
    BY <1>4, <2>4 DEF AfterKey
  <2> QED BY <2>2, <2>3, <2>4
<1> QED BY <1>5, <1>6

-----------------------------------------------------------------------------
(* A step of one handler that leaves the cache and the published keys alone. *)
LEMMA OneHandlerStep ==
  ASSUME AccessInv, NEW r \in Requests, NEW h, InOrder(h),
         handler' = [handler EXCEPT ![r] = h], UNCHANGED <<outside, cache>>
  PROVE  AccessInv'
<1>1. UNCHANGED <<clock, published, withdrawn, rotations, keys, keysUntil>>
  BY DEF outside, cache
<1>2. /\ handler' \in [Requests -> Handlers]
      /\ \A q \in Requests : handler'[q] = IF q = r THEN h ELSE handler[q]
  BY DEF AccessInv, TypeOK, InOrder
<1>3. \A q \in Requests : InOrder(handler'[q])
  BY <1>2 DEF AccessInv, TypeOK, HandlersOK, InOrder
<1>4. HandlersOK'
  BY <1>1, <1>3 DEF HandlersOK, InOrder, ProgressOK, TokenOK, PublishedSince
<1>5. TypeOK'
  BY <1>1, <1>2, <1>3 DEF AccessInv, TypeOK, InOrder, ProgressOK
<1>6. CacheOK'
  BY <1>1 DEF AccessInv, CacheOK, PublishedSince
<1> QED BY <1>4, <1>5, <1>6 DEF AccessInv

LEMMA HandlerFacts ==
  ASSUME AccessInv, NEW r \in Requests, handler[r].at \in Busy
  PROVE  LET h == handler[r]
         IN  /\ h \in Handlers /\ h.token \in Tokens /\ h.token.sound
             /\ clock + Skew >= h.token.nbf
             /\ clock <= h.token.exp + Skew + FetchTime(h.fetches)
             /\ h.fetches \in 0 .. 3 /\ h.fetches <= h.attempt
             /\ h.attempt \in 0 .. 3
             /\ clock \in Nat
<1> DEFINE h == handler[r]
<1>1. /\ h \in Handlers /\ ProgressOK(h) /\ TokenOK(h) /\ clock \in Nat
      /\ h.at \in Busy
  BY DEF AccessInv, TypeOK, HandlersOK
<1> HIDE DEF h
<1>2. h.fetches \in 0 .. 3 /\ h.attempt \in 0 .. 3 /\ h.deadline \in Nat
  BY <1>1 DEF Handlers, Attempts
<1>3. h.fetches <= h.attempt
  BY <1>1, <1>2 DEF ProgressOK, Busy
<1>4. clock <= h.token.exp + Skew + FetchTime(h.fetches)
  BY <1>1, <1>2, FetchTimes, Parameters DEF ProgressOK, TokenOK
<1> QED BY <1>1, <1>2, <1>3, <1>4 DEF TokenOK, h

LEMMA InitEstablishesInv == Init => AccessInv
<1> SUFFICES ASSUME Init PROVE AccessInv
  OBVIOUS
<1>1. Resting("idle") \in Handlers /\ Resting("idle").at = "idle"
  BY RestingFacts
<1>2. TypeOK
  BY <1>1, Parameters DEF Init, TypeOK, Never
<1>3. CacheOK /\ HandlersOK
  BY <1>1, Parameters DEF Init, CacheOK, HandlersOK, ProgressOK, Busy
<1> QED BY <1>2, <1>3 DEF AccessInv

-----------------------------------------------------------------------------
LEMMA ArriveStep == ASSUME AccessInv, NEW r \in Requests, Arrive(r) PROVE AccessInv'
<1>1. PICK t \in Tokens \cup {NoToken} :
        handler' = [handler EXCEPT ![r] =
          IF t # NoToken /\ ClaimsHold(t)
          THEN [Resting("cached") EXCEPT !.token = t, !.steady = t.signer \in published]
          ELSE Denied]
  BY DEF Arrive
<1>2. UNCHANGED <<outside, cache>>
  BY DEF Arrive
<1>3. InOrder(Denied)
  BY RestingFacts DEF InOrder, Denied, ProgressOK, Busy
<1>4. ASSUME t # NoToken, ClaimsHold(t)
      PROVE  InOrder([Resting("cached") EXCEPT !.token = t, !.steady = t.signer \in published])
  <2> DEFINE h == [Resting("cached") EXCEPT !.token = t, !.steady = t.signer \in published]
  <2>1. (t.signer \in published) \in BOOLEAN
    OBVIOUS
  <2>2. /\ h \in Handlers /\ h.at = "cached" /\ h.attempt = 0 /\ h.fetches = 0
        /\ h.token = t
    <3>1. /\ Resting("cached") \in Handlers /\ Resting("cached").at = "cached"
          /\ Resting("cached").attempt = 0 /\ Resting("cached").fetches = 0
      BY RestingFacts
    <3> QED BY <2>1, <3>1 DEF Handlers
  <2> HIDE DEF h
  <2>3. TokenOK(h)
    <3>1. FetchTime(0) = 0
      BY DEF FetchTime
    <3>2. t \in Tokens /\ t.exp \in Nat /\ t.nbf \in Nat /\ clock \in Nat
      BY <1>4, Parameters DEF AccessInv, TypeOK
    <3> QED BY <1>4, <2>2, <3>1, <3>2, Parameters DEF TokenOK, ClaimsHold
  <2>4. ProgressOK(h)
    BY <2>2 DEF ProgressOK
  <2> QED BY <2>2, <2>3, <2>4 DEF InOrder, h
<1> QED BY <1>1, <1>2, <1>3, <1>4, OneHandlerStep

(* The handler looks for its key: it is refused, or fetches, or is admitted *)
(* by the key that signed its token.                                        *)
LEMMA LookupFacts ==
  ASSUME AccessInv, NEW r \in Requests, handler[r].at \in Busy, Named(r) # {}
  PROVE  /\ InOrder(WithKey(r))
         /\ WithKey(r).at = "admitted" =>
              handler[r].token.signer \in keys /\ handler[r].token.encoded
<1>1. PICK k \in Named(r) : WithKey(r) = AfterKey(handler[r], k)
  BY DEF WithKey
<1>2. k \in keys
  BY DEF Named
<1>3. /\ InOrder(AfterKey(handler[r], k))
      /\ AfterKey(handler[r], k).at = "admitted" => Fits(handler[r], k)
  BY HandlerFacts, DecisionsAreInOrder DEF AccessInv
<1> QED BY <1>1, <1>2, <1>3 DEF Fits

LEMMA LookupStep ==
  ASSUME AccessInv, NEW r \in Requests, ReadCache(r) \/ Reread(r)
  PROVE  /\ AccessInv'
         /\ handler'[r].at = "admitted" =>
              /\ handler[r].token.signer \in keys /\ handler[r].token.encoded
              /\ clock < keysUntil
<1>1. /\ UNCHANGED <<outside, cache>> /\ handler[r].at \in {"cached", "reread"}
      /\ handler \in [Requests -> Handlers] /\ ProgressOK(handler[r]) /\ TypeOK
  BY DEF ReadCache, Reread, AccessInv, TypeOK, HandlersOK
<1>2. CASE ReadCache(r)
  <2>1. CASE Hit(r)
    <3>1. handler' = [handler EXCEPT ![r] = WithKey(r)]
      BY <1>2, <2>1 DEF ReadCache
    <3>2. Named(r) # {} /\ clock < keysUntil
      BY <2>1 DEF Hit
    <3> QED BY <1>1, <3>1, <3>2, LookupFacts, OneHandlerStep DEF Busy
  <2>2. CASE ~ Hit(r)
    <3>1. handler' = [handler EXCEPT ![r] = Fetch(handler[r], 1)]
      BY <1>2, <2>2 DEF ReadCache
    <3>2. handler[r].at = "cached" /\ handler[r].fetches = 0
      BY <1>1, <1>2 DEF ReadCache, ProgressOK
    <3>3. InOrder(Fetch(handler[r], 1)) /\ Fetch(handler[r], 1).at = "fetching"
      BY <1>1, <3>2, HandlerFacts, FetchStarts DEF InOrder, Busy
    <3> QED BY <1>1, <3>1, <3>3, OneHandlerStep
  <2> QED BY <2>1, <2>2
<1>3. CASE Reread(r)
  <2>1. clock < keysUntil
    BY <1>1, <1>3 DEF Reread, ProgressOK
  <2>2. CASE Named(r) # {}
    <3>1. handler' = [handler EXCEPT ![r] = WithKey(r)]
      BY <1>3, <2>2 DEF Reread
    <3> QED BY <1>1, <2>1, <2>2, <3>1, LookupFacts, OneHandlerStep DEF Busy
  <2>3. CASE Named(r) = {}
    <3>1. handler' = [handler EXCEPT ![r] = AfterNoKey(handler[r])]
      BY <1>3, <2>3 DEF Reread
    <3>2. InOrder(AfterNoKey(handler[r])) /\ AfterNoKey(handler[r]).at # "admitted"
      BY <1>1, HandlerFacts, DecisionsAreInOrder DEF Busy
    <3> QED BY <1>1, <3>1, <3>2, OneHandlerStep
  <2> QED BY <2>2, <2>3
<1> QED BY <1>2, <1>3

(* The response is made: its keys are published at that time. *)
LEMMA ServeStep == ASSUME AccessInv, NEW r \in Requests, Serve(r) PROVE AccessInv'
<1> DEFINE h == [handler[r] EXCEPT !.document = published]
<1>1. /\ handler' = [handler EXCEPT ![r] = h] /\ UNCHANGED <<outside, cache>>
      /\ handler[r].at = "fetching" /\ handler[r] \in Handlers /\ published \in KeySets
      /\ ProgressOK(handler[r]) /\ TokenOK(handler[r])
  BY DEF Serve, AccessInv, TypeOK, HandlersOK, Busy
<1>2. /\ h \in Handlers /\ h.at = "fetching" /\ h.document = published
      /\ h.token = handler[r].token /\ h.attempt = handler[r].attempt
      /\ h.fetches = handler[r].fetches /\ h.deadline = handler[r].deadline
  BY <1>1 DEF Handlers
<1> HIDE DEF h
<1>3. ProgressOK(h) /\ TokenOK(h)
  BY <1>1, <1>2 DEF ProgressOK, TokenOK, PublishedSince
<1> QED BY <1>1, <1>2, <1>3, OneHandlerStep DEF InOrder

LEMMA FetchErrorStep ==
  ASSUME AccessInv, NEW r \in Requests, FetchError(r)
  PROVE  AccessInv' /\ handler'[r].at # "admitted"
<1> DEFINE h == [handler[r] EXCEPT !.document = {}]
<1>1. /\ handler' = [handler EXCEPT ![r] = AfterNoKey(h)] /\ UNCHANGED <<outside, cache>>
      /\ handler[r].at = "fetching" /\ handler \in [Requests -> Handlers] /\ TypeOK
  BY DEF FetchError, AccessInv, TypeOK
<1>2. /\ h \in Handlers /\ h.at = "fetching"
      /\ h.token = handler[r].token /\ h.attempt = handler[r].attempt
      /\ h.fetches = handler[r].fetches
  BY <1>1 DEF Handlers
<1> HIDE DEF h
<1>3. InOrder(AfterNoKey(h)) /\ AfterNoKey(h).at # "admitted"
  BY <1>1, <1>2, HandlerFacts, DecisionsAreInOrder DEF Busy
<1> QED BY <1>1, <1>3, OneHandlerStep

(* The cache takes the keys of the response, however old they are by now. *)
LEMMA ApplyStep == ASSUME AccessInv, NEW r \in Requests, Apply(r) PROVE AccessInv'
<1>1. PICK age \in Ages : keysUntil' = clock + Lifetime(age)
  BY DEF Apply
<1>2. /\ UNCHANGED <<clock, published, withdrawn, rotations>>
      /\ keys' = handler[r].document /\ handler[r].document # {}
      /\ handler[r].at = "fetching"
      /\ handler \in [Requests -> Handlers] /\ clock \in Nat /\ TypeOK
      /\ ProgressOK(handler[r]) /\ TokenOK(handler[r])
  BY DEF Apply, outside, AccessInv, TypeOK, HandlersOK, Busy
<1>3. /\ keysUntil' \in Nat /\ clock < keysUntil' /\ keysUntil' <= clock + MaxTTL
  BY <1>1, <1>2, LifetimeBounds, Parameters
<1>4. ASSUME NEW q \in Requests
      PROVE  /\ handler'[q] \in Handlers
             /\ handler'[q].token = handler[q].token
             /\ handler'[q].attempt = handler[q].attempt
             /\ handler'[q].fetches = handler[q].fetches
             /\ handler'[q].deadline = handler[q].deadline
             /\ q = r => handler'[q].at = "reread"
             /\ q # r => handler'[q].at = handler[q].at
                         /\ handler'[q].document = handler[q].document
  <2>1. handler[q] \in Handlers
    BY <1>2
  <2>2. CASE q = r
    <3>1. handler'[q] = [handler[q] EXCEPT !.at = "reread", !.overtaken = FALSE,
                                           !.document = {}]
      BY <2>2 DEF Apply
    <3> QED BY <2>1, <2>2, <3>1 DEF Handlers
  <2>3. CASE q # r
    <3>1. handler'[q] = [handler[q] EXCEPT !.overtaken = @ \/ handler[q].at = "reread"]
      BY <2>3 DEF Apply
    <3> QED BY <2>1, <2>3, <3>1 DEF Handlers
  <2> QED BY <2>2, <2>3
<1>5. handler' \in [Requests -> Handlers]
  BY <1>4 DEF Apply
<1>6. CacheOK'
  <2>1. ASSUME NEW k \in keys' PROVE PublishedSince(k, keysUntil - (MaxTTL + FetchTimeout))'
    <3>1. PublishedSince(k, handler[r].deadline - FetchTimeout)
      BY <1>2, <2>1 DEF ProgressOK
    <3>2. /\ handler[r].deadline \in Nat /\ clock <= handler[r].deadline
          /\ withdrawn[k] \in Int
      BY <1>2, <2>1, Parameters DEF Handlers, ProgressOK, TypeOK, Never
    <3>3. keysUntil' - (MaxTTL + FetchTimeout) <= handler[r].deadline - FetchTimeout
      BY <1>2, <1>3, <3>2, Parameters
    <3>4. keysUntil' - (MaxTTL + FetchTimeout) \in Int
          /\ handler[r].deadline - FetchTimeout \in Int
      BY <1>3, <3>2, Parameters
    <3> QED BY <1>2, <3>1, <3>2, <3>3, <3>4 DEF PublishedSince
  <2> QED BY <1>2, <1>3, <2>1 DEF CacheOK
<1>7. HandlersOK'
  <2>1. ASSUME NEW q \in Requests, q # r
        PROVE  ProgressOK(handler[q])' /\ (handler'[q].at \in Busy => TokenOK(handler[q])')
    BY <1>2, <1>3, <1>4, <2>1
       DEF AccessInv, HandlersOK, ProgressOK, TokenOK, PublishedSince, Busy
  <2>2. ProgressOK(handler[r])'
    BY <1>2, <1>3, <1>4 DEF ProgressOK
  <2>3. TokenOK(handler[r])'
    BY <1>2, <1>4, HandlerFacts DEF TokenOK, Busy
  <2> QED BY <2>1, <2>2, <2>3 DEF HandlersOK
<1>8. TypeOK'
  <2>1. ASSUME NEW q \in Requests, handler'[q].at = "fetching"
        PROVE  clock' <= handler'[q].deadline
    BY <1>2, <1>4, <2>1 DEF TypeOK
  <2>2. keys' \in KeySets \cup {{}}
    BY <1>2 DEF Handlers
  <2> QED BY <1>2, <1>3, <1>5, <2>1, <2>2 DEF TypeOK
<1> QED BY <1>6, <1>7, <1>8 DEF AccessInv

(* Cloudflare takes keys back now, and now is recent enough for every date. *)
LEMMA RotateStep == ASSUME AccessInv, NEW S \in KeySets, Rotate(S) PROVE AccessInv'
<1>1. /\ UNCHANGED <<clock, keys, keysUntil>>
      /\ published' = S /\ rotations' \in 0 .. MaxRotations
      /\ withdrawn' = [k \in Keys |-> IF k \in published \ S THEN clock ELSE withdrawn[k]]
      /\ handler \in [Requests -> Handlers] /\ clock \in 0 .. MaxTime /\ clock \in Nat
      /\ TypeOK
  BY Parameters DEF Rotate, cache, AccessInv, TypeOK
<1>2. ASSUME NEW r \in Requests
      PROVE  /\ handler'[r] \in Handlers
             /\ handler'[r].at = handler[r].at
             /\ handler'[r].token = handler[r].token
             /\ handler'[r].attempt = handler[r].attempt
             /\ handler'[r].fetches = handler[r].fetches
             /\ handler'[r].deadline = handler[r].deadline
             /\ handler'[r].document = handler[r].document
  <2>1. handler[r] \in Handlers
    BY <1>1
  <2>2. handler'[r] = [handler[r] EXCEPT !.steady = @ /\ handler[r].token.signer \in S]
    BY DEF Rotate
  <2> QED BY <2>1, <2>2 DEF Handlers
<1>3. handler' \in [Requests -> Handlers]
  BY <1>2 DEF Rotate
<1>4. ASSUME NEW k \in Keys, NEW t \in Int, t <= clock, PublishedSince(k, t)
      PROVE  PublishedSince(k, t)'
  BY <1>1, <1>4 DEF PublishedSince, Never
<1>5. TypeOK'
  BY <1>1, <1>2, <1>3 DEF TypeOK, Never
<1>6. CacheOK'
  <2>1. keys \subseteq Keys /\ keysUntil \in Nat /\ keysUntil <= clock + MaxTTL
    BY <1>1, Parameters DEF AccessInv, TypeOK, CacheOK
  <2>2. keysUntil - (MaxTTL + FetchTimeout) \in Int
        /\ keysUntil - (MaxTTL + FetchTimeout) <= clock
    BY <1>1, <2>1, Parameters
  <2>3. \A k \in keys : PublishedSince(k, keysUntil - (MaxTTL + FetchTimeout))'
    <3>1. ASSUME NEW k \in keys
          PROVE  PublishedSince(k, keysUntil - (MaxTTL + FetchTimeout))'
      <4>1. PublishedSince(k, keysUntil - (MaxTTL + FetchTimeout))
        BY DEF AccessInv, CacheOK
      <4> QED BY <1>1, <2>1, <2>2, <4>1 DEF PublishedSince, Never
    <3> QED BY <3>1
  <2> QED BY <1>1, <2>1, <2>3 DEF CacheOK
<1>7. HandlersOK'
  <2>1. ASSUME NEW r \in Requests PROVE ProgressOK(handler[r])'
    <3>1. ProgressOK(handler[r]) /\ handler[r].deadline \in Nat
      BY <1>1 DEF AccessInv, HandlersOK, Handlers
    <3>2. CASE handler[r].at = "fetching"
      <4>1. /\ handler[r].document \subseteq Keys
            /\ handler[r].deadline - FetchTimeout \in Int
            /\ handler[r].deadline - FetchTimeout <= clock
        BY <1>1, <3>1, <3>2, Parameters DEF ProgressOK, Handlers
      <4>2. ASSUME NEW k \in handler[r].document
            PROVE  /\ k \in Keys
                   /\ PublishedSince(k, handler[r].deadline - FetchTimeout)
        BY <3>1, <3>2, <4>1 DEF ProgressOK
      <4>3. ASSUME NEW k \in handler'[r].document
            PROVE  PublishedSince(k, handler[r].deadline - FetchTimeout)'
        BY <1>1, <1>2, <4>1, <4>2 DEF PublishedSince, Never
      <4> QED BY <1>1, <1>2, <3>1, <3>2, <4>3 DEF ProgressOK
    <3>3. CASE handler[r].at # "fetching"
      BY <1>1, <1>2, <3>1, <3>3 DEF ProgressOK
    <3> QED BY <3>2, <3>3
  <2>2. ASSUME NEW r \in Requests, handler'[r].at \in Busy PROVE TokenOK(handler[r])'
    BY <1>1, <1>2, <2>2 DEF AccessInv, HandlersOK, TokenOK
  <2> QED BY <2>1, <2>2 DEF HandlersOK
<1> QED BY <1>5, <1>6, <1>7 DEF AccessInv

(* Time passes only in fetches that are not over. *)
LEMMA TickStep == ASSUME AccessInv, Tick PROVE AccessInv'
<1>1. /\ UNCHANGED <<published, withdrawn, rotations, keys, keysUntil, handler>>
      /\ clock' = clock + 1 /\ clock' \in 0 .. MaxTime /\ clock \in Nat
      /\ \A r \in Requests : /\ handler[r].at \notin {"cached", "reread"}
                             /\ handler[r].at = "fetching" => clock < handler[r].deadline
      /\ handler \in [Requests -> Handlers] /\ TypeOK /\ keysUntil \in Nat
  BY Parameters DEF Tick, cache, AccessInv, TypeOK
<1>2. \A r \in Requests : handler[r].deadline \in Nat
  BY <1>1 DEF Handlers
<1>3. TypeOK'
  BY <1>1, <1>2 DEF TypeOK
<1>4. CacheOK'
  BY <1>1, Parameters DEF AccessInv, CacheOK, PublishedSince
<1>5. ASSUME NEW r \in Requests PROVE ProgressOK(handler[r])'
  BY <1>1, <1>2, Parameters DEF AccessInv, HandlersOK, ProgressOK, PublishedSince
<1>6. ASSUME NEW r \in Requests, handler'[r].at \in Busy PROVE TokenOK(handler[r])'
  <2>1. handler[r].at = "fetching" /\ TokenOK(handler[r])
    BY <1>1, <1>6 DEF AccessInv, HandlersOK, Busy
  <2> QED BY <1>1, <2>1, Parameters DEF TokenOK
<1> QED BY <1>3, <1>4, <1>5, <1>6 DEF AccessInv, HandlersOK

LEMMA NextKeepsInv == AccessInv /\ [Next]_vars => AccessInv'
<1> SUFFICES ASSUME AccessInv, [Next]_vars PROVE AccessInv'
  OBVIOUS
<1>1. ASSUME NEW r \in Requests,
             Arrive(r) \/ ReadCache(r) \/ Serve(r) \/ Apply(r) \/ FetchError(r) \/ Reread(r)
      PROVE  AccessInv'
  BY <1>1, ArriveStep, LookupStep, ServeStep, ApplyStep, FetchErrorStep
<1>2. ASSUME NEW S \in KeySets, Rotate(S) PROVE AccessInv'
  BY <1>2, RotateStep
<1>3. CASE Tick
  BY <1>3, TickStep
<1>4. CASE UNCHANGED vars
  <2>1. UNCHANGED <<clock, published, withdrawn, rotations, keys, keysUntil, handler>>
    BY <1>4 DEF vars
  <2> QED
    BY <2>1 DEF AccessInv, TypeOK, CacheOK, HandlersOK, ProgressOK, TokenOK, PublishedSince
<1> QED BY <1>1, <1>2, <1>3, <1>4 DEF Next

(* Every reachable state satisfies the inductive invariant. *)
THEOREM AccessInvHolds == Spec => []AccessInv
<1> QED BY InitEstablishesInv, NextKeepsInv, PTL DEF Spec

(* The cache holds one published key set or nothing, a request makes three  *)
(* fetches at most, and none outlasts its timeout.                          *)
THEOREM AccessTypeCorrect == Spec => []TypeOK
<1>1. AccessInv => TypeOK
  BY DEF AccessInv
<1> QED BY <1>1, AccessInvHolds, PTL

-----------------------------------------------------------------------------
(* Only a look at the cache admits anybody. *)
LEMMA OnlyLookupsAdmit ==
  ASSUME AccessInv, [Next]_vars, NEW r \in Requests,
         handler[r].at # "admitted", handler'[r].at = "admitted"
  PROVE  ReadCache(r) \/ Reread(r)
<1>1. handler \in [Requests -> Handlers]
  BY DEF AccessInv, TypeOK
<1>2. ASSUME NEW q \in Requests, q # r,
             Arrive(q) \/ ReadCache(q) \/ Serve(q) \/ FetchError(q) \/ Reread(q)
      PROVE  FALSE
  <2>1. handler'[r] = handler[r]
    BY <1>1, <1>2 DEF Arrive, ReadCache, Serve, FetchError, Reread
  <2> QED BY <2>1
<1>3. ASSUME Arrive(r) PROVE FALSE
  <2>1. Resting("cached") \in Handlers /\ Resting("cached").at = "cached"
        /\ Denied.at = "denied"
    BY RestingFacts DEF Denied
  <2>2. PICK t \in Tokens \cup {NoToken} :
          handler'[r] = IF t # NoToken /\ ClaimsHold(t)
                        THEN [Resting("cached") EXCEPT !.token = t,
                                                       !.steady = t.signer \in published]
                        ELSE Denied
    BY <1>1, <1>3 DEF Arrive
  <2>3. [Resting("cached") EXCEPT !.token = t, !.steady = t.signer \in published].at = "cached"
    BY <2>1 DEF Handlers
  <2> QED BY <2>1, <2>2, <2>3
<1>4. ASSUME Serve(r) PROVE FALSE
  <2>1. handler'[r] = [handler[r] EXCEPT !.document = published] /\ handler[r] \in Handlers
    BY <1>1, <1>4 DEF Serve
  <2>2. handler'[r].at = handler[r].at
    BY <2>1 DEF Handlers
  <2> QED BY <2>2
<1>5. ASSUME FetchError(r) PROVE FALSE
  BY <1>5, FetchErrorStep
<1>6. ASSUME NEW q \in Requests, Apply(q) PROVE FALSE
  <2>1. handler[r] \in Handlers
    BY <1>1
  <2>2. CASE q = r
    <3>1. handler'[r] = [handler[r] EXCEPT !.at = "reread", !.overtaken = FALSE,
                                           !.document = {}]
      BY <1>6, <2>2 DEF Apply
    <3>2. handler'[r].at = "reread"
      BY <2>1, <3>1 DEF Handlers
    <3> QED BY <3>2
  <2>3. CASE q # r
    <3>1. handler'[r] = [handler[r] EXCEPT !.overtaken = @ \/ handler[r].at = "reread"]
      BY <1>6, <2>3 DEF Apply
    <3>2. handler'[r].at = handler[r].at
      BY <2>1, <3>1 DEF Handlers
    <3> QED BY <3>2
  <2> QED BY <2>2, <2>3
<1>7. ASSUME NEW S \in KeySets, Rotate(S) PROVE FALSE
  <2>1. handler[r] \in Handlers
        /\ handler'[r] = [handler[r] EXCEPT !.steady = @ /\ handler[r].token.signer \in S]
    BY <1>1, <1>7 DEF Rotate
  <2>2. handler'[r].at = handler[r].at
    BY <2>1 DEF Handlers
  <2> QED BY <2>2
<1>8. ~ Tick /\ ~ UNCHANGED vars
  BY DEF Tick, vars
<1> QED BY <1>2, <1>3, <1>4, <1>5, <1>6, <1>7, <1>8 DEF Next

(* accessauth.Verify admits nobody on a key that was taken back more than a *)
(* cache lifetime and a fetch ago, in whatever order refreshes finish.      *)
THEOREM AdmissionsStayCurrent == Spec => AdmissionsAreCurrent
<1>1. ASSUME AccessInv, [Next]_vars, NEW r \in Requests,
             handler[r].at # "admitted", handler'[r].at = "admitted"
      PROVE  LET t == handler[r].token
             IN  /\ PublishedWithin(t.signer, MaxTTL + FetchTimeout)
                 /\ t.sound /\ t.encoded
                 /\ clock <= t.exp + Skew + 3 * FetchTimeout
                 /\ clock + Skew >= t.nbf
  <2> DEFINE h == handler[r]
             t == h.token
  <2>1. ReadCache(r) \/ Reread(r)
    BY <1>1, OnlyLookupsAdmit
  <2>2. t.signer \in keys /\ t.encoded /\ clock < keysUntil
    BY <1>1, <2>1, LookupStep
  <2>3. h.at \in Busy
    BY <2>1 DEF ReadCache, Reread, Busy
  <2>4. /\ t \in Tokens /\ t.sound /\ clock + Skew >= t.nbf
        /\ clock <= t.exp + Skew + FetchTime(h.fetches)
        /\ h.fetches \in 0 .. 3 /\ clock \in Nat
    BY <1>1, <2>3, HandlerFacts
  <2> HIDE DEF t, h
  <2>5. clock <= t.exp + Skew + 3 * FetchTimeout
    <3>1. FetchTime(h.fetches) \in Nat /\ FetchTime(h.fetches) <= 3 * FetchTimeout
          /\ t.exp \in Nat /\ Skew \in Nat /\ 3 * FetchTimeout \in Nat
      BY <2>4, FetchTimes, Parameters
    <3> QED BY <2>4, <3>1
  <2>6. PublishedWithin(t.signer, MaxTTL + FetchTimeout)
    <3>1. PublishedSince(t.signer, keysUntil - (MaxTTL + FetchTimeout))
      BY <1>1, <2>2 DEF AccessInv, CacheOK
    <3>2. t.signer \in Keys /\ withdrawn[t.signer] \in Int /\ keysUntil \in Nat
      BY <1>1, <2>2, Parameters DEF AccessInv, TypeOK, Never
    <3> QED BY <2>2, <2>4, <3>1, <3>2, Parameters DEF PublishedSince, PublishedWithin
  <2> QED BY <2>2, <2>4, <2>5, <2>6 DEF t, h
<1>2. AccessInv /\ [Next]_vars =>
        [\A r \in Requests :
           LET t == handler[r].token IN
           handler[r].at # "admitted" /\ handler'[r].at = "admitted" =>
             /\ PublishedWithin(t.signer, MaxTTL + FetchTimeout)
             /\ t.sound /\ t.encoded
             /\ clock <= t.exp + Skew + 3 * FetchTimeout
             /\ clock + Skew >= t.nbf]_vars
  BY <1>1
<1> QED BY <1>2, AccessInvHolds, PTL DEF Spec, AdmissionsAreCurrent

-----------------------------------------------------------------------------
(* Why a good token is refused.  As long as its signer stays published, the *)
(* signer is in what is fetched for the token, and in the cache until       *)
(* another handler replaces it.                                             *)
CauseOK(h) ==
  h.steady =>
    /\ h.token.signer \in published
    /\ h.at = "fetching" /\ h.document # {} => h.token.signer \in h.document
    /\ h.at = "reread" /\ ~ h.overtaken => h.token.signer \in keys

CauseInv == AccessInv /\ \A r \in Requests : CauseOK(handler[r])

LEMMA NewStatesHaveCauses ==
  ASSUME NEW h \in Handlers, CauseOK(h)
  PROVE  /\ CauseOK(Denied) /\ CauseOK(Admitted)
         /\ \A attempt : CauseOK(Fetch(h, attempt))
         /\ CauseOK(AfterNoKey(h)) /\ \A k : CauseOK(AfterKey(h, k))
<1>1. CauseOK(Denied) /\ CauseOK(Admitted)
  BY DEF CauseOK, Denied, Admitted, Resting
<1>2. ASSUME NEW attempt PROVE CauseOK(Fetch(h, attempt))
  <2> DEFINE f == Fetch(h, attempt)
  <2>1. f.token = h.token /\ f.steady = h.steady /\ f.at = "fetching" /\ f.document = {}
    BY DEF Fetch, Handlers
  <2> HIDE DEF f
  <2>2. CauseOK(f)
    BY <2>1 DEF CauseOK
  <2> QED BY <2>2 DEF f
<1>3. CauseOK(AfterNoKey(h))
  BY <1>1, <1>2 DEF AfterNoKey
<1>4. ASSUME NEW k PROVE CauseOK(AfterKey(h, k))
  <2>1. CASE Fits(h, k)
    BY <1>1, <2>1 DEF AfterKey
  <2>2. CASE ~ Fits(h, k) /\ (h.attempt = 3 \/ ~ h.token.encoded)
    BY <1>1, <2>2 DEF AfterKey
  <2>3. CASE ~ Fits(h, k) /\ ~ (h.attempt = 3 \/ ~ h.token.encoded)
    BY <1>2, <2>3 DEF AfterKey
  <2> QED BY <2>1, <2>2, <2>3
<1> QED BY <1>1, <1>2, <1>3, <1>4

LEMMA CausesPersist ==
  ASSUME CauseInv, NEW r \in Requests, NEW h, CauseOK(h),
         handler' = [handler EXCEPT ![r] = h], UNCHANGED <<outside, cache>>
  PROVE  \A q \in Requests : CauseOK(handler[q])'
<1>1. UNCHANGED <<published, keys>>
  BY DEF outside, cache
<1>2. \A q \in Requests : handler'[q] = IF q = r THEN h ELSE handler[q]
  BY DEF CauseInv, AccessInv, TypeOK
<1>3. \A q \in Requests : CauseOK(handler'[q])
  BY <1>2 DEF CauseInv
<1> QED BY <1>1, <1>3 DEF CauseOK

LEMMA LooksKeepCauses ==
  ASSUME CauseInv, NEW r \in Requests, ReadCache(r) \/ Reread(r) \/ FetchError(r)
  PROVE  \A q \in Requests : CauseOK(handler[q])'
<1>1. CauseOK(handler[r]) /\ handler[r] \in Handlers
  BY DEF CauseInv, AccessInv, TypeOK
<1>2. UNCHANGED <<outside, cache>>
  BY DEF ReadCache, Reread, FetchError
<1>3. CauseOK(WithKey(r)) /\ CauseOK(Fetch(handler[r], 1)) /\ CauseOK(AfterNoKey(handler[r]))
  BY <1>1, NewStatesHaveCauses DEF WithKey
<1>4. CauseOK(AfterNoKey([handler[r] EXCEPT !.document = {}]))
  <2> DEFINE h == [handler[r] EXCEPT !.document = {}]
  <2>1. /\ h \in Handlers /\ h.token = handler[r].token /\ h.steady = handler[r].steady
        /\ h.at = handler[r].at /\ h.overtaken = handler[r].overtaken /\ h.document = {}
    BY <1>1 DEF Handlers
  <2> HIDE DEF h
  <2>2. CauseOK(h)
    BY <1>1, <2>1 DEF CauseOK
  <2>3. CauseOK(AfterNoKey(h))
    BY <2>1, <2>2, NewStatesHaveCauses
  <2> QED BY <2>3 DEF h
<1>5. PICK h : handler' = [handler EXCEPT ![r] = h] /\ CauseOK(h)
  <2>1. CASE ReadCache(r)
    BY <1>3, <2>1 DEF ReadCache
  <2>2. CASE Reread(r)
    BY <1>3, <2>2 DEF Reread
  <2>3. CASE FetchError(r)
    BY <1>4, <2>3 DEF FetchError
  <2> QED BY <2>1, <2>2, <2>3
<1> QED BY <1>2, <1>5, CausesPersist

LEMMA ArrivalsHaveCauses ==
  ASSUME CauseInv, NEW r \in Requests, Arrive(r)
  PROVE  \A q \in Requests : CauseOK(handler[q])'
<1>1. PICK t \in Tokens \cup {NoToken} :
        handler' = [handler EXCEPT ![r] =
          IF t # NoToken /\ ClaimsHold(t)
          THEN [Resting("cached") EXCEPT !.token = t, !.steady = t.signer \in published]
          ELSE Denied]
  BY DEF Arrive
<1>2. UNCHANGED <<outside, cache>>
  BY DEF Arrive
<1> DEFINE h == [Resting("cached") EXCEPT !.token = t, !.steady = t.signer \in published]
<1>3. h.at = "cached" /\ h.token = t /\ (h.steady <=> t.signer \in published)
  <2>1. Resting("cached") \in Handlers /\ Resting("cached").at = "cached"
    BY RestingFacts
  <2> QED BY <2>1 DEF Handlers
<1>4. CauseOK(Denied)
  BY DEF CauseOK, Denied, Resting
<1>5. handler' = [handler EXCEPT ![r] = IF t # NoToken /\ ClaimsHold(t) THEN h ELSE Denied]
  BY <1>1
<1> HIDE DEF h
<1>6. CauseOK(h)
  BY <1>3 DEF CauseOK
<1> QED BY <1>2, <1>4, <1>5, <1>6, CausesPersist

(* The response has the signer, for it is published at that time. *)
LEMMA ResponsesHaveTheSigner ==
  ASSUME CauseInv, NEW r \in Requests, Serve(r)
  PROVE  \A q \in Requests : CauseOK(handler[q])'
<1> DEFINE h == [handler[r] EXCEPT !.document = published]
<1>1. /\ handler' = [handler EXCEPT ![r] = h] /\ UNCHANGED <<outside, cache>>
      /\ handler[r].at = "fetching" /\ handler[r] \in Handlers /\ CauseOK(handler[r])
  BY DEF Serve, CauseInv, AccessInv, TypeOK
<1>2. /\ h.at = "fetching" /\ h.document = published
      /\ h.token = handler[r].token /\ h.steady = handler[r].steady
  BY <1>1 DEF Handlers
<1> HIDE DEF h
<1>3. CauseOK(h)
  BY <1>1, <1>2 DEF CauseOK
<1> QED BY <1>1, <1>3, CausesPersist

LEMMA RefreshesHaveCauses ==
  ASSUME CauseInv, NEW r \in Requests, Apply(r)
  PROVE  \A q \in Requests : CauseOK(handler[q])'
<1>1. /\ published' = published /\ keys' = handler[r].document
      /\ handler[r].at = "fetching" /\ handler[r].document # {}
      /\ \A q \in Requests : handler[q] \in Handlers /\ CauseOK(handler[q])
  BY DEF Apply, outside, CauseInv, AccessInv, TypeOK
<1>2. CauseOK(handler[r])'
  <2>1. handler'[r] = [handler[r] EXCEPT !.at = "reread", !.overtaken = FALSE,
                                         !.document = {}]
    BY DEF Apply
  <2>2. /\ handler'[r].at = "reread" /\ handler'[r].token = handler[r].token
        /\ handler'[r].steady = handler[r].steady
    BY <1>1, <2>1 DEF Handlers
  <2> QED BY <1>1, <2>2 DEF CauseOK
<1>3. ASSUME NEW q \in Requests, q # r PROVE CauseOK(handler[q])'
  <2>1. handler'[q] = [handler[q] EXCEPT !.overtaken = @ \/ handler[q].at = "reread"]
    BY <1>3 DEF Apply
  <2>2. /\ handler'[q].at = handler[q].at /\ handler'[q].token = handler[q].token
        /\ handler'[q].steady = handler[q].steady
        /\ handler'[q].document = handler[q].document
        /\ handler[q].at = "reread" => handler'[q].overtaken
    BY <1>1, <2>1 DEF Handlers
  <2> QED BY <1>1, <2>2 DEF CauseOK
<1> QED BY <1>2, <1>3

LEMMA RotationsKeepCauses ==
  ASSUME CauseInv, NEW S \in KeySets, Rotate(S)
  PROVE  \A q \in Requests : CauseOK(handler[q])'
<1>1. /\ published' = S /\ keys' = keys
      /\ \A q \in Requests : handler[q] \in Handlers /\ CauseOK(handler[q])
  BY DEF Rotate, cache, CauseInv, AccessInv, TypeOK
<1>2. ASSUME NEW q \in Requests PROVE CauseOK(handler[q])'
  <2>1. handler'[q] = [handler[q] EXCEPT !.steady = @ /\ handler[q].token.signer \in S]
    BY DEF Rotate
  <2>2. /\ handler'[q].at = handler[q].at /\ handler'[q].token = handler[q].token
        /\ handler'[q].document = handler[q].document
        /\ handler'[q].overtaken = handler[q].overtaken
        /\ handler'[q].steady => handler[q].steady /\ handler[q].token.signer \in S
    BY <1>1, <2>1 DEF Handlers
  <2> QED BY <1>1, <2>2 DEF CauseOK
<1> QED BY <1>2

LEMMA NextKeepsCauses == CauseInv /\ [Next]_vars => CauseInv'
<1> SUFFICES ASSUME CauseInv, [Next]_vars PROVE \A q \in Requests : CauseOK(handler[q])'
  BY NextKeepsInv DEF CauseInv
<1>1. CASE Tick \/ UNCHANGED vars
  <2>1. UNCHANGED <<published, keys, handler>>
    BY <1>1 DEF Tick, cache, vars
  <2> QED BY <2>1 DEF CauseInv, CauseOK
<1> QED
  BY <1>1, LooksKeepCauses, ArrivalsHaveCauses, ResponsesHaveTheSigner,
     RefreshesHaveCauses, RotationsKeepCauses DEF Next

(* Every reachable state satisfies the invariant of the refusals.           *)
THEOREM CauseInvHolds == Spec => []CauseInv
<1>1. Init => CauseInv
  <2>1. ASSUME Init, NEW r \in Requests PROVE CauseOK(handler[r])
    BY <2>1 DEF Init, Resting, CauseOK
  <2> QED BY <2>1, InitEstablishesInv DEF CauseInv
<1> QED BY <1>1, NextKeepsCauses, PTL DEF Spec

(* A cached key that its token names is the only one of that id, and it     *)
(* fits.                                                                    *)
LEMMA TheNamedKeyFits ==
  ASSUME AccessInv, NEW r \in Requests, handler[r].token.signer \in keys,
         handler[r].token.kid = KidOf[handler[r].token.signer], handler[r].token.encoded
  PROVE  Named(r) # {} /\ WithKey(r) = Admitted
<1> DEFINE h == handler[r]
           s == h.token.signer
<1>1. keys \in KeySets
  BY DEF AccessInv, TypeOK
<1>2. \A k \in keys : KidOf[k] = KidOf[s] => k = s
  BY <1>1, AccessKeysAssumption DEF AccessKeysAssumption
<1>3. Named(r) = {s}
  BY <1>2 DEF Named
<1>4. WithKey(r) = AfterKey(h, s)
  BY <1>3 DEF WithKey
<1>5. AfterKey(h, s) = Admitted
  BY DEF AfterKey, Fits
<1> QED BY <1>3, <1>4, <1>5

(* Refusals at a look at the cache have a cause. *)
LEMMA RefusalsHaveCauses ==
  ASSUME CauseInv, [Next]_vars, NEW r \in Requests,
         handler[r].at \in {"cached", "reread"}, handler'[r].at = "denied",
         handler[r].steady, handler[r].token.encoded,
         handler[r].token.kid = KidOf[handler[r].token.signer]
  PROVE  handler[r].overtaken
<1> DEFINE h == handler[r]
<1>1. handler \in [Requests -> Handlers] /\ h \in Handlers /\ ProgressOK(h) /\ CauseOK(h)
  BY DEF CauseInv, AccessInv, TypeOK, HandlersOK
<1>2. Admitted.at = "admitted" /\ \A attempt : Fetch(h, attempt).at = "fetching"
  BY <1>1 DEF Admitted, Resting, Fetch, Handlers
<1>3. CASE ReadCache(r)
  <2>1. h.at = "cached" /\ h.attempt = 0
    BY <1>1, <1>3 DEF ReadCache, ProgressOK
  <2>2. WithKey(r).at # "denied"
    <3>1. PICK k : WithKey(r) = AfterKey(h, k)
      BY DEF WithKey
    <3>2. AfterKey(h, k) \in {Admitted, Fetch(h, 3)}
      BY <2>1 DEF AfterKey
    <3> QED BY <1>2, <3>1, <3>2
  <2>3. handler'[r] \in {WithKey(r), Fetch(h, 1)}
    BY <1>1, <1>3 DEF ReadCache
  <2> QED BY <1>2, <2>2, <2>3
<1>4. CASE Reread(r)
  <2> SUFFICES ASSUME ~ h.overtaken PROVE FALSE
    OBVIOUS
  <2>1. h.token.signer \in keys
    BY <1>1, <1>4 DEF Reread, CauseOK
  <2>2. handler'[r] = Admitted
    BY <1>1, <1>4, <2>1, TheNamedKeyFits DEF Reread, CauseInv
  <2> QED BY <1>2, <2>2
<1>5. CASE ~ (ReadCache(r) \/ Reread(r))
  <2>1. handler'[r].at = h.at
    <3>1. ASSUME NEW q \in Requests, q # r,
                 Arrive(q) \/ ReadCache(q) \/ Serve(q) \/ FetchError(q) \/ Reread(q)
          PROVE  handler'[r] = h
      BY <1>1, <3>1 DEF Arrive, ReadCache, Serve, FetchError, Reread
    <3>2. ~ (Arrive(r) \/ Serve(r) \/ FetchError(r) \/ Apply(r))
      BY DEF Arrive, Serve, FetchError, Apply
    <3>3. ASSUME NEW q \in Requests, q # r, Apply(q) PROVE handler'[r].at = h.at
      <4>1. handler'[r] = [h EXCEPT !.overtaken = @ \/ h.at = "reread"]
        BY <3>3 DEF Apply
      <4> QED BY <1>1, <4>1 DEF Handlers
    <3>4. ASSUME NEW S \in KeySets, Rotate(S) PROVE handler'[r].at = h.at
      <4>1. handler'[r] = [h EXCEPT !.steady = @ /\ h.token.signer \in S]
        BY <3>4 DEF Rotate
      <4> QED BY <1>1, <4>1 DEF Handlers
    <3> QED BY <1>5, <3>1, <3>2, <3>3, <3>4 DEF Next, Tick, vars
  <2> QED BY <2>1
<1> QED BY <1>3, <1>4, <1>5

(* "Key rotation can race the local cache.  Refresh once before rejecting": *)
(* accessauth.Verify refuses a good token only when a fetch of its request  *)
(* failed or another handler replaced the cache under it.                   *)
THEOREM RefusalsAreForCause == Spec => RefusedOnlyForCause
<1>1. CauseInv /\ [Next]_vars =>
        [\A r \in Requests :
           LET h == handler[r] IN
           /\ h.at \in {"cached", "reread"} /\ handler'[r].at = "denied"
           /\ h.steady /\ h.token.encoded /\ h.token.kid = KidOf[h.token.signer]
           => h.overtaken]_vars
  BY RefusalsHaveCauses
<1> QED BY <1>1, CauseInvHolds, PTL DEF Spec, RefusedOnlyForCause
=============================================================================
