----------------------------- MODULE AccessKeys -----------------------------
(***************************************************************************)
(* internal/accessauth: the admin listener of one pod verifies the token   *)
(* that Cloudflare Access adds to each request.  Concurrent handlers share *)
(* a cache of the published signing keys; each of them refreshes it on its *)
(* own, without regard to the others, while Cloudflare rotates the keys    *)
(* and fetches fail or take their time.                                    *)
(*                                                                         *)
(* A token is the key id it names, the key it was signed with, its times,  *)
(* and whether the rest of it is in order.  Local steps take no time.      *)
(***************************************************************************)
EXTENDS Integers, FiniteSets

CONSTANTS
  Requests,      \* handlers of the admin listener, each used again and again
  Keys, KidOf,   \* signing keys and the ids they are published under
  KeySets,       \* what Cloudflare may publish
  NoKey,         \* the signer of a token that no published key ever signed
  Tokens,        \* the tokens that clients send
  NoToken,
  Ages,          \* max-age as in Cache-Control; 0 if absent or unreadable
  DefaultTTL,    \* 1 h
  MaxTTL,        \* 6 h
  FetchTimeout,  \* 3 s, of the HTTP client
  Skew,          \* 30 s
  MaxTime,       \* bound: the clock
  MaxRotations   \* bound: changes of the published keys

Kids == {KidOf[k] : k \in Keys}

ASSUME AccessKeysAssumption ==
  /\ NoKey \notin Keys
  /\ KidOf \in [Keys -> Kids]
  /\ Tokens \subseteq [kid : Kids, signer : Keys \cup {NoKey}, encoded : BOOLEAN,
                       sound : BOOLEAN, nbf : Nat, exp : Nat]
  /\ NoToken \notin Tokens
  /\ KeySets \subseteq (SUBSET Keys) \ {{}}
  /\ \A S \in KeySets : \A k, l \in S : KidOf[k] = KidOf[l] => k = l
  /\ Ages \subseteq Nat
  /\ {DefaultTTL, MaxTTL, FetchTimeout} \subseteq Nat \ {0}
  /\ DefaultTTL <= MaxTTL
  /\ {Skew, MaxTime, MaxRotations} \subseteq Nat

VARIABLES
  clock,
  published,  \* the keys that Cloudflare serves
  withdrawn,  \* when each key was last taken back, or Never
  rotations,  \* how often that has changed
  keys,       \* Verifier.keys
  keysUntil,  \* Verifier.keysUntil
  handler     \* what each request is doing

vars == <<clock, published, withdrawn, rotations, keys, keysUntil, handler>>

Never == -1

(* 0: the key comes from the cache; 1: the cache did not have it; 2: that  *)
(* failed; 3: the signature does not fit the key.                          *)
Attempts == 0 .. 3

(* document: the keys in the response, empty until it is made.              *)
(* fetches, steady and overtaken are not in the code.  steady: the signer   *)
(* has been published since the request came; overtaken: another handler    *)
(* has filled the cache since this one did.                                 *)
Handlers ==
  [at : {"idle", "cached", "fetching", "reread", "admitted", "denied"},
   token : Tokens \cup {NoToken}, attempt : Attempts, document : KeySets \cup {{}},
   deadline : Nat, fetches : 0 .. 3, steady : BOOLEAN, overtaken : BOOLEAN]

Resting(place) ==
        [at |-> place, token |-> NoToken, attempt |-> 0, document |-> {},
         deadline |-> 0, fetches |-> 0, steady |-> FALSE, overtaken |-> FALSE]
Admitted == Resting("admitted")
Denied == Resting("denied")

TypeOK ==
  /\ clock \in 0 .. MaxTime
  /\ published \in KeySets
  /\ withdrawn \in [Keys -> {Never} \cup 0 .. MaxTime]
  /\ rotations \in 0 .. MaxRotations
  /\ keys \in KeySets \cup {{}}
  /\ keysUntil \in Nat
  /\ handler \in [Requests -> Handlers]
  /\ \A r \in Requests : handler[r].at = "fetching" => clock <= handler[r].deadline

Init ==
  /\ clock = 0
  /\ published \in KeySets
  /\ withdrawn = [k \in Keys |-> Never]
  /\ rotations = 0
  /\ keys = {} /\ keysUntil = 0
  /\ handler = [r \in Requests |-> Resting("idle")]

cache == <<keys, keysUntil>>
outside == <<clock, published, withdrawn, rotations>>

-----------------------------------------------------------------------------
(* Verify, before any key is looked at. *)
ClaimsHold(t) ==
  /\ t.sound
  /\ clock <= t.exp + Skew
  /\ clock + Skew >= t.nbf

Arrive(r) ==
  /\ handler[r].at \in {"idle", "admitted", "denied"}
  /\ \E t \in Tokens \cup {NoToken} :
       handler' = [handler EXCEPT ![r] =
         IF t # NoToken /\ ClaimsHold(t)
         THEN [Resting("cached") EXCEPT !.token = t, !.steady = t.signer \in published]
         ELSE Denied]
  /\ UNCHANGED <<outside, cache>>

Named(r) == {k \in keys : KidOf[k] = handler[r].token.kid}

(* key(ctx, kid, false), its first half. *)
Hit_Stale(r) == Named(r) # {}
Hit(r) == Named(r) # {} /\ clock < keysUntil

Fetch(h, attempt) ==
  [h EXCEPT !.at = "fetching", !.attempt = attempt, !.document = {},
            !.deadline = clock + FetchTimeout, !.fetches = @ + 1]

(* No key: the unforced attempt is followed by a forced one, the others by 401. *)
AfterNoKey(h) == IF h.attempt = 1 THEN Fetch(h, 2) ELSE Denied

(* A key: a signature that does not fit earns one forced refresh. *)
Fits(h, k) == h.token.encoded /\ h.token.signer = k
AfterKey_NoRetry(h, k) == IF Fits(h, k) THEN Admitted ELSE Denied
AfterKey_RetriesForEver(h, k) == IF Fits(h, k) THEN Admitted ELSE Fetch(h, 3)
AfterKey(h, k) ==
  CASE Fits(h, k)                                              -> Admitted
    [] ~ Fits(h, k) /\ (h.attempt = 3 \/ ~ h.token.encoded) -> Denied
    [] OTHER                                                   -> Fetch(h, 3)

WithKey(r) == AfterKey(handler[r], CHOOSE k \in Named(r) : TRUE)

ReadCache(r) ==
  /\ handler[r].at = "cached"
  /\ handler' = [handler EXCEPT ![r] = IF Hit(r) THEN WithKey(r) ELSE Fetch(@, 1)]
  /\ UNCHANGED <<outside, cache>>

(* refresh: the response is made now and used later. *)
Serve(r) ==
  /\ handler[r].at = "fetching" /\ handler[r].document = {}
  /\ handler' = [handler EXCEPT ![r].document = published]
  /\ UNCHANGED <<outside, cache>>

(* cacheTTL *)
Lifetime(age) == IF age = 0 THEN DefaultTTL ELSE IF age > MaxTTL THEN MaxTTL ELSE age

Apply(r) ==
  /\ handler[r].at = "fetching" /\ handler[r].document # {}
  /\ keys' = handler[r].document
  /\ \E age \in Ages : keysUntil' = clock + Lifetime(age)
  /\ handler' = [q \in Requests |->
       IF q = r THEN [handler[r] EXCEPT !.at = "reread", !.overtaken = FALSE, !.document = {}]
       ELSE [handler[q] EXCEPT !.overtaken = @ \/ handler[q].at = "reread"]]
  /\ UNCHANGED outside

(* Transport error, timeout, cancelled request, other status, no JSON, no  *)
(* usable key: the cache stays as it is.                                   *)
FetchError(r) ==
  /\ handler[r].at = "fetching"
  /\ handler' = [handler EXCEPT ![r] = AfterNoKey([@ EXCEPT !.document = {}])]
  /\ UNCHANGED <<outside, cache>>

(* key, after refresh: whatever the cache holds by now, without regard to  *)
(* keysUntil.                                                              *)
Reread(r) ==
  /\ handler[r].at = "reread"
  /\ handler' = [handler EXCEPT ![r] = IF Named(r) # {} THEN WithKey(r) ELSE AfterNoKey(@)]
  /\ UNCHANGED <<outside, cache>>

-----------------------------------------------------------------------------
(* Cloudflare publishes another key set; an id may come back with another key. *)
Rotate(S) ==
  /\ S # published
  /\ rotations < MaxRotations /\ rotations' = rotations + 1
  /\ published' = S
  /\ withdrawn' = [k \in Keys |-> IF k \in published \ S THEN clock ELSE withdrawn[k]]
  /\ handler' = [r \in Requests |->
       [handler[r] EXCEPT !.steady = @ /\ handler[r].token.signer \in S]]
  /\ UNCHANGED <<clock, cache>>

Tick ==
  /\ clock < MaxTime
  /\ \A r \in Requests :
       /\ handler[r].at \notin {"cached", "reread"}
       /\ handler[r].at = "fetching" => clock < handler[r].deadline
  /\ clock' = clock + 1
  /\ UNCHANGED <<published, withdrawn, rotations, cache, handler>>

Next ==
  \/ \E r \in Requests :
       Arrive(r) \/ ReadCache(r) \/ Serve(r) \/ Apply(r) \/ FetchError(r) \/ Reread(r)
  \/ \E S \in KeySets : Rotate(S)
  \/ Tick

Spec == Init /\ [][Next]_vars

-----------------------------------------------------------------------------
(* Was k published less than d ago? *)
PublishedWithin(k, d) ==
  \/ k \in published
  \/ k \in Keys /\ withdrawn[k] # Never /\ clock < withdrawn[k] + d

(* However refreshes overtake each other (accessauth.refresh replaces the  *)
(* cache with what it fetched, old or new), a token is admitted only by    *)
(* the signature of a key that was published within one cache lifetime     *)
(* and one fetch, and no longer after its expiry than three fetches last.  *)
AdmissionsAreCurrent ==
  [][\A r \in Requests :
       LET t == handler[r].token IN
       handler[r].at # "admitted" /\ handler'[r].at = "admitted" =>
         /\ PublishedWithin(t.signer, MaxTTL + FetchTimeout)
         /\ t.sound /\ t.encoded
         /\ clock <= t.exp + Skew + 3 * FetchTimeout
         /\ clock + Skew >= t.nbf]_vars

(* "Key rotation can race the local cache. Refresh once before rejecting."  *)
(* A token in order, of a key that it names and that has been published     *)
(* since the request came, is rejected only if a fetch of the request       *)
(* failed, or if another handler replaced the cache between its refresh and *)
(* its second look.                                                         *)
RefusedOnlyForCause ==
  [][\A r \in Requests :
       LET h == handler[r] IN
       /\ h.at \in {"cached", "reread"} /\ handler'[r].at = "denied"
       /\ h.steady /\ h.token.encoded /\ h.token.kid = KidOf[h.token.signer]
       => h.overtaken]_vars
=============================================================================
