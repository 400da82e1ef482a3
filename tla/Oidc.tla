------------------------------- MODULE Oidc -------------------------------
(***************************************************************************)
(* internal/oidc: concurrent verifications of bearer tokens over one       *)
(* cached copy of the provider's signing keys, which the provider rotates  *)
(* while it is fetched, cached and used.                                   *)
(*                                                                         *)
(* Computing takes no time: the clock moves only while every verification  *)
(* waits for the network, and no longer than http.Client.Timeout.  Ages    *)
(* count seconds and stop at a limit beyond which the code does not tell   *)
(* them apart.  Entries of a JWKS that are no usable RSA keys are left     *)
(* out, and a signature is good for exactly the key that made it.  Tokens  *)
(* that are not compact RS256 JWTs are refused before any state is read.   *)
(***************************************************************************)
EXTENDS Integers

CONSTANTS
    Verifiers,   \* calls of Verify that can run at once
    Pairs,       \* [kid, key] records: what the provider may ever publish
    Tokens,      \* bearer tokens: who signed them, and their claims
    Issuer,      \* configured issuer, or Unset
    Audience,    \* configured audience, or Unset
    Unset,       \* sentinel: "" (no such claim, nothing configured)
    MaxAge,      \* seconds the keys are used without a refresh (10 minutes)
    Timeout,     \* seconds a fetch may take (10)
    Leeway,      \* seconds past its expiry that a token is still good (30)
    NoPair,      \* sentinel: no key
    MaxChanges   \* bound: changes of the provider's keys

(* Past these ages nothing differs any more. *)
OldAge == MaxAge + Timeout + 1

(* A token's time to live when it arrives: Forever is exp = 0, and below    *)
(* -Leeway the token has expired.                                          *)
Forever == OldAge + Leeway + 2

ASSUME OidcAssumption ==
    /\ MaxAge \in Nat /\ Timeout \in Nat \ {0} /\ Leeway \in Nat
    /\ NoPair \notin Pairs /\ MaxChanges \in Nat
    /\ \A t \in Tokens : t.by \in Pairs /\ t.left \in -Leeway - 1 .. Forever

VARIABLES
    served,      \* the JWKS of the provider: at most one key per kid
    changed,     \* changed[p]: seconds since p was last added or withdrawn
    changes,     \* counter for the bound
    keys,        \* Verifier.keys
    fetched,     \* seconds since Verifier.fetched
    genuine,     \* history: keys came from a reply that was the JWKS (also v[i].jwks)
    v            \* v[i]: what verification i is doing

vars == <<served, changed, changes, keys, fetched, genuine, v>>

Idle == [pc |-> "idle", token |-> NoPair, left |-> 0, had |-> FALSE, waited |-> 0,
         body |-> {}, jwks |-> FALSE, failed |-> FALSE, why |-> "none"]

OneKeyPerKid(S) == \A p, q \in S : p.kid = q.kid => p = q

Call == [pc : {"fetch", "reply", "reread", "done"}, token : Tokens, left : -Leeway - 1 .. Forever, had : BOOLEAN,
         waited : 0 .. Timeout, body : SUBSET Pairs, jwks : BOOLEAN, failed : BOOLEAN,
         why : {"none", "accepted", "no key", "signature", "claims"}]

TypeOK ==
    /\ served \in SUBSET Pairs /\ keys \in SUBSET Pairs
    /\ changed \in [Pairs -> 0 .. OldAge]
    /\ changes \in 0 .. MaxChanges
    /\ fetched \in 0 .. MaxAge + 1
    /\ genuine \in BOOLEAN
    /\ v \in [Verifiers -> Call \cup {Idle}]

(* New: no keys, and a zero time of the last fetch. *)
Init ==
    /\ served \in {S \in SUBSET Pairs : OneKeyPerKid(S)}
    /\ changed = [p \in Pairs |-> OldAge] /\ changes = 0
    /\ keys = {} /\ fetched = MaxAge + 1 /\ genuine = TRUE
    /\ v = [i \in Verifiers |-> Idle]

-----------------------------------------------------------------------------
(* The provider publishes a key, in place of one with the same kid or      *)
(* beside others, or withdraws one.                                        *)
Publish(p) ==
    /\ p \notin served /\ changes < MaxChanges
    /\ changes' = changes + 1
    /\ LET gone == {q \in served : q.kid = p.kid}
       IN  /\ served' = (served \ gone) \cup {p}
           /\ changed' = [q \in Pairs |-> IF q \in gone \cup {p} THEN 0 ELSE changed[q]]
    /\ UNCHANGED <<keys, fetched, genuine, v>>

Withdraw(p) ==
    /\ p \in served /\ changes < MaxChanges
    /\ changes' = changes + 1
    /\ served' = served \ {p}
    /\ changed' = [changed EXCEPT ![p] = 0]
    /\ UNCHANGED <<keys, fetched, genuine, v>>

-----------------------------------------------------------------------------
(* v.keys[kid]: the pair with that kid, if there is one. *)
Lookup(kid) == IF \E p \in keys : p.kid = kid THEN CHOOSE p \in keys : p.kid = kid ELSE NoPair

Stale == fetched > MaxAge

(* The claims as they stand when they are read, after a fetch if any. *)
Expired(left) == left # Forever /\ left < -Leeway

ClaimsHold(t, left) ==
    /\ ~Expired(left)
    /\ Issuer # Unset => t.iss = Issuer
    /\ Audience # Unset => Audience \in t.aud
    /\ t.sub # Unset

(* The rest of Verify once key() returned k. *)
Outcome(t, left, k) ==
    CASE k = NoPair -> "no key"
      [] k # NoPair /\ k # t.by -> "signature"
      [] k = t.by -> IF ClaimsHold(t, left) THEN "accepted" ELSE "claims"

Begin(i, t) ==
    /\ v[i].pc = "idle"
    /\ LET k == Lookup(t.by.kid)
       IN  v' = [v EXCEPT ![i] =
                   IF k # NoPair /\ ~Stale
                   THEN [Idle EXCEPT !.pc = "done", !.token = t, !.jwks = genuine,
                                     !.why = Outcome(t, t.left, k)]
                   ELSE [Idle EXCEPT !.pc = "fetch", !.token = t, !.left = t.left,
                                     !.had = k # NoPair]]
    /\ UNCHANGED <<served, changed, changes, keys, fetched, genuine>>

(* The provider answers with its JWKS, or with some other JSON, which      *)
(* refresh reads as a JWKS without keys: it does not look at the status.   *)
Reply(i, good) ==
    /\ v[i].pc = "fetch"
    /\ v' = [v EXCEPT ![i].pc = "reply", ![i].jwks = good, ![i].body = IF good THEN served ELSE {}]
    /\ UNCHANGED <<served, changed, changes, keys, fetched, genuine>>

(* Mutant: the keys of kids that are known stay. *)
InstallKeeps(i) ==
    /\ v[i].pc = "reply"
    /\ keys' = keys \cup {p \in v[i].body : Lookup(p.kid) = NoPair}
    /\ fetched' = 0 /\ genuine' = v[i].jwks
    /\ v' = [v EXCEPT ![i].pc = "reread", ![i].body = {}, ![i].jwks = FALSE]
    /\ UNCHANGED <<served, changed, changes>>

(* The reply arrives and replaces the cached keys, whatever others have    *)
(* installed since it was asked for.                                       *)
Install(i) ==
    /\ v[i].pc = "reply"
    /\ keys' = v[i].body /\ fetched' = 0 /\ genuine' = v[i].jwks
    /\ v' = [v EXCEPT ![i].pc = "reread", ![i].body = {}, ![i].jwks = FALSE]
    /\ UNCHANGED <<served, changed, changes>>

Waiting(i) == v[i].pc \in {"fetch", "reply"}

(* Mutant: a refresh that failed is not tried again for another MaxAge. *)
FetchFailsStamped(i) ==
    /\ Waiting(i)
    /\ fetched' = 0
    /\ v' = [v EXCEPT ![i].pc = IF v[i].had THEN "reread" ELSE "done", ![i].failed = TRUE,
                      ![i].why = IF v[i].had THEN "none" ELSE "no key",
                      ![i].body = {}, ![i].jwks = FALSE]
    /\ UNCHANGED <<served, changed, changes, keys, genuine>>

(* The fetch fails: connection lost, text that is not JSON, or time is up. *)
(* A key that was cached before is used all the same, however old.         *)
FetchFails(i) ==
    /\ Waiting(i)
    /\ v' = [v EXCEPT ![i].pc = IF v[i].had THEN "reread" ELSE "done", ![i].failed = TRUE,
                      ![i].why = IF v[i].had THEN "none" ELSE "no key",
                      ![i].body = {}, ![i].jwks = FALSE]
    /\ UNCHANGED <<served, changed, changes, keys, fetched, genuine>>

Reread(i) ==
    /\ v[i].pc = "reread"
    /\ v' = [v EXCEPT ![i].pc = "done", ![i].jwks = genuine, ![i].left = 0, ![i].waited = 0,
                      ![i].why = Outcome(v[i].token, v[i].left, Lookup(v[i].token.by.kid))]
    /\ UNCHANGED <<served, changed, changes, keys, fetched, genuine>>

Return(i) ==
    /\ v[i].pc = "done"
    /\ v' = [v EXCEPT ![i] = Idle]
    /\ UNCHANGED <<served, changed, changes, keys, fetched, genuine>>

-----------------------------------------------------------------------------
UpTo(limit, n) == IF n < limit THEN n + 1 ELSE limit

Tick ==
    /\ \A i \in Verifiers : v[i].pc = "idle" \/ (Waiting(i) /\ v[i].waited < Timeout)
    /\ changed' = [p \in Pairs |-> UpTo(OldAge, changed[p])]
    /\ fetched' = UpTo(MaxAge + 1, fetched)
    /\ v' = [i \in Verifiers |->
               IF v[i].pc = "idle" THEN v[i]
               ELSE [v[i] EXCEPT !.waited = @ + 1,
                                 !.left = IF @ = Forever \/ Expired(@) THEN @ ELSE @ - 1]]
    /\ UNCHANGED <<served, changes, keys, genuine>>

Next ==
    \/ \E p \in Pairs : Publish(p) \/ Withdraw(p)
    \/ \E i \in Verifiers, t \in Tokens : Begin(i, t)
    \/ \E i \in Verifiers, good \in BOOLEAN : Reply(i, good)
    \/ \E i \in Verifiers : Install(i) \/ FetchFails(i) \/ Reread(i) \/ Return(i)
    \/ Tick

Spec == Init /\ [][Next]_vars

-----------------------------------------------------------------------------
ServedWithin(p, seconds) == p \in served \/ changed[p] <= seconds

(* A token is only accepted on a key that the provider still published at  *)
(* most ten minutes and one fetch ago - whichever verification fetched it, *)
(* and in whatever order the replies arrived - unless the refresh that     *)
(* this very verification tried has failed (key() then keeps the old one). *)
RetiredKeyDies ==
    \A i \in Verifiers : v[i].why = "accepted" =>
        v[i].failed \/ ServedWithin(v[i].token.by, MaxAge + Timeout)

(* A token whose key has been published for as long as that is never       *)
(* refused for its key, however often other keys change beside it and      *)
(* however fetches overlap, unless its own fetch failed or the keys it     *)
(* read came from a reply that was not the JWKS.                           *)
SteadyKeyWorks ==
    \A i \in Verifiers : v[i].why \in {"no key", "signature"} =>
        \/ v[i].failed \/ ~v[i].jwks
        \/ ~(v[i].token.by \in served /\ changed[v[i].token.by] = OldAge)

=============================================================================
