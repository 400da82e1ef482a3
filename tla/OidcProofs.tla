---------------------------- MODULE OidcProofs ----------------------------
(* Theorems of Oidc, for any number of verifications, keys and tokens and  *)
(* any ages.  The argument is one of ages: what the cache or a reply on    *)
(* its way holds cannot differ from what the provider serves, except in    *)
(* keys it has changed since the reply was made.                           *)
EXTENDS Oidc, TLAPS

Refusals == {"no key", "signature"}

(* The rest of Verify: which key leads to which answer. *)
LEMMA OutcomeByKey ==
    ASSUME NEW t \in Tokens, NEW left, NEW k
    PROVE  /\ Outcome(t, left, k) \in {"accepted", "no key", "signature", "claims"}
           /\ Outcome(t, left, k) = "accepted" => k = t.by
           /\ Outcome(t, left, k) \in Refusals => k # t.by
<1>1. t.by \in Pairs /\ t.by # NoPair
  BY OidcAssumption
<1>2. CASE k = t.by
  BY <1>1, <1>2 DEF Outcome, Refusals
<1>3. CASE k # t.by /\ k # NoPair
  BY <1>3 DEF Outcome, Refusals
<1>4. CASE k = NoPair
  BY <1>1, <1>4 DEF Outcome, Refusals
<1> QED
  BY <1>2, <1>3, <1>4

(* v.keys[kid] is a cached key, and the one that was asked for if it is    *)
(* cached and no other key has its kid.                                    *)
LEMMA LookupFinds ==
    ASSUME NEW p \in Pairs, keys \in SUBSET Pairs
    PROVE  /\ Lookup(p.kid) = p => p \in keys
           /\ OneKeyPerKid(keys) /\ p \in keys => Lookup(p.kid) = p
<1>1. NoPair # p
  BY OidcAssumption
<1>2. ASSUME Lookup(p.kid) = p  PROVE p \in keys
  BY <1>1, <1>2 DEF Lookup
<1>3. ASSUME OneKeyPerKid(keys), p \in keys  PROVE Lookup(p.kid) = p
  BY <1>3 DEF Lookup, OneKeyPerKid
<1> QED
  BY <1>2, <1>3

-----------------------------------------------------------------------------
LEMMA InitType == Init => TypeOK
<1>1. MaxAge + 1 \in 0 .. MaxAge + 1 /\ OldAge \in 0 .. OldAge /\ 0 \in 0 .. MaxChanges
  BY OidcAssumption DEF OldAge
<1> QED
  BY <1>1 DEF Init, TypeOK

(* A verification that is not idle has all its fields. *)
LEMMA BusyIsCall ==
    ASSUME TypeOK, NEW i \in Verifiers, v[i].pc # "idle"
    PROVE  v[i] \in Call
BY DEF TypeOK, Idle

LEMMA TypeInductive == TypeOK /\ [Next]_vars => TypeOK'
<1> SUFFICES ASSUME TypeOK, [Next]_vars
             PROVE  TypeOK'
  OBVIOUS
<1> USE OidcAssumption
<1>1. ASSUME NEW p \in Pairs, Publish(p)  PROVE TypeOK'
  <2>1. 0 \in 0 .. OldAge /\ changes + 1 \in 0 .. MaxChanges
    BY <1>1 DEF TypeOK, Publish, OldAge
  <2>2. served' \in SUBSET Pairs /\ changed' \in [Pairs -> 0 .. OldAge]
    BY <1>1, <2>1 DEF TypeOK, Publish
  <2> QED
    BY <1>1, <2>1, <2>2 DEF TypeOK, Publish
<1>2. ASSUME NEW p \in Pairs, Withdraw(p)  PROVE TypeOK'
  <2>1. 0 \in 0 .. OldAge /\ changes + 1 \in 0 .. MaxChanges
    BY <1>2 DEF TypeOK, Withdraw, OldAge
  <2> QED
    BY <1>2, <2>1 DEF TypeOK, Withdraw
<1>3. ASSUME NEW i \in Verifiers, NEW t \in Tokens, Begin(i, t)  PROVE TypeOK'
  <2> DEFINE k == Lookup(t.by.kid)
  <2>1. Outcome(t, t.left, k) \in {"accepted", "no key", "signature", "claims"}
    BY OutcomeByKey
  <2>2. t.left \in -Leeway - 1 .. Forever /\ 0 \in -Leeway - 1 .. Forever /\ 0 \in 0 .. Timeout
    BY DEF Forever, OldAge
  <2>3. v'[i] \in Call
    <3>1. CASE k # NoPair /\ ~Stale
      <4>1. v'[i] = [Idle EXCEPT !.pc = "done", !.token = t, !.jwks = genuine,
                                 !.why = Outcome(t, t.left, k)]
        BY <1>3, <3>1 DEF Begin, TypeOK
      <4> QED
        BY <2>1, <2>2, <4>1 DEF TypeOK, Call, Idle
    <3>2. CASE ~(k # NoPair /\ ~Stale)
      <4>1. v'[i] = [Idle EXCEPT !.pc = "fetch", !.token = t, !.left = t.left,
                                 !.had = k # NoPair]
        BY <1>3, <3>2 DEF Begin, TypeOK
      <4> QED
        BY <2>2, <4>1 DEF Call, Idle
    <3> QED
      BY <3>1, <3>2
  <2>4. v' = [v EXCEPT ![i] = v'[i]]
    BY <1>3 DEF Begin, TypeOK
  <2>5. v' \in [Verifiers -> Call \cup {Idle}]
    BY <2>3, <2>4 DEF TypeOK
  <2> QED
    BY <1>3, <2>5 DEF TypeOK, Begin
<1>4. ASSUME NEW i \in Verifiers, NEW good \in BOOLEAN, Reply(i, good)  PROVE TypeOK'
  <2>1. v[i] \in Call
    BY <1>4, BusyIsCall DEF Reply
  <2>2. [v[i] EXCEPT !.pc = "reply", !.jwks = good, !.body = IF good THEN served ELSE {}] \in Call
    BY <2>1 DEF TypeOK, Call
  <2>3. v' \in [Verifiers -> Call \cup {Idle}]
    BY <1>4, <2>2 DEF TypeOK, Reply
  <2> QED
    BY <1>4, <2>3 DEF TypeOK, Reply
<1>5. ASSUME NEW i \in Verifiers, Install(i)  PROVE TypeOK'
  <2>1. v[i] \in Call /\ 0 \in 0 .. MaxAge + 1
    BY <1>5, BusyIsCall DEF Install
  <2>2. [v[i] EXCEPT !.pc = "reread", !.body = {}, !.jwks = FALSE] \in Call
    BY <2>1 DEF Call
  <2>3. v' \in [Verifiers -> Call \cup {Idle}] /\ keys' \in SUBSET Pairs /\ genuine' \in BOOLEAN
    BY <1>5, <2>1, <2>2 DEF TypeOK, Install, Call
  <2> QED
    BY <1>5, <2>1, <2>3 DEF TypeOK, Install
<1>6. ASSUME NEW i \in Verifiers, FetchFails(i)  PROVE TypeOK'
  <2>1. v[i] \in Call
    BY <1>6, BusyIsCall DEF FetchFails, Waiting
  <2>2. [v[i] EXCEPT !.pc = IF v[i].had THEN "reread" ELSE "done", !.failed = TRUE,
                     !.why = IF v[i].had THEN "none" ELSE "no key",
                     !.body = {}, !.jwks = FALSE] \in Call
    BY <2>1 DEF Call
  <2>3. v' \in [Verifiers -> Call \cup {Idle}]
    BY <1>6, <2>2 DEF TypeOK, FetchFails
  <2> QED
    BY <1>6, <2>3 DEF TypeOK, FetchFails
<1>7. ASSUME NEW i \in Verifiers, Reread(i)  PROVE TypeOK'
  <2>1. v[i] \in Call
    BY <1>7, BusyIsCall DEF Reread
  <2> DEFINE why == Outcome(v[i].token, v[i].left, Lookup(v[i].token.by.kid))
  <2>2. why \in {"accepted", "no key", "signature", "claims"}
    BY <2>1, OutcomeByKey DEF Call
  <2>3. 0 \in -Leeway - 1 .. Forever /\ 0 \in 0 .. Timeout
    BY DEF Forever, OldAge
  <2> HIDE DEF why
  <2>4. [v[i] EXCEPT !.pc = "done", !.jwks = genuine, !.left = 0, !.waited = 0, !.why = why] \in Call
    BY <2>1, <2>2, <2>3 DEF TypeOK, Call
  <2>5. v' \in [Verifiers -> Call \cup {Idle}]
    BY <1>7, <2>4 DEF TypeOK, Reread, why
  <2> QED
    BY <1>7, <2>5 DEF TypeOK, Reread
<1>8. ASSUME NEW i \in Verifiers, Return(i)  PROVE TypeOK'
  BY <1>8 DEF TypeOK, Return
<1>9. CASE Tick
  <2>1. changed' \in [Pairs -> 0 .. OldAge] /\ fetched' \in 0 .. MaxAge + 1
    <3>1. OldAge \in Nat
      BY DEF OldAge
    <3>2. ASSUME NEW limit \in Nat, NEW n \in 0 .. limit  PROVE UpTo(limit, n) \in 0 .. limit
      BY <3>2 DEF UpTo
    <3>3. \A p \in Pairs : UpTo(OldAge, changed[p]) \in 0 .. OldAge
      BY <3>1, <3>2 DEF TypeOK
    <3>4. UpTo(MaxAge + 1, fetched) \in 0 .. MaxAge + 1
      BY <3>2 DEF TypeOK
    <3> QED
      BY <1>9, <3>3, <3>4 DEF Tick
  <2>2. ASSUME NEW i \in Verifiers, v[i].pc # "idle"
        PROVE  [v[i] EXCEPT !.waited = @ + 1,
                            !.left = IF @ = Forever \/ Expired(@) THEN @ ELSE @ - 1] \in Call
    <3> DEFINE left == v[i].left
    <3>1. v[i] \in Call /\ v[i].waited < Timeout
      BY <1>9, <2>2, BusyIsCall DEF Tick
    <3>2. v[i].waited \in 0 .. Timeout /\ left \in -Leeway - 1 .. Forever
      BY <3>1 DEF Call
    <3>3. v[i].waited + 1 \in 0 .. Timeout
      BY <3>1, <3>2
    <3>4. (IF left = Forever \/ Expired(left) THEN left ELSE left - 1) \in -Leeway - 1 .. Forever
      <4> HIDE DEF left
      <4>0. Forever \in Nat
        BY DEF Forever, OldAge
      <4>1. CASE left = Forever \/ Expired(left)
        BY <3>2, <4>1
      <4>2. CASE ~(left = Forever \/ Expired(left))
        BY <3>2, <4>0, <4>2 DEF Expired
      <4> QED
        BY <4>1, <4>2
    <3> QED
      BY <3>1, <3>3, <3>4 DEF Call
  <2>3. v' \in [Verifiers -> Call \cup {Idle}]
    BY <1>9, <2>2 DEF TypeOK, Tick
  <2> QED
    BY <1>9, <2>1, <2>3 DEF TypeOK, Tick
<1>10. CASE UNCHANGED vars
  BY <1>10 DEF TypeOK, vars
<1> QED
  BY <1>1, <1>2, <1>3, <1>4, <1>5, <1>6, <1>7, <1>8, <1>9, <1>10 DEF Next

(* Verify's state has its type: no age or deadline leaves its range. *)
THEOREM TypeCorrect == Spec => []TypeOK
BY InitType, TypeInductive, PTL DEF Spec

-----------------------------------------------------------------------------
(* What was installed less than MaxAge ago, and what a reply carries,      *)
(* differs from the provider's JWKS only in keys that it has changed since *)
(* the reply was made.  A key is there if the provider still serves it and *)
(* has not touched it for that long (provided the reply was the JWKS), and *)
(* a key that is there was served that short a time ago.                   *)
Copies(copy, p, seconds, good) ==
    /\ p \in copy => ServedWithin(p, seconds)
    /\ good /\ p \in served /\ changed[p] > seconds => p \in copy

KeysCopied ==
    /\ OneKeyPerKid(served) /\ OneKeyPerKid(keys)
    /\ fetched <= MaxAge => \A p \in Pairs : Copies(keys, p, fetched + Timeout, genuine)

ReplyCopied(i) ==
    v[i].pc = "reply" =>
        /\ OneKeyPerKid(v[i].body)
        /\ \A p \in Pairs : Copies(v[i].body, p, v[i].waited, v[i].jwks)

(* A verification that looks again has just installed its own reply. *)
RereadIsFresh(i) ==
    /\ v[i].pc = "reread" /\ ~v[i].failed => fetched = 0
    /\ v[i].pc # "done" => v[i].why = "none"

(* The two run properties, for one verification. *)
WellJudged(i) ==
    /\ v[i].why = "accepted" =>
           v[i].failed \/ ServedWithin(v[i].token.by, MaxAge + Timeout)
    /\ v[i].why \in Refusals =>
           \/ v[i].failed \/ ~v[i].jwks
           \/ ~(v[i].token.by \in served /\ changed[v[i].token.by] = OldAge)

Sound(i) == ReplyCopied(i) /\ RereadIsFresh(i) /\ WellJudged(i)

KeyInv == TypeOK /\ KeysCopied /\ \A i \in Verifiers : Sound(i)

LEMMA InitSound == Init => KeysCopied /\ \A i \in Verifiers : Sound(i)
<1> SUFFICES ASSUME Init
             PROVE  KeysCopied /\ \A i \in Verifiers : Sound(i)
  OBVIOUS
<1>1. OneKeyPerKid(served) /\ OneKeyPerKid(keys)
  BY DEF Init, OneKeyPerKid
<1>2. ~(fetched <= MaxAge)
  BY OidcAssumption DEF Init
<1>3. ASSUME NEW i \in Verifiers  PROVE Sound(i)
  <2>1. v[i].pc = "idle" /\ v[i].why = "none"
    BY DEF Init, Idle
  <2> QED
    BY <2>1 DEF Sound, ReplyCopied, RereadIsFresh, WellJudged, Refusals
<1> QED
  BY <1>1, <1>2, <1>3 DEF KeysCopied

(* A verification is accepted or refused by what a fresh copy holds. *)
LEMMA FreshJudges ==
    ASSUME TypeOK, KeysCopied, NEW t \in Tokens, NEW left, fetched <= MaxAge
    PROVE  LET why == Outcome(t, left, Lookup(t.by.kid))
           IN  /\ why = "accepted" => ServedWithin(t.by, MaxAge + Timeout)
               /\ why \in Refusals => ~genuine \/ ~(t.by \in served /\ changed[t.by] = OldAge)
<1> DEFINE why == Outcome(t, left, Lookup(t.by.kid))
<1>1. t.by \in Pairs /\ keys \in SUBSET Pairs
  BY OidcAssumption DEF TypeOK
<1>2. fetched + Timeout <= MaxAge + Timeout /\ OldAge > fetched + Timeout
  BY OidcAssumption DEF TypeOK, OldAge
<1>3. fetched + Timeout \in Int /\ MaxAge + Timeout \in Int /\ changed[t.by] \in Int
  BY <1>1, OidcAssumption DEF TypeOK
<1>4. ASSUME why = "accepted"  PROVE ServedWithin(t.by, MaxAge + Timeout)
  <2>1. t.by \in keys
    BY <1>1, <1>4, OutcomeByKey, LookupFinds
  <2>2. ServedWithin(t.by, fetched + Timeout)
    BY <1>1, <2>1 DEF KeysCopied, Copies
  <2> QED
    BY <1>2, <1>3, <2>2 DEF ServedWithin
<1>5. ASSUME why \in Refusals, genuine, t.by \in served, changed[t.by] = OldAge  PROVE FALSE
  <2>1. t.by \in keys
    BY <1>1, <1>2, <1>5 DEF KeysCopied, Copies
  <2>2. Lookup(t.by.kid) = t.by
    BY <1>1, <2>1, LookupFinds DEF KeysCopied
  <2> QED
    BY <1>5, <2>2, OutcomeByKey
<1> QED
  BY <1>4, <1>5

(* A change at the provider takes nothing from what copies guarantee: it   *)
(* resets the age of every key it touches.                                 *)
LEMMA ChangeKeeps ==
    ASSUME KeyInv, NEW touched \in SUBSET Pairs,
           \A p \in touched : changed'[p] = 0,
           \A p \in Pairs \ touched : changed'[p] = changed[p] /\ (p \in served' <=> p \in served),
           OneKeyPerKid(served'), UNCHANGED <<keys, fetched, genuine, v>>
    PROVE  KeysCopied' /\ \A i \in Verifiers : Sound(i)'
<1>1. ASSUME NEW p \in Pairs, NEW n \in Nat
      PROVE  /\ ServedWithin(p, n) => p \in served' \/ changed'[p] <= n
             /\ p \in served' /\ changed'[p] > n => p \in served /\ changed[p] > n
  BY DEF ServedWithin
<1>2. KeysCopied'
  <2>1. ASSUME fetched <= MaxAge, NEW p \in Pairs
        PROVE  /\ p \in keys => p \in served' \/ changed'[p] <= fetched + Timeout
               /\ genuine /\ p \in served' /\ changed'[p] > fetched + Timeout => p \in keys
    <3>1. fetched + Timeout \in Nat
      BY OidcAssumption DEF KeyInv, TypeOK
    <3>2. Copies(keys, p, fetched + Timeout, genuine)
      BY <2>1 DEF KeyInv, KeysCopied
    <3> QED
      BY <1>1, <3>1, <3>2 DEF Copies
  <2> QED
    BY <2>1 DEF KeyInv, KeysCopied, Copies, ServedWithin
<1>3. ASSUME NEW i \in Verifiers  PROVE Sound(i)'
  <2>1. Sound(i) /\ TypeOK
    BY DEF KeyInv
  <2>2. ReplyCopied(i)'
    <3>1. SUFFICES ASSUME v[i].pc = "reply", NEW p \in Pairs
                   PROVE  /\ p \in v[i].body => p \in served' \/ changed'[p] <= v[i].waited
                          /\ v[i].jwks /\ p \in served' /\ changed'[p] > v[i].waited
                               => p \in v[i].body
      BY <2>1 DEF Sound, ReplyCopied, Copies, ServedWithin
    <3>2. v[i].waited \in Nat
      <4>1. v[i] \in Call
        BY <2>1, <3>1, BusyIsCall
      <4>2. v[i].waited \in 0 .. Timeout
        BY <4>1 DEF Call
      <4> QED
        BY <4>2
    <3>3. Copies(v[i].body, p, v[i].waited, v[i].jwks)
      BY <2>1, <3>1 DEF Sound, ReplyCopied
    <3> QED
      BY <1>1, <3>2, <3>3 DEF Copies
  <2>3. RereadIsFresh(i)'
    BY <2>1 DEF Sound, RereadIsFresh
  <2>4. WellJudged(i)'
    <3>1. CASE v[i].why = "none"
      BY <3>1 DEF WellJudged, Refusals
    <3>2. CASE v[i].why # "none"
      <4>1. v[i] \in Call
        BY <2>1, <3>2, BusyIsCall DEF Sound, RereadIsFresh
      <4>2. v[i].token.by \in Pairs
        BY <4>1, OidcAssumption DEF Call
      <4>3. MaxAge + Timeout \in Nat /\ OldAge = MaxAge + Timeout + 1
        BY OidcAssumption DEF OldAge
      <4>4. changed'[v[i].token.by] = OldAge => v[i].token.by \notin touched
        BY <4>3
      <4> QED
        BY <1>1, <2>1, <4>2, <4>3, <4>4 DEF Sound, WellJudged, ServedWithin
    <3> QED
      BY <3>1, <3>2
  <2> QED
    BY <2>2, <2>3, <2>4 DEF Sound
<1> QED
  BY <1>2, <1>3

(* A step of one verification that leaves the keys alone. *)
LEMMA OthersKeep ==
    ASSUME KeyInv, NEW i \in Verifiers, NEW new, v' = [v EXCEPT ![i] = new], Sound(i)',
           UNCHANGED <<served, changed, keys, fetched, genuine>>
    PROVE  KeysCopied' /\ \A j \in Verifiers : Sound(j)'
<1>1. KeysCopied'
  BY DEF KeyInv, KeysCopied, Copies, ServedWithin
<1>2. ASSUME NEW j \in Verifiers, j # i  PROVE Sound(j)'
  <2>1. v'[j] = v[j] /\ Sound(j)
    BY <1>2 DEF KeyInv, TypeOK
  <2> QED
    BY <2>1 DEF Sound, ReplyCopied, RereadIsFresh, WellJudged, Copies, ServedWithin
<1> QED
  BY <1>1, <1>2

LEMMA KeyInvInductive == KeyInv /\ [Next]_vars => KeyInv'
<1> SUFFICES ASSUME KeyInv, [Next]_vars
             PROVE  KeysCopied' /\ \A j \in Verifiers : Sound(j)'
  BY TypeInductive DEF KeyInv
<1> USE OidcAssumption
<1>0. TypeOK /\ KeysCopied
  BY DEF KeyInv
<1>1. ASSUME NEW p \in Pairs, Publish(p)  PROVE KeysCopied' /\ \A j \in Verifiers : Sound(j)'
  <2> DEFINE gone == {q \in served : q.kid = p.kid}
  <2>1. gone \cup {p} \in SUBSET Pairs
    BY <1>0 DEF TypeOK
  <2>2. \A q \in gone \cup {p} : changed'[q] = 0
    BY <1>1, <2>1 DEF Publish
  <2>3. \A q \in Pairs \ (gone \cup {p}) :
            changed'[q] = changed[q] /\ (q \in served' <=> q \in served)
    BY <1>1 DEF Publish
  <2>4. OneKeyPerKid(served')
    BY <1>0, <1>1 DEF Publish, KeysCopied, OneKeyPerKid
  <2>5. UNCHANGED <<keys, fetched, genuine, v>>
    BY <1>1 DEF Publish
  <2> HIDE DEF gone
  <2> QED
    BY <2>1, <2>2, <2>3, <2>4, <2>5, ChangeKeeps
<1>2. ASSUME NEW p \in Pairs, Withdraw(p)  PROVE KeysCopied' /\ \A j \in Verifiers : Sound(j)'
  <2>1. {p} \in SUBSET Pairs /\ \A q \in {p} : changed'[q] = 0
    BY <1>0, <1>2 DEF Withdraw, TypeOK
  <2>2. \A q \in Pairs \ {p} : changed'[q] = changed[q] /\ (q \in served' <=> q \in served)
    BY <1>0, <1>2 DEF Withdraw, TypeOK
  <2>3. OneKeyPerKid(served')
    BY <1>0, <1>2 DEF Withdraw, KeysCopied, OneKeyPerKid
  <2>4. UNCHANGED <<keys, fetched, genuine, v>>
    BY <1>2 DEF Withdraw
  <2> QED
    BY <2>1, <2>2, <2>3, <2>4, ChangeKeeps
<1>3. ASSUME NEW i \in Verifiers, NEW t \in Tokens, Begin(i, t)
      PROVE  KeysCopied' /\ \A j \in Verifiers : Sound(j)'
  <2> DEFINE k == Lookup(t.by.kid)
  <2>1. UNCHANGED <<served, changed, keys, fetched, genuine>>
    BY <1>3 DEF Begin
  <2>2. CASE k # NoPair /\ ~Stale
    <3> DEFINE why == Outcome(t, t.left, k)
               new == [Idle EXCEPT !.pc = "done", !.token = t, !.jwks = genuine, !.why = why]
    <3>1. v' = [v EXCEPT ![i] = new]
      BY <1>3, <2>2 DEF Begin
    <3>2. /\ v'[i].pc = "done" /\ v'[i].token = t /\ v'[i].jwks = genuine /\ v'[i].why = why
      <4> HIDE DEF why
      <4> QED
        BY <1>0, <3>1 DEF TypeOK, Idle
    <3>3. fetched <= MaxAge
      BY <1>0, <2>2 DEF TypeOK, Stale
    <3>4. /\ why = "accepted" => ServedWithin(t.by, MaxAge + Timeout)
          /\ why \in Refusals => ~genuine \/ ~(t.by \in served /\ changed[t.by] = OldAge)
      BY <1>0, <3>3, FreshJudges
    <3> HIDE DEF why, k
    <3>5. Sound(i)'
      BY <2>1, <3>2, <3>4 DEF Sound, ReplyCopied, RereadIsFresh, WellJudged, ServedWithin
    <3> HIDE DEF new
    <3> QED
      BY <2>1, <3>1, <3>5, OthersKeep
  <2>3. CASE ~(k # NoPair /\ ~Stale)
    <3> DEFINE new == [Idle EXCEPT !.pc = "fetch", !.token = t, !.left = t.left, !.had = k # NoPair]
    <3>1. v' = [v EXCEPT ![i] = new]
      BY <1>3, <2>3 DEF Begin
    <3>2. v'[i].pc = "fetch" /\ v'[i].why = "none"
      BY <1>0, <3>1 DEF TypeOK, Idle
    <3>3. Sound(i)'
      BY <3>2 DEF Sound, ReplyCopied, RereadIsFresh, WellJudged, Refusals
    <3> HIDE DEF new
    <3> QED
      BY <2>1, <3>1, <3>3, OthersKeep
  <2> QED
    BY <2>2, <2>3
<1>4. ASSUME NEW i \in Verifiers, NEW good \in BOOLEAN, Reply(i, good)
      PROVE  KeysCopied' /\ \A j \in Verifiers : Sound(j)'
  <2> DEFINE new == [v[i] EXCEPT !.pc = "reply", !.jwks = good, !.body = IF good THEN served ELSE {}]
  <2>1. v' = [v EXCEPT ![i] = new] /\ UNCHANGED <<served, changed, keys, fetched, genuine>>
    BY <1>0, <1>4 DEF Reply, TypeOK
  <2>2. v[i] \in Call
    BY <1>0, <1>4, BusyIsCall DEF Reply
  <2>3. /\ v'[i].pc = "reply" /\ v'[i].why = "none" /\ v'[i].jwks = good
        /\ v'[i].waited = v[i].waited /\ v'[i].body = IF good THEN served ELSE {}
    <3>1. v[i].why = "none"
      BY <1>4 DEF Reply, KeyInv, Sound, RereadIsFresh
    <3>2. v'[i] = new
      BY <1>0, <2>1 DEF TypeOK
    <3> QED
      BY <2>2, <3>1, <3>2 DEF Call
  <2>4. OneKeyPerKid(v'[i].body)
    BY <1>0, <2>3 DEF KeysCopied, OneKeyPerKid
  <2>5. ASSUME NEW p \in Pairs
        PROVE  /\ p \in v'[i].body => ServedWithin(p, v'[i].waited)
               /\ good /\ p \in served => p \in v'[i].body
    BY <2>3 DEF ServedWithin
  <2>6. Sound(i)'
    BY <2>1, <2>3, <2>4, <2>5
       DEF Sound, ReplyCopied, RereadIsFresh, WellJudged, Refusals, Copies, ServedWithin
  <2> HIDE DEF new
  <2> QED
    BY <2>1, <2>6, OthersKeep
<1>5. ASSUME NEW i \in Verifiers, Install(i)  PROVE KeysCopied' /\ \A j \in Verifiers : Sound(j)'
  <2>1. /\ v[i].pc = "reply" /\ Sound(i) /\ v[i] \in Call
        /\ v[i].waited \in 0 .. Timeout /\ v[i].why = "none"
    <3>1. v[i].pc = "reply" /\ Sound(i)
      BY <1>5 DEF Install, KeyInv
    <3>2. v[i] \in Call
      BY <1>0, <3>1, BusyIsCall
    <3> QED
      BY <3>1, <3>2 DEF Call, Sound, RereadIsFresh
  <2>2. /\ keys' = v[i].body /\ fetched' = 0 /\ genuine' = v[i].jwks
        /\ UNCHANGED <<served, changed>>
    BY <1>5 DEF Install
  <2>3. KeysCopied'
    <3>1. ASSUME NEW p \in Pairs
          PROVE  /\ p \in v[i].body => p \in served \/ changed[p] <= 0 + Timeout
                 /\ v[i].jwks /\ p \in served /\ changed[p] > 0 + Timeout => p \in v[i].body
      BY <1>0, <2>1 DEF TypeOK, Sound, ReplyCopied, Copies, ServedWithin
    <3>2. OneKeyPerKid(served) /\ OneKeyPerKid(v[i].body)
      BY <1>0, <2>1 DEF KeysCopied, Sound, ReplyCopied
    <3> QED
      BY <2>2, <3>1, <3>2 DEF KeysCopied, Copies, ServedWithin
  <2>4. v'[i].pc = "reread" /\ v'[i].why = "none"
    BY <1>0, <1>5, <2>1 DEF Install, TypeOK, Call
  <2>5. Sound(i)'
    BY <2>2, <2>4 DEF Sound, ReplyCopied, RereadIsFresh, WellJudged, Refusals
  <2>6. ASSUME NEW j \in Verifiers, j # i  PROVE Sound(j)'
    <3>1. v'[j] = v[j] /\ Sound(j)
      BY <1>0, <1>5, <2>6 DEF Install, TypeOK, KeyInv
    <3> QED
      BY <2>2, <3>1
         DEF Sound, ReplyCopied, RereadIsFresh, WellJudged, Copies, ServedWithin
  <2> QED
    BY <2>3, <2>5, <2>6
<1>6. ASSUME NEW i \in Verifiers, FetchFails(i)  PROVE KeysCopied' /\ \A j \in Verifiers : Sound(j)'
  <2> DEFINE new == [v[i] EXCEPT !.pc = IF v[i].had THEN "reread" ELSE "done", !.failed = TRUE,
                                 !.why = IF v[i].had THEN "none" ELSE "no key",
                                 !.body = {}, !.jwks = FALSE]
  <2>1. v' = [v EXCEPT ![i] = new] /\ UNCHANGED <<served, changed, keys, fetched, genuine>>
    BY <1>0, <1>6 DEF FetchFails, TypeOK
  <2>2. v[i] \in Call
    BY <1>0, <1>6, BusyIsCall DEF FetchFails, Waiting
  <2>3. /\ v'[i].pc \in {"reread", "done"} /\ v'[i].failed = TRUE /\ v'[i].jwks = FALSE
        /\ v'[i].why \in {"none", "no key"} /\ (v'[i].pc # "done" => v'[i].why = "none")
    BY <1>0, <2>1, <2>2 DEF TypeOK, Call
  <2>4. Sound(i)'
    BY <2>1, <2>3 DEF Sound, ReplyCopied, RereadIsFresh, WellJudged, ServedWithin
  <2> HIDE DEF new
  <2> QED
    BY <2>1, <2>4, OthersKeep
<1>7. ASSUME NEW i \in Verifiers, Reread(i)  PROVE KeysCopied' /\ \A j \in Verifiers : Sound(j)'
  <2> DEFINE t == v[i].token
             why == Outcome(t, v[i].left, Lookup(t.by.kid))
             new == [v[i] EXCEPT !.pc = "done", !.jwks = genuine, !.left = 0, !.waited = 0, !.why = why]
  <2>1. v' = [v EXCEPT ![i] = new] /\ UNCHANGED <<served, changed, keys, fetched, genuine>>
    BY <1>0, <1>7 DEF Reread, TypeOK
  <2>2. v[i] \in Call
    BY <1>0, <1>7, BusyIsCall DEF Reread
  <2>3. t \in Tokens
    BY <2>2 DEF Call
  <2>4. /\ v'[i].pc = "done" /\ v'[i].token = t /\ v'[i].jwks = genuine
        /\ v'[i].why = why /\ v'[i].failed = v[i].failed
    <3> HIDE DEF why
    <3> QED
      BY <1>0, <2>1, <2>2 DEF TypeOK, Call
  <2>5. v[i].failed \/ fetched <= MaxAge
    BY <1>7 DEF Reread, KeyInv, Sound, RereadIsFresh
  <2>6. ASSUME ~v[i].failed
        PROVE  /\ why = "accepted" => ServedWithin(t.by, MaxAge + Timeout)
               /\ why \in Refusals => ~genuine \/ ~(t.by \in served /\ changed[t.by] = OldAge)
    BY <1>0, <2>3, <2>5, <2>6, FreshJudges
  <2> HIDE DEF why, t
  <2>7. Sound(i)'
    BY <2>1, <2>4, <2>6 DEF Sound, ReplyCopied, RereadIsFresh, WellJudged, ServedWithin
  <2> HIDE DEF new
  <2> QED
    BY <2>1, <2>7, OthersKeep
<1>8. ASSUME NEW i \in Verifiers, Return(i)  PROVE KeysCopied' /\ \A j \in Verifiers : Sound(j)'
  <2>1. v' = [v EXCEPT ![i] = Idle] /\ UNCHANGED <<served, changed, keys, fetched, genuine>>
    BY <1>8 DEF Return
  <2>2. v'[i].pc = "idle" /\ v'[i].why = "none"
    BY <1>0, <2>1 DEF TypeOK, Idle
  <2>3. Sound(i)'
    BY <2>2 DEF Sound, ReplyCopied, RereadIsFresh, WellJudged, Refusals
  <2> QED
    BY <2>1, <2>3, OthersKeep
<1>9. CASE Tick
  <2>1. /\ UNCHANGED <<served, keys, genuine>> /\ fetched' = UpTo(MaxAge + 1, fetched)
        /\ \A p \in Pairs : changed'[p] = UpTo(OldAge, changed[p])
    BY <1>9 DEF Tick
  <2>2. ASSUME NEW copy, NEW p \in Pairs, NEW n \in Nat, NEW good, n <= MaxAge + Timeout,
               Copies(copy, p, n, good)
        PROVE  /\ p \in copy => p \in served' \/ changed'[p] <= n + 1
               /\ good /\ p \in served' /\ changed'[p] > n + 1 => p \in copy
    <3>1. changed[p] \in 0 .. OldAge /\ OldAge = MaxAge + Timeout + 1
      BY <1>0 DEF TypeOK, OldAge
    <3>2. changed'[p] <= changed[p] + 1
      BY <2>1, <3>1 DEF UpTo
    <3>3. changed'[p] > n + 1 => changed[p] > n
      BY <2>1, <2>2, <3>1 DEF UpTo
    <3>4. changed'[p] \in Int
      BY <2>1, <3>1 DEF UpTo
    <3> QED
      BY <2>1, <2>2, <3>1, <3>2, <3>3, <3>4 DEF Copies, ServedWithin
  <2>3. KeysCopied'
    <3>1. ASSUME fetched' <= MaxAge
          PROVE  fetched' = fetched + 1 /\ fetched <= MaxAge /\ fetched + Timeout \in Nat
      BY <1>0, <2>1, <3>1 DEF TypeOK, UpTo
    <3>2. ASSUME fetched' <= MaxAge, NEW p \in Pairs
          PROVE  /\ p \in keys => p \in served' \/ changed'[p] <= fetched' + Timeout
                 /\ genuine /\ p \in served' /\ changed'[p] > fetched' + Timeout => p \in keys
      <4>1. fetched' = fetched + 1 /\ fetched <= MaxAge /\ fetched + Timeout \in Nat /\ fetched \in Nat
        BY <1>0, <3>1, <3>2 DEF TypeOK
      <4>2. Copies(keys, p, fetched + Timeout, genuine) /\ fetched + Timeout <= MaxAge + Timeout
        BY <1>0, <4>1 DEF KeysCopied
      <4>3. fetched' + Timeout = (fetched + Timeout) + 1
        BY <4>1
      <4> QED
        BY <2>2, <4>1, <4>2, <4>3
    <3> QED
      BY <1>0, <2>1, <3>2 DEF KeysCopied, Copies, ServedWithin
  <2>4. ASSUME NEW j \in Verifiers  PROVE Sound(j)'
    <3>1. CASE v[j].pc = "idle"
      <4>1. v'[j] = v[j] /\ v[j].why = "none"
        BY <1>9, <3>1 DEF Tick, KeyInv, Sound, RereadIsFresh
      <4> QED
        BY <3>1, <4>1 DEF Sound, ReplyCopied, RereadIsFresh, WellJudged, Refusals
    <3>2. CASE v[j].pc # "idle"
      <4>1. v[j] \in Call /\ v[j].pc \in {"fetch", "reply"} /\ v[j].waited < Timeout /\ Sound(j)
        BY <1>0, <1>9, <3>2, BusyIsCall DEF Tick, Waiting, KeyInv
      <4>2. /\ v'[j].pc = v[j].pc /\ v'[j].why = "none" /\ v'[j].waited = v[j].waited + 1
            /\ v'[j].body = v[j].body /\ v'[j].jwks = v[j].jwks /\ v[j].waited \in Nat
        <5>1. v'[j] = [v[j] EXCEPT !.waited = @ + 1,
                                   !.left = IF @ = Forever \/ Expired(@) THEN @ ELSE @ - 1]
          BY <1>9, <3>2 DEF Tick
        <5>2. v[j].waited \in 0 .. Timeout
          BY <4>1 DEF Call
        <5>3. v[j].why = "none"
          BY <4>1 DEF Sound, RereadIsFresh
        <5>4. v[j].waited \in Nat
          BY <5>2
        <5> QED
          BY <4>1, <5>1, <5>3, <5>4 DEF Call
      <4>3. ReplyCopied(j)'
        <5>1. ASSUME v[j].pc = "reply", NEW p \in Pairs
              PROVE  /\ p \in v[j].body => p \in served' \/ changed'[p] <= v[j].waited + 1
                     /\ v[j].jwks /\ p \in served' /\ changed'[p] > v[j].waited + 1
                          => p \in v[j].body
          <6>1. Copies(v[j].body, p, v[j].waited, v[j].jwks)
            BY <4>1, <5>1 DEF Sound, ReplyCopied
          <6>2. v[j].waited <= MaxAge + Timeout
            BY <4>1, <4>2
          <6> QED
            BY <2>2, <4>2, <6>1, <6>2
        <5> QED
          BY <4>1, <4>2, <5>1 DEF Sound, ReplyCopied, Copies, ServedWithin
      <4> QED
        BY <4>1, <4>2, <4>3 DEF Sound, RereadIsFresh, WellJudged, Refusals
    <3> QED
      BY <3>1, <3>2
  <2> QED
    BY <2>3, <2>4
<1>10. CASE UNCHANGED vars
  BY <1>10 DEF KeyInv, vars, KeysCopied, Copies, ServedWithin,
               Sound, ReplyCopied, RereadIsFresh, WellJudged
<1> QED
  BY <1>1, <1>2, <1>3, <1>4, <1>5, <1>6, <1>7, <1>8, <1>9, <1>10 DEF Next

LEMMA KeyInvHolds == Spec => []KeyInv
<1>1. Init => KeyInv
  BY InitType, InitSound DEF KeyInv
<1> QED
  BY <1>1, KeyInvInductive, PTL DEF Spec

-----------------------------------------------------------------------------
(* A token is only accepted on a key that the provider published at most   *)
(* MaxAge and one fetch ago, or after its own refresh failed.              *)
THEOREM RetiredKeyDiesHolds == Spec => []RetiredKeyDies
<1>1. KeyInv => RetiredKeyDies
  BY DEF KeyInv, Sound, WellJudged, RetiredKeyDies
<1> QED
  BY <1>1, KeyInvHolds, PTL

(* A token whose key has not been touched for that long is not refused for *)
(* its key, unless its own fetch failed or what it read was not the JWKS.  *)
THEOREM SteadyKeyWorksHolds == Spec => []SteadyKeyWorks
<1>1. KeyInv => SteadyKeyWorks
  BY DEF KeyInv, Sound, WellJudged, Refusals, SteadyKeyWorks
<1> QED
  BY <1>1, KeyInvHolds, PTL
=============================================================================
