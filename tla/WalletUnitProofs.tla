------------------------- MODULE WalletUnitProofs --------------------------
(***************************************************************************)
(* Theorems about WalletUnit, for any number of wallets, attestations and  *)
(* credential requests, and whatever parties fail.                         *)
(***************************************************************************)
EXTENDS WalletUnit, StatusListProofs, TLAPS

USE DEF Working, Admitted, lookupVars, wuaVars, credVars, walletVars

\* TypeOK is an invariant: no step leaves a variable outside the values the Go
\* fields and the database columns can hold.
THEOREM WalletUnitType == Spec => []TypeOK
<1>1. Init => TypeOK
  BY DEF Init, TypeOK
<1>2. TypeOK /\ [Next]_vars => TypeOK'
  <2> SUFFICES ASSUME TypeOK, [Next]_vars PROVE TypeOK'
    OBVIOUS
  <2> USE DEF TypeOK
  <2>1. ASSUME NEW w \in Wua, NEW t \in Tag, Lookup(w, t) PROVE TypeOK'
    BY <2>1 DEF Lookup, Fails
  <2>2. ASSUME NEW w \in Wua, CheckRevoked(w) PROVE TypeOK'
    <3>1. clock + Lifetime \in Nat
      BY ParamAssumption
    <3>. QED
      BY <2>2, <3>1 DEF CheckRevoked
  <2>3. ASSUME NEW w \in Wua, TakeSlot(w) PROVE TypeOK'
    <3>1. /\ step' \in [Wua -> {"slotted", "failed"} \union {step[v] : v \in Wua}]
          /\ UNCHANGED <<clock, account, revoked, listed, missed, since, recorded, tag, person,
                         owners, expires, context, cstep, wua, subject>>
      BY <2>3 DEF TakeSlot, walletVars, lookupVars, credVars
    <3>2. slot' \in [Wua -> Slot \union {NoSlot}] /\ taken' \in SUBSET Slot
      BY <2>3 DEF TakeSlot
    <3>. QED
      BY <3>1, <3>2
  <2>4. ASSUME NEW w \in Wua, RecordSlot(w) PROVE TypeOK'
    BY <2>4 DEF RecordSlot
  <2>5. ASSUME NEW w \in Wua, SignAndStore(w) PROVE TypeOK'
    BY <2>5 DEF SignAndStore
  <2>6. ASSUME NEW c \in Cred, NEW w \in Wua, Redeem(c, w) PROVE TypeOK'
    BY <2>6 DEF Redeem
  <2>7. ASSUME NEW c \in Cred, Process(c) PROVE TypeOK'
    BY <2>7 DEF Process, Validate, Forward, Relay
  <2>8. ASSUME NEW t \in Tag, NEW p \in Person \union {NoPerson}, Register(t, p) PROVE TypeOK'
    BY <2>8 DEF Register, Owned
  <2>9. ASSUME NEW t \in Tag, Cleanup(t) \/ Revoke(t) PROVE TypeOK'
    <3>1. CASE Cleanup(t)
      BY <3>1 DEF Cleanup, Owned
    <3>2. CASE Revoke(t)
      BY <3>2 DEF Revoke
    <3>. QED
      BY <2>9, <3>1, <3>2
  <2>10. CASE Crash
    BY <2>10 DEF Crash
  <2>11. CASE Tick
    BY <2>11 DEF Tick
  <2>12. CASE UNCHANGED vars
    BY <2>12 DEF vars
  <2>. QED
    BY <2>1, <2>2, <2>3, <2>4, <2>5, <2>6, <2>7, <2>8, <2>9, <2>10, <2>11, <2>12
       DEF Next, Advance
<1>. QED
  BY <1>1, <1>2, PTL DEF Spec

-----------------------------------------------------------------------------
(***************************************************************************)
(* One use.  A context exists only for a WUA that has been issued, and     *)
(* never again once a request has taken it.                                *)
(***************************************************************************)

ContextOnlyIssued ==
    \A w \in Wua : context[w] # NoContext => step[w] = "issued"

RedeemedSpent ==
    \A c \in Cred : Redeemed(c) => step[wua[c]] = "issued" /\ context[wua[c]] = NoContext

OneUseInv == ContextOnlyIssued /\ RedeemedSpent /\ RedeemedOnce

LEMMA OneUseInit == Init => OneUseInv
BY DEF Init, OneUseInv, ContextOnlyIssued, RedeemedSpent, RedeemedOnce, Redeemed

LEMMA OneUseStep == TypeOK /\ OneUseInv /\ [Next]_vars => OneUseInv'
<1> SUFFICES ASSUME TypeOK, OneUseInv, [Next]_vars PROVE OneUseInv'
  OBVIOUS
<1> USE DEF TypeOK, OneUseInv, ContextOnlyIssued, RedeemedSpent, RedeemedOnce, Redeemed
<1>1. ASSUME NEW w \in Wua, NEW t \in Tag, Lookup(w, t) PROVE OneUseInv'
  BY <1>1 DEF Lookup
<1>2. ASSUME NEW w \in Wua, CheckRevoked(w) PROVE OneUseInv'
  BY <1>2 DEF CheckRevoked
<1>3. ASSUME NEW w \in Wua, TakeSlot(w) PROVE OneUseInv'
  BY <1>3 DEF TakeSlot
<1>4. ASSUME NEW w \in Wua, RecordSlot(w) PROVE OneUseInv'
  BY <1>4 DEF RecordSlot
<1>5. ASSUME NEW w \in Wua, SignAndStore(w) PROVE OneUseInv'
  BY <1>5 DEF SignAndStore
<1>6. ASSUME NEW c \in Cred, NEW w \in Wua, Redeem(c, w) PROVE OneUseInv'
  BY <1>6 DEF Redeem
<1>7. ASSUME NEW c \in Cred, Process(c) PROVE OneUseInv'
  BY <1>7 DEF Process, Validate, Forward, Relay
<1>8. ASSUME NEW t \in Tag, NEW p \in Person \union {NoPerson}, Register(t, p) PROVE OneUseInv'
  BY <1>8 DEF Register, Owned
<1>9. ASSUME NEW t \in Tag, Cleanup(t) \/ Revoke(t) PROVE OneUseInv'
  BY <1>9 DEF Cleanup, Owned, Revoke
<1>10. CASE Crash
  BY <1>10 DEF Crash
<1>11. CASE Tick
  BY <1>11 DEF Tick
<1>12. CASE UNCHANGED vars
  BY <1>12 DEF vars
<1>. QED
  BY <1>1, <1>2, <1>3, <1>4, <1>5, <1>6, <1>7, <1>8, <1>9, <1>10, <1>11, <1>12
     DEF Next, Advance

\* A WUA admits at most one credential request: PopAccessContext gives the
\* context of a WUA away once, under any interleaving and any failure.
THEOREM WalletUnitRedeemedOnce == Spec => []RedeemedOnce
<1>1. OneUseInv => RedeemedOnce
  BY DEF OneUseInv
<1>. QED
  BY <1>1, OneUseInit, OneUseStep, WalletUnitType, PTL DEF Spec

Issued == {w \in Wua : step[w] = "issued"}
Grants == {<<c, wua[c]>> : c \in {x \in Cred : Redeemed(x)}}

LEMMA OneUseRefines == TypeOK /\ OneUseInv /\ [Next]_vars => [OneTime!Next]_(OneTime!avars)
<1> SUFFICES ASSUME TypeOK, OneUseInv, [Next]_vars
             PROVE  OneTime!Next \/ UNCHANGED <<Issued, Grants>>
  BY DEF OneTime!avars, Issued, Grants
<1> USE DEF TypeOK
<1>1. ASSUME NEW w \in Wua, NEW t \in Tag, Lookup(w, t) PROVE UNCHANGED <<Issued, Grants>>
  BY <1>1 DEF Lookup, Issued, Grants, Redeemed
<1>2. ASSUME NEW w \in Wua, CheckRevoked(w) PROVE UNCHANGED <<Issued, Grants>>
  BY <1>2 DEF CheckRevoked, Issued, Grants, Redeemed
<1>3. ASSUME NEW w \in Wua, TakeSlot(w) PROVE UNCHANGED <<Issued, Grants>>
  BY <1>3 DEF TakeSlot, Issued, Grants, Redeemed
<1>4. ASSUME NEW w \in Wua, RecordSlot(w) PROVE UNCHANGED <<Issued, Grants>>
  BY <1>4 DEF RecordSlot, Issued, Grants, Redeemed
<1>5. ASSUME NEW w \in Wua, SignAndStore(w) PROVE OneTime!Next \/ UNCHANGED <<Issued, Grants>>
  <2>1. UNCHANGED Grants /\ w \notin Issued /\ step'[w] \in {"issued", "failed"}
    BY <1>5 DEF SignAndStore, Grants, Redeemed, Issued
  <2>2. \A v \in Wua \ {w} : step'[v] = step[v]
    BY <1>5 DEF SignAndStore
  <2>3. CASE step'[w] = "issued"
    <3>1. Issued' = Issued \union {w}
      BY <2>2, <2>3 DEF Issued
    <3>2. OneTime!Issue(w)
      BY <2>1, <3>1 DEF OneTime!Issue, Issued, Grants
    <3>. QED
      BY <3>2 DEF OneTime!Next
  <2>4. CASE step'[w] = "failed"
    BY <2>1, <2>2, <2>4 DEF Issued
  <2>. QED
    BY <2>1, <2>3, <2>4
<1>6. ASSUME NEW c \in Cred, NEW w \in Wua, Redeem(c, w)
      PROVE  OneTime!Next \/ UNCHANGED <<Issued, Grants>>
  <2>1. /\ UNCHANGED Issued /\ w \in Issued
        /\ ~Redeemed(c)
        /\ cstep'[c] \in {"popped", "refused"}
        /\ wua'[c] = w
        /\ cstep'[c] = "popped" => context[w] # NoContext
        /\ \A d \in Cred \ {c} : cstep'[d] = cstep[d] /\ wua'[d] = wua[d]
    BY <1>6 DEF Redeem, Issued, Redeemed
  <2>2. CASE cstep'[c] = "popped"
    <3>1. Grants' = Grants \union {<<c, w>>}
      BY <2>1, <2>2 DEF Grants, Redeemed
    <3>2. \A g \in Grants : g[2] # w
      BY <2>1, <2>2 DEF Grants, OneUseInv, RedeemedSpent
    <3>3. OneTime!Grant(c, w)
      BY <2>1, <3>1, <3>2 DEF OneTime!Grant, Issued, Grants
    <3>. QED
      BY <3>3 DEF OneTime!Next
  <2>3. CASE cstep'[c] = "refused"
    BY <2>1, <2>3 DEF Grants, Redeemed
  <2>. QED
    BY <2>1, <2>2, <2>3
<1>7. ASSUME NEW c \in Cred, Process(c) PROVE UNCHANGED <<Issued, Grants>>
  BY <1>7 DEF Process, Validate, Forward, Relay, Issued, Grants, Redeemed
<1>8. ASSUME NEW t \in Tag, NEW p \in Person \union {NoPerson}, Register(t, p)
      PROVE  UNCHANGED <<Issued, Grants>>
  BY <1>8 DEF Register, Owned, Issued, Grants, Redeemed
<1>9. ASSUME NEW t \in Tag, Cleanup(t) \/ Revoke(t) PROVE UNCHANGED <<Issued, Grants>>
  BY <1>9 DEF Cleanup, Owned, Revoke, Issued, Grants, Redeemed
<1>10. CASE Crash
  <2>1. \A c \in Cred : Redeemed(c)' <=> Redeemed(c)
    BY <1>10 DEF Crash, Redeemed
  <2>. QED
    BY <1>10, <2>1 DEF Crash, Issued, Grants
<1>11. CASE Tick
  BY <1>11 DEF Tick, Issued, Grants, Redeemed
<1>12. CASE UNCHANGED vars
  BY <1>12 DEF vars, Issued, Grants, Redeemed
<1>. QED
  BY <1>1, <1>2, <1>3, <1>4, <1>5, <1>6, <1>7, <1>8, <1>9, <1>10, <1>11, <1>12
     DEF Next, Advance

\* The two handlers implement a token of one use, with no end to the promise.
THEOREM WalletUnitImplementsOneTime == Spec => ImplementsOneTimeToken
<1>1. Init => OneTime!Init
  BY DEF Init, OneTime!Init, Redeemed
<1>. QED
  BY <1>1, OneUseInit, OneUseStep, OneUseRefines, WalletUnitType, PTL
     DEF Spec, ImplementsOneTimeToken, OneTime!Spec

-----------------------------------------------------------------------------
(***************************************************************************)
(* Identity.  The person of a WUA request is one the instance had while    *)
(* the request ran, and the context keeps it for that WUA alone.           *)
(***************************************************************************)

PersonOwned ==
    \A w \in Wua : person[w] # NoPerson => step[w] # "idle" /\ person[w] \in owners[w]

ContextIsPerson ==
    \A w \in Wua : context[w] # NoContext => context[w] = person[w]

SubjectInv ==
    /\ ContextOnlyIssued
    /\ RedeemedSpent
    /\ PersonOwned
    /\ ContextIsPerson
    /\ \A c \in Cred : Redeemed(c) => subject[c] = NoPerson \/ subject[c] = person[wua[c]]

LEMMA SubjectInit == Init => SubjectInv
BY DEF Init, SubjectInv, ContextOnlyIssued, RedeemedSpent, PersonOwned, ContextIsPerson, Redeemed

LEMMA SubjectStep == TypeOK /\ SubjectInv /\ [Next]_vars => SubjectInv'
<1> SUFFICES ASSUME TypeOK, SubjectInv, [Next]_vars PROVE SubjectInv'
  OBVIOUS
<1> USE ParamAssumption DEF TypeOK, SubjectInv, ContextOnlyIssued, RedeemedSpent, PersonOwned,
        ContextIsPerson, Redeemed
<1>1. ASSUME NEW w \in Wua, NEW t \in Tag, Lookup(w, t) PROVE SubjectInv'
  <2>1. /\ \A v \in Wua \ {w} : person'[v] = person[v] /\ step'[v] = step[v] /\ owners'[v] = owners[v]
        /\ UNCHANGED <<context, cstep, wua, subject>>
        /\ step[w] = "idle" /\ step'[w] \in {"known", "failed"}
    BY <1>1 DEF Lookup
  <2>2. person[w] = NoPerson
    BY <2>1
  <2>3. person'[w] = NoPerson \/ person'[w] \in owners'[w]
    BY <1>1, <2>2 DEF Lookup, Fails
  <2>4. PersonOwned'
    BY <2>1, <2>3
  <2>5. context[w] = NoContext /\ \A c \in Cred : Redeemed(c) => wua[c] # w
    BY <2>1
  <2>. QED
    BY <2>1, <2>4, <2>5
<1>2. ASSUME NEW w \in Wua, CheckRevoked(w) PROVE SubjectInv'
  BY <1>2 DEF CheckRevoked
<1>3. ASSUME NEW w \in Wua, TakeSlot(w) PROVE SubjectInv'
  BY <1>3 DEF TakeSlot
<1>4. ASSUME NEW w \in Wua, RecordSlot(w) PROVE SubjectInv'
  BY <1>4 DEF RecordSlot
<1>5. ASSUME NEW w \in Wua, SignAndStore(w) PROVE SubjectInv'
  BY <1>5 DEF SignAndStore
<1>6. ASSUME NEW c \in Cred, NEW w \in Wua, Redeem(c, w) PROVE SubjectInv'
  BY <1>6 DEF Redeem
<1>7. ASSUME NEW c \in Cred, Process(c) PROVE SubjectInv'
  BY <1>7 DEF Process, Validate, Forward, Relay
<1>8. ASSUME NEW t \in Tag, NEW p \in Person \union {NoPerson}, Register(t, p) PROVE SubjectInv'
  BY <1>8 DEF Register, Owned
<1>9. ASSUME NEW t \in Tag, Cleanup(t) \/ Revoke(t) PROVE SubjectInv'
  BY <1>9 DEF Cleanup, Owned, Revoke
<1>10. CASE Crash
  BY <1>10 DEF Crash
<1>11. CASE Tick
  BY <1>11 DEF Tick
<1>12. CASE UNCHANGED vars
  BY <1>12 DEF vars
<1>. QED
  BY <1>1, <1>2, <1>3, <1>4, <1>5, <1>6, <1>7, <1>8, <1>9, <1>10, <1>11, <1>12
     DEF Next, Advance

\* A credential request is forwarded with no identity but one its instance had
\* while the WUA was in the making, however often the instance changes hands.
THEOREM WalletUnitSubjectOwnedAtIssue == Spec => []SubjectOwnedAtIssue
<1>1. TypeOK /\ SubjectInv => SubjectOwnedAtIssue
  BY DEF TypeOK, SubjectInv, SubjectOwnedAtIssue, PersonOwned, RedeemedSpent, Redeemed
<1>. QED
  BY <1>1, SubjectInit, SubjectStep, WalletUnitType, PTL DEF Spec

-----------------------------------------------------------------------------
(***************************************************************************)
(* Revocation.  Slots are not shared, a recorded slot is that of a WUA of  *)
(* the same instance, and only recorded slots get listed.                  *)
(***************************************************************************)

\* What is read of a WUA's entry is whether the entry is listed.
LEMMA StatusIsListed ==
    ASSUME TypeOK, NEW w \in Wua, slot[w] # NoSlot
    PROVE  StatusOf(w) = IF slot[w] \in listed THEN "listed" ELSE "unlisted"
<1>1. slot[w] \in Nat /\ slot[w] <= Capacity(ListBytes, Bits) - 1
  BY ListAssumption DEF TypeOK
<1>. QED
  BY <1>1, ListAssumption, ReadsBack DEF StatusOf

ListedHitsOwner == \A w \in Wua : slot[w] \in listed => tag[w] \in revoked

SlotsOwned ==
    /\ \A w \in Wua : step[w] \in {"idle", "known", "cleared"} => slot[w] = NoSlot
    /\ \A w \in Wua : slot[w] # NoSlot => slot[w] \in taken
    /\ \A v, w \in Wua : slot[v] = slot[w] /\ slot[v] # NoSlot => v = w

RecordedOwned ==
    \A t \in Tag, s \in Slot : <<t, s>> \in recorded =>
        \E w \in Wua : step[w] # "idle" /\ tag[w] = t /\ slot[w] = s

RevocationInv ==
    /\ SlotsOwned
    /\ RecordedOwned
    /\ listed \subseteq taken
    /\ ListedHitsOwner

LEMMA RevocationInit == Init => RevocationInv
BY ParamAssumption DEF Init, RevocationInv, SlotsOwned, RecordedOwned, ListedHitsOwner

LEMMA RevocationStep == TypeOK /\ RevocationInv /\ [Next]_vars => RevocationInv'
<1> SUFFICES ASSUME TypeOK, RevocationInv, [Next]_vars PROVE RevocationInv'
  OBVIOUS
<1> USE ParamAssumption DEF TypeOK, RevocationInv, SlotsOwned, RecordedOwned, ListedHitsOwner
<1>1. ASSUME NEW w \in Wua, NEW t \in Tag, Lookup(w, t) PROVE RevocationInv'
  <2>1. /\ \A v \in Wua \ {w} : step'[v] = step[v] /\ tag'[v] = tag[v]
        /\ step[w] = "idle" /\ step'[w] \in {"known", "failed"}
        /\ UNCHANGED <<slot, taken, recorded, listed, revoked>>
    <3>1. /\ step[w] = "idle" /\ tag' = [tag EXCEPT ![w] = t]
          /\ UNCHANGED <<slot, taken, recorded, listed, revoked>>
      BY <1>1 DEF Lookup
    <3>2. step' \in {[step EXCEPT ![w] = "known"], [step EXCEPT ![w] = "failed"]}
      BY <1>1 DEF Lookup
    <3>. QED
      BY <3>1, <3>2
  <2>. QED
    BY <2>1
<1>2. ASSUME NEW w \in Wua, CheckRevoked(w) PROVE RevocationInv'
  <2>1. /\ step[w] = "known"
        /\ UNCHANGED <<tag, slot, taken, recorded, listed, revoked>>
    BY <1>2 DEF CheckRevoked
  <2>2. step' \in {[step EXCEPT ![w] = "cleared"], [step EXCEPT ![w] = "failed"]}
    BY <1>2 DEF CheckRevoked
  <2>. QED
    BY <2>1, <2>2
<1>3. ASSUME NEW w \in Wua, TakeSlot(w) PROVE RevocationInv'
  <2>1. /\ \A v \in Wua \ {w} : slot'[v] = slot[v] /\ step'[v] = step[v]
        /\ UNCHANGED <<tag, recorded, listed, revoked>>
        /\ step[w] = "cleared" /\ step'[w] \in {"slotted", "failed"}
        /\ taken \subseteq taken'
        /\ slot[w] = NoSlot
        /\ slot'[w] = NoSlot \/ (slot'[w] \in taken' /\ slot'[w] \notin taken)
    BY <1>3 DEF TakeSlot
  <2>2. SlotsOwned'
    <3>1. SlotsOwned
      OBVIOUS
    <3>2. \A v \in Wua : slot'[v] = slot[v] \/ v = w
      BY <2>1
    <3>3. \A v \in Wua : slot[v] # NoSlot => slot[v] \in taken /\ slot[v] # slot'[w]
      BY <2>1, <3>1
    <3>4. \A v \in Wua : step'[v] \in {"idle", "known", "cleared"} => slot'[v] = NoSlot
      BY <2>1, <3>1, <3>2
    <3>5. \A v \in Wua : slot'[v] # NoSlot => slot'[v] \in taken'
      BY <2>1, <3>2, <3>3
    <3>6. \A u, v \in Wua : slot'[u] = slot'[v] /\ slot'[u] # NoSlot => u = v
      BY <3>1, <3>2, <3>3
    <3>. QED
      BY <3>4, <3>5, <3>6
  <2>3. RecordedOwned'
    <3> SUFFICES ASSUME NEW t \in Tag, NEW s \in Slot, <<t, s>> \in recorded
                 PROVE  \E v \in Wua : step'[v] # "idle" /\ tag'[v] = t /\ slot'[v] = s
      BY <2>1
    <3>1. PICK v \in Wua : step[v] # "idle" /\ tag[v] = t /\ slot[v] = s
      OBVIOUS
    <3>. QED
      BY <2>1, <3>1
  <2>4. (listed \subseteq taken)' /\ ListedHitsOwner'
    BY <2>1
  <2>. QED
    BY <2>2, <2>3, <2>4
<1>4. ASSUME NEW w \in Wua, RecordSlot(w) PROVE RevocationInv'
  BY <1>4 DEF RecordSlot
<1>5. ASSUME NEW w \in Wua, SignAndStore(w) PROVE RevocationInv'
  BY <1>5 DEF SignAndStore
<1>6. ASSUME NEW c \in Cred, NEW w \in Wua, Redeem(c, w) PROVE RevocationInv'
  BY <1>6 DEF Redeem
<1>7. ASSUME NEW c \in Cred, Process(c) PROVE RevocationInv'
  BY <1>7 DEF Process, Validate, Forward, Relay
<1>8. ASSUME NEW t \in Tag, NEW p \in Person \union {NoPerson}, Register(t, p) PROVE RevocationInv'
  BY <1>8 DEF Register, Owned
<1>9. ASSUME NEW t \in Tag, Cleanup(t) \/ Revoke(t) PROVE RevocationInv'
  <2>1. CASE Cleanup(t)
    BY <2>1 DEF Cleanup, Owned
  <2>2. CASE Revoke(t)
    <3>1. /\ UNCHANGED <<step, tag, slot, taken, recorded>>
          /\ revoked' = revoked \union {t}
          /\ listed' = listed \union {s \in Slot : <<t, s>> \in recorded}
      BY <2>2 DEF Revoke
    <3>2. \A s \in Slot : <<t, s>> \in recorded =>
             s \in taken /\ \A w \in Wua : slot[w] = s => tag[w] = t
      <4> SUFFICES ASSUME NEW s \in Slot, <<t, s>> \in recorded
                   PROVE  s \in taken /\ \A w \in Wua : slot[w] = s => tag[w] = t
        OBVIOUS
      <4>1. PICK v \in Wua : tag[v] = t /\ slot[v] = s
        OBVIOUS
      <4>. QED
        BY <4>1
    <3>3. SlotsOwned' /\ RecordedOwned' /\ (listed \subseteq taken)'
      BY <3>1, <3>2
    <3>4. ListedHitsOwner'
      BY <3>1, <3>2
    <3>. QED
      BY <3>3, <3>4
  <2>. QED
    BY <1>9, <2>1, <2>2
<1>10. CASE Crash
  BY <1>10 DEF Crash
<1>11. CASE Tick
  BY <1>11 DEF Tick
<1>12. CASE UNCHANGED vars
  BY <1>12 DEF vars
<1>. QED
  BY <1>1, <1>2, <1>3, <1>4, <1>5, <1>6, <1>7, <1>8, <1>9, <1>10, <1>11, <1>12
     DEF Next, Advance

\* Revoking a wallet lists no slot of another wallet's WUA, and no reading of
\* the list takes another entry for its own.
THEOREM WalletUnitRevocationHitsOwner == Spec => []RevocationHitsOwner
<1>1. TypeOK /\ RevocationInv => RevocationHitsOwner
  BY StatusIsListed DEF RevocationInv, ListedHitsOwner, RevocationHitsOwner
<1>. QED
  BY <1>1, RevocationInit, RevocationStep, WalletUnitType, PTL DEF Spec

-----------------------------------------------------------------------------
(***************************************************************************)
(* Availability.  With a cache and a process that do not fail, a context   *)
(* stays until a request takes it.                                         *)
(***************************************************************************)

ContextKept ==
    \A w \in Wua : step[w] = "issued" =>
        context[w] # NoContext \/ \E c \in Cred : Redeemed(c) /\ wua[c] = w

LEMMA AvailableInit == Init => ContextKept
BY DEF Init, ContextKept

LEMMA AvailableStep ==
    ASSUME Faulty \intersect {"cache", "process"} = {}, TypeOK, ContextKept, [Next]_vars
    PROVE  ContextKept'
<1> USE DEF TypeOK, ContextKept, Redeemed
<1>1. ASSUME NEW w \in Wua, NEW t \in Tag, Lookup(w, t) PROVE ContextKept'
  BY <1>1 DEF Lookup
<1>2. ASSUME NEW w \in Wua, CheckRevoked(w) PROVE ContextKept'
  BY <1>2 DEF CheckRevoked
<1>3. ASSUME NEW w \in Wua, TakeSlot(w) PROVE ContextKept'
  BY <1>3 DEF TakeSlot
<1>4. ASSUME NEW w \in Wua, RecordSlot(w) PROVE ContextKept'
  BY <1>4 DEF RecordSlot
<1>5. ASSUME NEW w \in Wua, SignAndStore(w) PROVE ContextKept'
  <2>1. person[w] # NoContext
    BY ParamAssumption
  <2>2. /\ UNCHANGED <<cstep, wua>>
        /\ \A u \in Wua \ {w} : step'[u] = step[u] /\ context'[u] = context[u]
        /\ step'[w] = "issued" => context'[w] = person[w]
    <3>1. "cache" \notin Faulty
      OBVIOUS
    <3>2. Fails("cache") = {FALSE}
      BY <3>1, Zenon DEF Fails
    <3>3. \/ /\ step' = [step EXCEPT ![w] = "issued"]
             /\ context' = [context EXCEPT ![w] = person[w]]
          \/ step' = [step EXCEPT ![w] = "failed"] /\ context' = context
      BY <1>5, <3>2, Zenon DEF SignAndStore
    <3>4. cstep' = cstep /\ wua' = wua
      BY <1>5 DEF SignAndStore
    <3>. QED
      BY <3>3, <3>4
  <2>. QED
    BY <2>1, <2>2
<1>6. ASSUME NEW c \in Cred, NEW w \in Wua, Redeem(c, w) PROVE ContextKept'
  <2>1. /\ UNCHANGED step
        /\ \A u \in Wua \ {w} : context'[u] = context[u]
        /\ \A d \in Cred \ {c} : cstep'[d] = cstep[d] /\ wua'[d] = wua[d]
        /\ ~Redeemed(c)
        /\ wua'[c] = w
        /\ cstep'[c] = "popped" \/ context'[w] = context[w]
    BY <1>6 DEF Redeem
  <2>. QED
    BY <2>1
<1>7. ASSUME NEW c \in Cred, Process(c) PROVE ContextKept'
  <2>1. UNCHANGED <<step, context, wua>> /\ \A d \in Cred : Redeemed(d) => Redeemed(d)'
    BY <1>7 DEF Process, Validate, Forward, Relay
  <2>. QED
    BY <2>1
<1>8. ASSUME NEW t \in Tag, NEW p \in Person \union {NoPerson}, Register(t, p) PROVE ContextKept'
  BY <1>8 DEF Register, Owned
<1>9. ASSUME NEW t \in Tag, Cleanup(t) \/ Revoke(t) PROVE ContextKept'
  BY <1>9 DEF Cleanup, Owned, Revoke
<1>10. CASE Crash
  BY <1>10 DEF Crash
<1>11. CASE Tick
  BY <1>11 DEF Tick
<1>12. CASE UNCHANGED vars
  BY <1>12 DEF vars
<1>. QED
  BY <1>1, <1>2, <1>3, <1>4, <1>5, <1>6, <1>7, <1>8, <1>9, <1>10, <1>11, <1>12
     DEF Next, Advance

\* While the cache works and the process does not restart, a valid WUA that was
\* not presented yet has its context in the cache.
THEOREM WalletUnitContextAvailable ==
    ASSUME Faulty \intersect {"cache", "process"} = {}
    PROVE  Spec => []ContextAvailable
<1>1. TypeOK /\ ContextKept /\ [Next]_vars => ContextKept'
  BY AvailableStep
<1>2. ContextKept => ContextAvailable
  BY DEF ContextKept, ContextAvailable
<1>. QED
  BY <1>1, <1>2, AvailableInit, WalletUnitType, PTL DEF Spec

-----------------------------------------------------------------------------
(***************************************************************************)
(* Cut-off.  A WUA past its record step has its slot recorded, so that a   *)
(* revocation lists it, or it is one of those that no revocation reaches.  *)
(* These are valid for no longer than a WUA cleared at the revocation.     *)
(***************************************************************************)

RecordedUnlessMissed ==
    \A w \in Wua : step[w] \in {"recorded", "issued"} /\ slot[w] # NoSlot =>
        <<tag[w], slot[w]>> \in recorded \/ w \in missed

ListedUnlessMissed ==
    \A w \in Wua : tag[w] \in revoked /\ w \notin missed =>
        /\ step[w] \notin {"cleared", "slotted"}
        /\ step[w] \in {"recorded", "issued"} /\ slot[w] # NoSlot => slot[w] \in listed

\* Only a request that has started can be missed.
MissedStarted == \A w \in missed : step[w] # "idle"

CutOffInv ==
    RedeemedSpent /\ ContextOnlyIssued /\ RecordedUnlessMissed /\ ListedUnlessMissed /\ MissedStarted

LEMMA CutOffInit == Init => CutOffInv
BY DEF Init, CutOffInv, RedeemedSpent, ContextOnlyIssued, RecordedUnlessMissed, ListedUnlessMissed,
       MissedStarted, Redeemed

LEMMA CutOffStep ==
    ASSUME TypeOK, CutOffInv, [Next]_vars
    PROVE  CutOffInv'
<1> USE DEF TypeOK, CutOffInv, RedeemedSpent, ContextOnlyIssued, RecordedUnlessMissed,
        ListedUnlessMissed, MissedStarted, Redeemed, Fails
<1>1. ASSUME NEW w \in Wua, NEW t \in Tag, Lookup(w, t) PROVE CutOffInv'
  BY <1>1 DEF Lookup, Fails
<1>2. ASSUME NEW w \in Wua, CheckRevoked(w) PROVE CutOffInv'
  BY <1>2 DEF CheckRevoked
<1>3. ASSUME NEW w \in Wua, TakeSlot(w) PROVE CutOffInv'
  BY <1>3 DEF TakeSlot
<1>4. ASSUME NEW w \in Wua, RecordSlot(w) PROVE CutOffInv'
  BY <1>4 DEF RecordSlot
<1>5. ASSUME NEW w \in Wua, SignAndStore(w) PROVE CutOffInv'
  <2> HIDE DEF TypeOK, CutOffInv, RedeemedSpent, ContextOnlyIssued, RecordedUnlessMissed,
               ListedUnlessMissed, MissedStarted
  <2>1. /\ step[w] = "recorded"
        /\ UNCHANGED <<recorded, tag, slot, revoked, missed, listed, cstep, wua>>
    BY <1>5, Zenon DEF SignAndStore, credVars, walletVars
  <2>2. /\ \A u \in Wua \ {w} : step'[u] = step[u] /\ context'[u] = context[u]
        /\ step'[w] = "issued" \/ (step'[w] = "failed" /\ context'[w] = context[w])
    <3>1. \/ step' = [step EXCEPT ![w] = "issued"]
          \/ step' = [step EXCEPT ![w] = "failed"] /\ UNCHANGED context
      BY <1>5, Zenon DEF SignAndStore
    <3>2. context' = context \/ context' = [context EXCEPT ![w] = person[w]]
      BY <1>5, Zenon DEF SignAndStore
    <3>. QED
      BY <3>1, <3>2 DEF TypeOK
  <2>a. RedeemedSpent /\ ContextOnlyIssued /\ RecordedUnlessMissed /\ ListedUnlessMissed
        /\ MissedStarted
    BY DEF CutOffInv
  <2>3. RecordedUnlessMissed'
    BY <2>1, <2>2, <2>a DEF RecordedUnlessMissed
  <2>4. ListedUnlessMissed'
    BY <2>1, <2>2, <2>a DEF ListedUnlessMissed
  <2>5. ContextOnlyIssued'
    BY <2>1, <2>2, <2>a DEF ContextOnlyIssued
  <2>6. RedeemedSpent'
    BY <2>1, <2>2, <2>a DEF RedeemedSpent, TypeOK
  <2>7. MissedStarted'
    BY <2>1, <2>2, <2>a DEF MissedStarted, TypeOK
  <2>. QED
    BY <2>3, <2>4, <2>5, <2>6, <2>7 DEF CutOffInv
<1>6. ASSUME NEW c \in Cred, NEW w \in Wua, Redeem(c, w) PROVE CutOffInv'
  BY <1>6 DEF Redeem
<1>7. ASSUME NEW c \in Cred, Process(c) PROVE CutOffInv'
  <2> HIDE DEF CutOffInv, RedeemedSpent, ContextOnlyIssued, RecordedUnlessMissed, ListedUnlessMissed,
               MissedStarted
  <2>1. /\ UNCHANGED <<recorded, tag, slot, revoked, missed, listed, step, context, wua>>
        /\ \A d \in Cred : Redeemed(d)' => Redeemed(d)
    BY <1>7 DEF Process, Validate, Forward, Relay
  <2>. QED
    BY <2>1 DEF CutOffInv, RedeemedSpent, ContextOnlyIssued, RecordedUnlessMissed, ListedUnlessMissed,
              MissedStarted
<1>8. ASSUME NEW t \in Tag, NEW p \in Person \union {NoPerson}, Register(t, p) PROVE CutOffInv'
  BY <1>8 DEF Register, Owned
<1>9. ASSUME NEW t \in Tag, Cleanup(t) \/ Revoke(t) PROVE CutOffInv'
  BY <1>9 DEF Cleanup, Owned, Revoke
<1>10. CASE Crash
  BY <1>10 DEF Crash
<1>11. CASE Tick
  BY <1>11 DEF Tick
<1>12. CASE UNCHANGED vars
  BY <1>12 DEF vars
<1>. QED
  BY <1>1, <1>2, <1>3, <1>4, <1>5, <1>6, <1>7, <1>8, <1>9, <1>10, <1>11, <1>12
     DEF Next, Advance

\* Validation is what a request needs to go on: it finds the WUA issued, in its
\* lifetime, and with an entry that is not listed.
LEMMA CheckedWhen ==
    ASSUME TypeOK, CutOffInv, Next, NEW c \in Cred, cstep[c] = "popped", cstep'[c] = "checked"
    PROVE  /\ step[wua[c]] = "issued" /\ Live(wua[c])
           /\ slot[wua[c]] # NoSlot /\ slot[wua[c]] \notin listed
<1>1. Validate(c)
  BY DEF TypeOK, Next, Lookup, Advance, CheckRevoked, TakeSlot, RecordSlot, SignAndStore,
         Redeem, Process, Validate, Forward, Relay, Register, Cleanup, Owned, Revoke, Crash, Tick
<1>2. Live(wua[c]) /\ slot[wua[c]] # NoSlot /\ slot[wua[c]] \notin listed
  BY <1>1, StatusIsListed DEF Validate, ValidStatus, TypeOK
<1>3. step[wua[c]] = "issued"
  BY DEF CutOffInv, RedeemedSpent, Redeemed
<1>. QED
  BY <1>2, <1>3

\* No credential request of a revoked wallet passes validation, but with a WUA
\* that was half-way through its issuance or whose record was lost.
THEOREM WalletUnitCutOff == Spec => RevocationCutsOff
<1> DEFINE A == \A c \in Cred :
                   cstep[c] = "popped" /\ cstep'[c] = "checked"
                       => tag[wua[c]] \notin revoked \/ wua[c] \in missed
<1>1. TypeOK /\ CutOffInv /\ [Next]_vars => CutOffInv'
  BY CutOffStep
<1>2. TypeOK /\ CutOffInv /\ [Next]_vars => [A]_vars
  BY CheckedWhen DEF CutOffInv, ListedUnlessMissed, TypeOK
<1>. QED
  BY <1>1, <1>2, CutOffInit, WalletUnitType, PTL DEF Spec, RevocationCutsOff

\* The expiry is settled with the revocation check, before the revocation.
ExpirySettled ==
    \A w \in Wua :
        /\ expires[w] <= clock + Lifetime
        /\ tag[w] \in revoked /\ step[w] \notin {"idle", "known", "failed"} =>
               expires[w] <= since[tag[w]] + Lifetime

LEMMA ExpiryStep == ASSUME TypeOK, ExpirySettled, [Next]_vars PROVE ExpirySettled'
<1> USE ParamAssumption DEF ExpirySettled
<1>1. CASE /\ UNCHANGED <<expires, tag, revoked, since>>
           /\ clock' \in Nat /\ clock <= clock'
           /\ \A w \in Wua : step[w] \in {"idle", "known", "failed"} =>
                                step'[w] \in {"idle", "known", "failed"}
  BY <1>1 DEF TypeOK
<1>2. ASSUME NEW w \in Wua, NEW t \in Tag, Lookup(w, t) PROVE ExpirySettled'
  <2>1. /\ UNCHANGED <<expires, clock, revoked, since>>
        /\ step'[w] \in {"known", "failed"}
        /\ \A v \in Wua \ {w} : step'[v] = step[v] /\ tag'[v] = tag[v]
    BY <1>2 DEF Lookup, TypeOK
  <2>. QED
    BY <2>1 DEF TypeOK
<1>3. ASSUME NEW w \in Wua, CheckRevoked(w) PROVE ExpirySettled'
  <2>1. /\ UNCHANGED <<clock, tag, revoked, since>>
        /\ \A v \in Wua \ {w} : step'[v] = step[v] /\ expires'[v] = expires[v]
        /\ \/ step'[w] = "failed" /\ expires'[w] = expires[w]
           \/ tag[w] \notin revoked /\ expires'[w] = clock + Lifetime
    BY <1>3 DEF CheckRevoked, TypeOK
  <2>. QED
    BY <2>1 DEF TypeOK
<1>4. ASSUME NEW w \in Wua, TakeSlot(w) \/ RecordSlot(w) \/ SignAndStore(w) PROVE ExpirySettled'
  <2>1. /\ UNCHANGED <<clock, tag, revoked, since, expires>>
        /\ step[w] \in {"cleared", "slotted", "recorded"}
        /\ \A v \in Wua \ {w} : step'[v] = step[v]
    BY <1>4 DEF TakeSlot, RecordSlot, SignAndStore, TypeOK
  <2>. QED
    BY <2>1 DEF TypeOK
<1>5. ASSUME NEW t \in Tag, Revoke(t) PROVE ExpirySettled'
  <2>1. /\ UNCHANGED <<clock, tag, step, expires>>
        /\ revoked' = revoked \union {t}
        /\ since'[t] = clock /\ \A u \in Tag \ {t} : since'[u] = since[u]
    BY <1>5 DEF Revoke, TypeOK
  <2>. QED
    BY <2>1 DEF TypeOK
<1>6. CASE Crash
  <2>1. UNCHANGED <<clock, tag, revoked, since, expires>>
        /\ \A w \in Wua : step'[w] = step[w] \/ step'[w] = "failed"
    BY <1>6 DEF Crash, TypeOK
  <2>. QED
    BY <2>1 DEF TypeOK
<1>7. ASSUME NEW c \in Cred, NEW w \in Wua, Redeem(c, w) \/ Process(c) PROVE ExpirySettled'
  BY <1>1, <1>7 DEF Redeem, Process, Validate, Forward, Relay, TypeOK
<1>8. ASSUME NEW t \in Tag, Cleanup(t) \/ \E p \in Person \union {NoPerson} : Register(t, p)
      PROVE  ExpirySettled'
  BY <1>1, <1>8 DEF Cleanup, Register, TypeOK
<1>9. CASE Tick \/ UNCHANGED vars
  BY <1>1, <1>9 DEF Tick, vars, TypeOK
<1>. QED
  BY <1>2, <1>3, <1>4, <1>5, <1>6, <1>7, <1>8, <1>9 DEF Next, Advance, Process

\* Nothing that belongs to a revoked wallet is valid for longer than a lifetime
\* after the revocation, whether or not its slot was recorded and listed.
THEOREM WalletUnitRevokedWithinLifetime == Spec => RevokedWithinLifetime
<1> DEFINE A == \A c \in Cred :
                   cstep[c] = "popped" /\ cstep'[c] = "checked" =>
                       LET t == tag[wua[c]] IN t \in revoked => clock < since[t] + Lifetime
<1>1. Init => ExpirySettled
  BY ParamAssumption DEF Init, ExpirySettled
<1>2. TypeOK /\ ExpirySettled /\ [Next]_vars => ExpirySettled'
  BY ExpiryStep
<1>3. TypeOK /\ CutOffInv /\ [Next]_vars => CutOffInv'
  BY CutOffStep
<1>4. TypeOK /\ CutOffInv /\ ExpirySettled /\ [Next]_vars => [A]_vars
  <2> SUFFICES ASSUME TypeOK, CutOffInv, ExpirySettled, Next, NEW c \in Cred,
                      cstep[c] = "popped", cstep'[c] = "checked", tag[wua[c]] \in revoked
               PROVE  clock < since[tag[wua[c]]] + Lifetime
    OBVIOUS
  <2>1. step[wua[c]] = "issued" /\ clock < expires[wua[c]]
    BY CheckedWhen DEF Live
  <2>2. expires[wua[c]] <= since[tag[wua[c]]] + Lifetime
    BY <2>1 DEF ExpirySettled, TypeOK
  <2>. QED
    BY <2>1, <2>2, ParamAssumption DEF TypeOK
<1>. QED
  BY <1>1, <1>2, <1>3, <1>4, CutOffInit, WalletUnitType, PTL DEF Spec, RevokedWithinLifetime

\* Which WUAs a revoked wallet may still use is settled at its revocation: none is
\* added to them later.  As a WUA admits one credential request (RedeemedOnce), the
\* wallet gets no more requests through than these.
ExceptionsSettled ==
    [][\A t \in revoked :
          {w \in missed' : tag'[w] = t} = {w \in missed : tag[w] = t}]_vars

THEOREM WalletUnitExceptionsSettled == Spec => ExceptionsSettled
<1>1. TypeOK /\ CutOffInv /\ [Next]_vars => CutOffInv'
  BY CutOffStep
<1>2. ASSUME TypeOK, CutOffInv, [Next]_vars, NEW t \in revoked
      PROVE  {w \in missed' : tag'[w] = t} = {w \in missed : tag[w] = t}
  <2>a. MissedStarted /\ ListedUnlessMissed
    BY <1>2 DEF CutOffInv
  <2>1. ASSUME NEW u \in Tag, Revoke(u)
        PROVE  tag' = tag /\ missed' \ missed \subseteq {w \in Wua : tag[w] # t} /\ missed \subseteq missed'
    BY <1>2, <2>1 DEF Revoke
  <2>2. ASSUME NEW v \in Wua, NEW u \in Tag, Lookup(v, u)
        PROVE  missed' = missed /\ \A w \in missed : tag'[w] = tag[w]
    <3>1. missed' = missed /\ tag' = [tag EXCEPT ![v] = u] /\ step[v] = "idle"
      BY <2>2, Zenon DEF Lookup, walletVars
    <3>. QED
      BY <1>2, <2>a, <3>1 DEF MissedStarted, TypeOK
  <2>3. ASSUME NEW v \in Wua, RecordSlot(v)
        PROVE  tag' = tag /\ missed' \ missed \subseteq {w \in Wua : tag[w] # t} /\ missed \subseteq missed'
    <3>1. tag' = tag /\ step[v] = "slotted" /\ (missed' = missed \/ missed' = missed \union {v})
      BY <2>3 DEF RecordSlot
    <3>2. tag[v] = t => v \in missed
      BY <2>a, <3>1 DEF ListedUnlessMissed
    <3>. QED
      BY <3>1, <3>2
  <2>4. \/ \E u \in Tag : Revoke(u)
        \/ \E v \in Wua, u \in Tag : Lookup(v, u)
        \/ \E v \in Wua : RecordSlot(v)
        \/ UNCHANGED <<missed, tag>>
    BY <1>2 DEF Next, Advance, CheckRevoked, TakeSlot, SignAndStore, Redeem, Process,
       Validate, Forward, Relay, Register, Cleanup, Crash, Tick, vars
  <2>5. missed \subseteq Wua
    BY <1>2 DEF TypeOK
  <2>. QED
    BY <2>1, <2>2, <2>3, <2>4, <2>5
<1>3. TypeOK /\ CutOffInv /\ [Next]_vars =>
        [\A t \in revoked : {w \in missed' : tag'[w] = t} = {w \in missed : tag[w] = t}]_vars
  BY <1>2
<1>. QED
  BY <1>1, <1>3, CutOffInit, WalletUnitType, PTL DEF Spec, ExceptionsSettled

=============================================================================
