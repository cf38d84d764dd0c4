----------------------------- MODULE WalletUnit -----------------------------
(***************************************************************************)
(* The wallet unit attestation (WUA) from its issuance to its use.         *)
(*                                                                         *)
(* POST /wallet-unit-attestation/jwk-set (IssueWalletUnitAttestation)      *)
(* checks the wallet in the database, takes a slot of a status list,       *)
(* records it, signs the WUA and leaves an access context for it in the    *)
(* wua-access-token cache.  POST /credential (credentialJWT) takes that    *)
(* context out again, validates the WUA and forwards the request to the    *)
(* credential issuer.  The steps of all requests interleave; each step     *)
(* ends at a call to another service, which may fail.                      *)
(***************************************************************************)
EXTENDS StatusList

CONSTANTS
    Tag,            \* hardware key tags: the wallet instances
    Person,         \* accounts an instance may belong to
    Wua,            \* requests for a WUA; each is also the WUA it yields
    Cred,           \* credential requests that present a WUA
    Slot,           \* entries of the status list: their indices
    Bits,           \* width of an entry
    ListBytes,      \* length of the list
    Code,           \* the bits that are on in the status of a revoked entry
    Lifetime,       \* of a WUA and of its access context (24 hours)
    MaxClock,       \* bound on the clock
    Faulty,         \* parties that may fail: see Party
    NoPerson,       \* the instance is anonymous, or its account is unknown
    Unregistered,   \* the database has no such instance
    NoSlot,         \* the status list's answer named no entry
    NoContext       \* the cache has no entry

Party == {"database", "cache", "statuslist", "signer", "issuer", "process"}

ASSUME ParamAssumption ==
    /\ Lifetime \in Nat \ {0}
    /\ MaxClock \in Nat
    /\ Faulty \subseteq Party
    /\ {NoPerson, Unregistered, NoContext} \intersect Person = {}
    /\ NoPerson # Unregistered /\ NoPerson # NoContext
    /\ NoSlot \notin Slot

ASSUME ListAssumption ==
    /\ Bits \in Widths /\ ListBytes \in Nat
    /\ Slot \subseteq {i \in Nat : i <= Capacity(ListBytes, Bits) - 1}
    /\ Code \in SUBSET (0..(Bits - 1)) /\ Code # {}

VARIABLES
    clock,
    account,    \* account[t]: whose instance t is, in the database
    revoked,    \* instances whose wallet is revoked
    recorded,   \* <<instance, slot>> rows of allocate_revocation_index
    taken,      \* slots the status list has given out
    listed,     \* slots whose status bit is set
    step,       \* step[w]: progress of the request for WUA w
    tag,        \* the instance it names
    person,     \* the person read with the instance's public key
    slot,       \* the slot it was given
    expires,    \* exp claim of the WUA
    context,    \* wua-access-token cache: the person kept under each WUA
    cstep,      \* cstep[c]: progress of the credential request c
    wua,        \* the WUA it presents
    subject,    \* the person of the context it took
    \* History, for the properties: no action reads it.
    missed,     \* WUAs a revocation caught half-way, or whose record was lost
    since,      \* since[t]: when the wallet of a revoked instance was revoked
    owners      \* owners[w]: whose its instance was while w was in the making

lookupVars == <<tag, person, owners>>
wuaVars == <<step, lookupVars, slot, expires>>
credVars == <<cstep, wua, subject>>
walletVars == <<account, revoked, listed, missed, since>>
vars == <<clock, account, revoked, recorded, taken, listed, step, tag, person, slot,
          expires, context, cstep, wua, subject, missed, since, owners>>

Working == {"known", "cleared", "slotted", "recorded"}
Admitted == {"popped", "checked", "sent"}

TypeOK ==
    /\ clock \in Nat
    /\ account \in [Tag -> Person \union {NoPerson, Unregistered}]
    /\ revoked \in SUBSET Tag
    /\ recorded \in SUBSET (Tag \X Slot)
    /\ taken \in SUBSET Slot
    /\ listed \in SUBSET Slot
    /\ step \in [Wua -> {"idle", "issued", "failed"} \union Working]
    /\ tag \in [Wua -> Tag]
    /\ person \in [Wua -> Person \union {NoPerson}]
    /\ slot \in [Wua -> Slot \union {NoSlot}]
    /\ expires \in [Wua -> Nat]
    /\ context \in [Wua -> Person \union {NoPerson, NoContext}]
    /\ cstep \in [Cred -> {"idle", "refused", "delivered", "failed"} \union Admitted]
    /\ wua \in [Cred -> Wua]
    /\ subject \in [Cred -> Person \union {NoPerson}]
    /\ missed \in SUBSET Wua
    /\ since \in [Tag -> Nat]
    /\ owners \in [Wua -> SUBSET Person]

Init ==
    /\ clock = 0
    /\ account = [t \in Tag |-> Unregistered]
    /\ revoked = {} /\ recorded = {} /\ taken = {} /\ listed = {} /\ missed = {}
    /\ since = [t \in Tag |-> 0]
    /\ owners = [w \in Wua |-> {}]
    /\ step = [w \in Wua |-> "idle"]
    /\ tag \in {[w \in Wua |-> t] : t \in Tag}
    /\ person = [w \in Wua |-> NoPerson]
    /\ slot = [w \in Wua |-> NoSlot]
    /\ expires = [w \in Wua |-> 0]
    /\ context = [w \in Wua |-> NoContext]
    /\ cstep = [c \in Cred |-> "idle"]
    /\ wua \in {[c \in Cred |-> w] : w \in Wua}
    /\ subject = [c \in Cred |-> NoPerson]

\* Whether a call to the party fails.
Fails(party) == IF party \in Faulty THEN BOOLEAN ELSE {FALSE}

-----------------------------------------------------------------------------
(***************************************************************************)
(* Issuance.                                                               *)
(***************************************************************************)

\* get_public_key.  Only "not found" ends the request: after any other error it
\* goes on without a person.  A request without keys ends here as well.
Lookup(w, t) ==
    /\ step[w] = "idle"
    /\ tag' = [tag EXCEPT ![w] = t]
    /\ \E dbFails \in Fails("database"), hasKeys \in BOOLEAN :
          IF ~hasKeys \/ (~dbFails /\ account[t] = Unregistered)
          THEN step' = [step EXCEPT ![w] = "failed"] /\ UNCHANGED person
          ELSE /\ step' = [step EXCEPT ![w] = "known"]
               /\ person' = [person EXCEPT ![w] = IF dbFails THEN NoPerson ELSE account[t]]
    /\ owners' = [owners EXCEPT ![w] = {account[t]} \intersect Person]
    /\ UNCHANGED <<clock, walletVars, recorded, taken, slot, expires, context, credVars>>

\* Fault: a database that fails is taken for "not revoked".
CheckRevoked_FailsOpen(w) ==
    /\ step[w] = "known"
    /\ \E dbFails \in Fails("database"), keysValid \in BOOLEAN :
          IF (tag[w] \in revoked /\ ~dbFails) \/ ~keysValid
          THEN step' = [step EXCEPT ![w] = "failed"] /\ UNCHANGED expires
          ELSE /\ step' = [step EXCEPT ![w] = "cleared"]
               /\ expires' = [expires EXCEPT ![w] = clock + Lifetime]
    /\ UNCHANGED <<clock, walletVars, recorded, taken, lookupVars, slot, context, credVars>>

\* get_revocation_status, then the keys and the expiry, all before the next call.
CheckRevoked(w) ==
    /\ step[w] = "known"
    /\ \E dbFails \in Fails("database"), keysValid \in BOOLEAN :
          IF dbFails \/ tag[w] \in revoked \/ ~keysValid
          THEN step' = [step EXCEPT ![w] = "failed"] /\ UNCHANGED expires
          ELSE /\ step' = [step EXCEPT ![w] = "cleared"]
               /\ expires' = [expires EXCEPT ![w] = clock + Lifetime]
    /\ UNCHANGED <<clock, walletVars, recorded, taken, lookupVars, slot, context, credVars>>

\* Fault: the slot of an earlier answer is used again.
TakeSlot_Cached(w) ==
    /\ step[w] = "cleared"
    /\ \E s \in Slot :
          /\ taken = {} \/ s \in taken
          /\ taken' = taken \union {s}
          /\ slot' = [slot EXCEPT ![w] = s]
    /\ step' = [step EXCEPT ![w] = "slotted"]
    /\ UNCHANGED <<clock, walletVars, recorded, lookupVars, expires, context, credVars>>

\* POST /take of the status list service.  When the answer is lost the slot is
\* gone; an answer that names no list is taken as it is.
TakeSlot(w) ==
    /\ step[w] = "cleared"
    /\ \/ \E s \in Slot \ taken :
             /\ taken' = taken \union {s}
             /\ slot' = [slot EXCEPT ![w] = s]
             /\ step' = [step EXCEPT ![w] = "slotted"]
       \/ /\ "statuslist" \in Faulty
          /\ step' = [step EXCEPT ![w] = "failed"]
          /\ UNCHANGED slot
          /\ UNCHANGED taken \/ \E s \in Slot \ taken : taken' = taken \union {s}
       \/ /\ "statuslist" \in Faulty
          /\ step' = [step EXCEPT ![w] = "slotted"]
          /\ UNCHANGED <<slot, taken>>
    /\ UNCHANGED <<clock, walletVars, recorded, lookupVars, expires, context, credVars>>

\* Fault: only the first WUA of an instance is recorded.
RecordSlot_First(w) ==
    /\ step[w] = "slotted"
    /\ step' = [step EXCEPT ![w] = "recorded"]
    /\ recorded' = IF \E s \in Slot : <<tag[w], s>> \in recorded THEN recorded
                   ELSE recorded \union {<<tag[w], slot[w]>>}
    /\ UNCHANGED <<clock, walletVars, taken, lookupVars, slot, expires, context, credVars>>

\* storeWUARevocationInfo: a failure is logged and issuance goes on.
RecordSlot(w) ==
    /\ step[w] = "slotted"
    /\ step' = [step EXCEPT ![w] = "recorded"]
    /\ \E dbFails \in Fails("database") :
          /\ recorded' = IF dbFails \/ slot[w] = NoSlot THEN recorded
                         ELSE recorded \union {<<tag[w], slot[w]>>}
          /\ missed' = IF dbFails THEN missed \union {w} ELSE missed
    /\ UNCHANGED <<clock, account, revoked, listed, since, taken, lookupVars, slot, expires,
                   context, credVars>>

\* Fault: the WUA of an instance without an account gets no context.
SignAndStore_NoContext(w) ==
    /\ step[w] = "recorded"
    /\ step' = [step EXCEPT ![w] = "issued"]
    /\ context' = IF person[w] = NoPerson THEN context ELSE [context EXCEPT ![w] = person[w]]
    /\ UNCHANGED <<clock, walletVars, recorded, taken, lookupVars, slot, expires, credVars>>

\* Fault: the expiry is computed when the WUA is signed.
SignAndStore_Later(w) ==
    /\ step[w] = "recorded"
    /\ step' = [step EXCEPT ![w] = "issued"]
    /\ expires' = [expires EXCEPT ![w] = clock + Lifetime]
    /\ context' = [context EXCEPT ![w] = person[w]]
    /\ UNCHANGED <<clock, walletVars, recorded, taken, lookupVars, slot, credVars>>

\* Fault: contexts are kept under the instance, not under the WUA.
SignAndStore_ByInstance(w) ==
    /\ step[w] = "recorded"
    /\ step' = [step EXCEPT ![w] = "issued"]
    /\ context' = [v \in Wua |-> IF v = w \/ (tag[v] = tag[w] /\ step[v] = "issued")
                                 THEN person[w] ELSE context[v]]
    /\ UNCHANGED <<clock, walletVars, recorded, taken, lookupVars, slot, expires, credVars>>

\* The WUA is signed, its context stored under it (an error of the cache is
\* dropped), and only then does the wallet get to see it.
SignAndStore(w) ==
    /\ step[w] = "recorded"
    /\ \/ /\ step' = [step EXCEPT ![w] = "issued"]
          /\ \E lost \in Fails("cache") :
                context' = IF lost THEN context ELSE [context EXCEPT ![w] = person[w]]
       \/ /\ "signer" \in Faulty
          /\ step' = [step EXCEPT ![w] = "failed"]
          /\ UNCHANGED context
    /\ UNCHANGED <<clock, walletVars, recorded, taken, lookupVars, slot, expires, credVars>>

-----------------------------------------------------------------------------
(***************************************************************************)
(* Use.                                                                    *)
(***************************************************************************)

Live(w) == clock < expires[w]

\* Fault: the context is read and left in the cache.
Redeem_Get(c, w) ==
    /\ cstep[c] = "idle"
    /\ step[w] = "issued"
    /\ wua' = [wua EXCEPT ![c] = w]
    /\ \/ /\ context[w] # NoContext /\ Live(w)
          /\ cstep' = [cstep EXCEPT ![c] = "popped"]
          /\ subject' = [subject EXCEPT ![c] = context[w]]
       \/ /\ cstep' = [cstep EXCEPT ![c] = "refused"]
          /\ UNCHANGED subject
    /\ UNCHANGED <<clock, walletVars, recorded, taken, wuaVars, context>>

\* Fault: a miss yields the zero value and no error.
Redeem_ZeroOnMiss(c, w) ==
    /\ cstep[c] = "idle"
    /\ step[w] = "issued"
    /\ wua' = [wua EXCEPT ![c] = w]
    /\ cstep' = [cstep EXCEPT ![c] = "popped"]
    /\ subject' = [subject EXCEPT ![c] = context[w]]
    /\ context' = [context EXCEPT ![w] = NoContext]
    /\ UNCHANGED <<clock, walletVars, recorded, taken, wuaVars>>

\* PopAccessContext: look-up and removal are one step under wuaLock.  A request
\* without Authorization is turned away before.
Redeem(c, w) ==
    /\ cstep[c] = "idle"
    /\ step[w] = "issued"
    /\ wua' = [wua EXCEPT ![c] = w]
    /\ \/ /\ context[w] # NoContext /\ Live(w)
          /\ cstep' = [cstep EXCEPT ![c] = "popped"]
          /\ subject' = [subject EXCEPT ![c] = context[w]]
          /\ context' = [context EXCEPT ![w] = NoContext]
       \/ /\ cstep' = [cstep EXCEPT ![c] = "refused"]
          /\ UNCHANGED subject
          /\ \/ UNCHANGED context
             \/ "cache" \in Faulty /\ context' = [context EXCEPT ![w] = NoContext]
    /\ UNCHANGED <<clock, walletVars, recorded, taken, wuaVars>>

\* The entry of the WUA, read from the list the service publishes at the moment.
StatusOf(w) == isIndexListed(Publish(listed, ListBytes, Bits, Code), slot[w], Bits)

\* validateStatusList: a list that cannot be had, or does not verify, is an error.
ValidStatus(w, unreachable) ==
    ~unreachable /\ slot[w] # NoSlot /\ StatusOf(w) = "unlisted"

\* ValidateWUA: the WUA's expiry and its status.  What else may be wrong with the
\* request, in the WUA or beside it, ends it here.
Validate(c) ==
    LET w == wua[c] IN
    /\ cstep[c] = "popped"
    /\ \E unreachable \in Fails("statuslist"), sound \in BOOLEAN :
          cstep' = [cstep EXCEPT ![c] =
              IF sound /\ Live(w) /\ ValidStatus(w, unreachable) THEN "checked" ELSE "failed"]
    /\ UNCHANGED <<clock, walletVars, recorded, taken, wuaVars, context, wua, subject>>

\* The request goes to the issuer with the context's person and access token.
Forward(c) ==
    /\ cstep[c] = "checked"
    /\ cstep' = [cstep EXCEPT ![c] = "sent"]
    /\ UNCHANGED <<clock, walletVars, recorded, taken, wuaVars, context, wua, subject>>

\* Its answer, or its problem, is relayed.
Relay(c) ==
    /\ cstep[c] = "sent"
    /\ \E failed \in Fails("issuer") :
          cstep' = [cstep EXCEPT ![c] = IF failed THEN "failed" ELSE "delivered"]
    /\ UNCHANGED <<clock, walletVars, recorded, taken, wuaVars, context, wua, subject>>

-----------------------------------------------------------------------------
(***************************************************************************)
(* Around the two handlers.                                                *)
(***************************************************************************)

\* The account of an instance becomes p: this counts for the WUAs in the making.
Owned(t, p) ==
    /\ account' = [account EXCEPT ![t] = p]
    /\ owners' = [w \in Wua |-> IF tag[w] = t /\ step[w] \in Working
                                THEN owners[w] \union ({p} \intersect Person) ELSE owners[w]]

\* POST /instance (see Registration) calls create_instance without looking whether
\* the instance is there: it may be registered again, under another identity or
\* under none.  A database that refuses to is a call without effect.
Register(t, p) ==
    /\ Owned(t, p)
    /\ UNCHANGED <<clock, revoked, recorded, taken, listed, missed, since, step, tag, person,
                   slot, expires, context, credVars>>

\* The cleanup task deletes anonymous instances (see CleanupTask).
Cleanup(t) ==
    /\ account[t] = NoPerson
    /\ Owned(t, Unregistered)
    /\ UNCHANGED <<clock, revoked, recorded, taken, listed, missed, since, step, tag, person,
                   slot, expires, context, credVars>>

\* A wallet is revoked: the status bits of the slots recorded for it are set.
Revoke(t) ==
    /\ t \notin revoked
    /\ revoked' = revoked \union {t}
    /\ listed' = listed \union {s \in Slot : <<t, s>> \in recorded}
    /\ since' = [since EXCEPT ![t] = clock]
    /\ missed' = missed \union {w \in Wua : tag[w] = t /\ step[w] \in {"cleared", "slotted"}}
    /\ UNCHANGED <<clock, account, recorded, taken, wuaVars, context, credVars>>

\* A restart of the process loses the requests in progress and a memory cache.
Crash ==
    /\ "process" \in Faulty
    /\ step' = [w \in Wua |-> IF step[w] \in Working THEN "failed" ELSE step[w]]
    /\ cstep' = [c \in Cred |-> IF cstep[c] \in Admitted THEN "failed" ELSE cstep[c]]
    /\ context' = [w \in Wua |-> NoContext] \/ UNCHANGED context
    /\ UNCHANGED <<clock, walletVars, recorded, taken, lookupVars, slot, expires, wua, subject>>

Tick ==
    /\ clock < MaxClock
    /\ clock' = clock + 1
    /\ UNCHANGED <<walletVars, recorded, taken, wuaVars, context, credVars>>

Advance(w) == CheckRevoked(w) \/ TakeSlot(w) \/ RecordSlot(w) \/ SignAndStore(w)
Process(c) == Validate(c) \/ Forward(c) \/ Relay(c)

Next ==
    \/ \E w \in Wua, t \in Tag : Lookup(w, t)
    \/ \E w \in Wua : Advance(w)
    \/ \E c \in Cred, w \in Wua : Redeem(c, w)
    \/ \E c \in Cred : Process(c)
    \/ \E t \in Tag, p \in Person \union {NoPerson} : Register(t, p)
    \/ \E t \in Tag : Cleanup(t) \/ Revoke(t)
    \/ Crash
    \/ Tick

Spec == Init /\ [][Next]_vars

-----------------------------------------------------------------------------
(***************************************************************************)
(* Properties.                                                             *)
(***************************************************************************)

Redeemed(c) == cstep[c] \notin {"idle", "refused"}

\* A WUA admits at most one credential request, whatever fails and however the
\* requests interleave; one that fails later has used its WUA up all the same.
RedeemedOnce ==
    \A c, d \in Cred : c # d /\ Redeemed(c) /\ Redeemed(d) => wua[c] # wua[d]

\* WUAs implement the abstract one-time token, without an end to the promise.
OneTime == INSTANCE OneTimeToken WITH
    Request <- Cred,
    Token <- Wua,
    issued <- {w \in Wua : step[w] = "issued"},
    expired <- {},
    grants <- {<<c, wua[c]>> : c \in {x \in Cred : Redeemed(x)}}
ImplementsOneTimeToken == OneTime!Spec

\* A credential request carries no identity but one its wallet instance had while
\* the WUA it presents was in the making: neither that of an earlier or a later
\* registration of the instance, nor that of another one's.
SubjectOwnedAtIssue ==
    \A c \in Cred : Redeemed(c) => subject[c] = NoPerson \/ subject[c] \in owners[wua[c]]

\* Revoking one wallet never takes another wallet's WUA out of service: what is
\* read of a WUA's entry is not the entry of another one.
RevocationHitsOwner ==
    \A w \in Wua : slot[w] # NoSlot /\ StatusOf(w) # "unlisted" => tag[w] \in revoked

\* A revoked wallet gets no credential request past validation, except with a WUA
\* whose issuance the revocation caught between its check and the record of its
\* slot, or whose record the database lost.
RevocationCutsOff ==
    [][\A c \in Cred :
          cstep[c] = "popped" /\ cstep'[c] = "checked"
              => tag[wua[c]] \notin revoked \/ wua[c] \in missed]_vars

\* Whatever fails and whatever the revocation missed, nothing of a revoked wallet
\* gets past validation once the lifetime of a WUA has gone by since.
RevokedWithinLifetime ==
    [][\A c \in Cred :
          cstep[c] = "popped" /\ cstep'[c] = "checked" =>
              LET t == tag[wua[c]] IN t \in revoked => clock < since[t] + Lifetime]_vars

\* "Always store AccessContext so the credential endpoint can retrieve it":
\* a valid WUA not presented yet has its context in the cache.
ContextAvailable ==
    \A w \in Wua : step[w] = "issued" /\ Live(w) =>
        context[w] # NoContext \/ \E c \in Cred : Redeemed(c) /\ wua[c] = w

=============================================================================
