# TLA+ specifications of api-wallet

`api-wallet` is the wallet provider's back end: it registers wallet instances
from hardware key attestations, issues the two kinds of attestation a wallet
needs (the wallet instance attestation, WIA, and the wallet unit attestation,
WUA), and stands between the wallets and two services it forwards to, the
credential issuer and IDAuth. It is one Go process (several replicas may run)
over a database, a cache and a handful of HTTP services.

Paths below are relative to the repository; line numbers are those of the commit
the modules were written from.

## The system

| component | code | state it keeps | operations |
|---|---|---|---|
| nonce service | `openid4vci/nonce.go` | the `nonce-reuse` cache, a mutex | `Nonce`, `ValidateNonce` |
| instance registration | `routes/attestation.go`, `middleware.go` | rows of the database | `POST /nonce` behind `TryAuthenticate`, `POST /instance` |
| WUA issuance and use | `openid4vci/attestation_endpoints.go`, `openid4vci/wua.go`, `routes/issuer/issuer.go` | the `wua-access-token` cache, rows and status slots elsewhere | `IssueWalletUnitAttestation`, `PopAccessContext`, `ValidateWUA`, `credentialJWT` |
| clean-up task | `tasks/wallet_instance_cleanup.go` | a ticker, a goroutine, a channel | `Start`, `Stop`, the loop |
| eParaksts signing | `routes/eparaksts.go`, `simple_sign_client.go` | the session cache (request id to session id) | prepare, download, close, validate, identities |
| token endpoint | `routes/issuer/issuer.go`, `issuer/issuer.go` | the tx_code cache | `POST /token` for three grants |
| client attestation | `openid4vci/token.go` | none (reads the database) | `IssueAttestations`, `VerifyAttestation`, `VerifyAttestationPoP` |
| credential request | `routes/issuer/issuer.go` | none | routing by proof shape, proof extraction, forwarding |
| relay of problems | `routes/issuer/relay.go` | none | `relayDownstreamProblem` |
| status list check | `openid4vci/wua.go` | none (a list is fetched for each check) | `validateStatusList`, `isIndexListed` |
| key attestation | `attestation/` | none, but its answer depends on the time | `Verify` for Android and Apple: `verifyCert` and its second try, the raw leaf, the description of the key |
| the rest | `routes/pid.go`, `openid4vci/metadata.go`, `app.go`, `config.go`, ... | configuration | forwarding, metadata, wiring |

How they interact. A wallet asks for a nonce; the nonce carries, encrypted, the
session it was minted for. The wallet has its hardware attest a key with the
nonce as challenge and registers an instance: the handler verifies the
attestation, consumes the nonce, asks IDAuth whose session it was and creates the
row. Later the wallet asks for a WUA: the handler reads the instance and whether
the wallet is revoked, takes a slot of an external status list, records it for
revocation, signs, and leaves an access context in the cache under the WUA. A
credential request that presents the WUA takes that context out, has the WUA
validated (signature, expiry, current status bit) and is forwarded to the
issuer. In the background the clean-up task deletes anonymous instances.

What is hard. Every handler runs in a goroutine of its own, and each is a sequence
of calls to services that can fail, with state read before one call and used
after the next. Caches expire on the clock and can be local to a process. Several
failures are logged and ignored on purpose, which makes "what still holds" a
question for each of them. `PROJECT.json` lists the hazards line by line.

## Modules

| module | models | uses |
|---|---|---|
| `OneTimeToken` | abstract: a token is granted to at most one request while it has not expired | |
| `Nonce` | the nonce service: requests, mutex, cache, replicas, clock, restarts | `OneTimeToken` (refinement) |
| `Registration` | `POST /nonce` and `POST /instance` around the nonce service: sessions at IDAuth, device attestations, instances | extends `Nonce` |
| `StatusList` | an entry of a few bits in a list of bytes: how it is published and how `isIndexListed` reads it | |
| `WalletUnit` | the WUA from issuance to use, with revocation, clean-up and restarts around it | extends `StatusList`; `OneTimeToken` (refinement) |
| `ProofShape` | where a credential request keeps its key attestation: the extraction functions | |
| `IssuerRoutes` | `POST /token` and `POST /credential`, the services behind them, and the wallet that tries again | extends `ProofShape` |
| `RequestSession` | abstract: a request id has at most one session, and calls are turned away with reason | |
| `Eparaksts` | the session cache between prepare, download and close, and the signing service | `RequestSession` (refinement) |
| `CleanupTask` | the task that deletes expired anonymous instances: start, stop, the goroutine, the ticker | |
| `KeyAttestation` | `Verify` of the key attestation as a function of what is presented and when, and a phone that presents it again and again | |
| `<module>Proofs` | theorems about `<module>` (those of `ProofShape` are in `IssuerRoutesProofs`) | extends `<module>`, `TLAPS` |
| `MC<module>` | instances for TLC: symmetry sets, the payloads of `IssuerRoutes`, the attestations of `KeyAttestation` | extends `<module>` |

An operator `X_Something` in a module, marked *Fault*, is `X` with a plausible bug;
no specification uses one. Each property is known to fail when the `X` that
`PROJECT.json` names for it is replaced by its faulty form, which is how we know
that the property says something about the code.

### Nonce

One record per call of `ValidateNonce`: `pc` follows the function from the parsed
token (`Arrive`) over the mutex (`Lock`), the cache look-up (`CheckMarker`) and
the store (`StoreMarker`) to the deferred unlock (`Return`); `now` is the time the
call read before it waited, `at` the time it was let through. `marker[p][n]` is
the entry of the nonce-reuse cache as process `p` sees it; with `SharedCache` all
processes see one. Encryption is abstracted: only a minted token parses. A token
carries whole seconds (`WholeSecond`), which may leave a time to live of zero;
what the cache does with that is left open between "no entry" and "the cache's
default" (`EntryEnds`).

*Fairness*: a handler goroutine keeps running, and Go's mutex hands over to a
waiter that starves (strong fairness of `Lock`).

### Registration

Extends `Nonce` with the handlers around it: `stage`, `key` and `owner` of a call,
`audience` of a token (the session the nonce is minted for, or anonymous), the
sessions at IDAuth, the set of attestations devices have made, and the
instances in the database (`inserted`). `Submit` verifies the attestation against
the challenge before the nonce is consumed, as the handler does; `FetchUser` asks
IDAuth about the session in the nonce; `Create` runs `create_instance`, whose
answer may be lost. Sessions change and end, IDAuth and the database fail
(`Outages`), processes restart. What makes an attestation sound is one Boolean (`KeyAttestation` is about that).

*Fairness*: that of `Nonce`, and calls to IDAuth and the database return.

### WalletUnit

`step` follows `IssueWalletUnitAttestation` through the look-up of the instance, the
revocation check, the slot of the status list, the record of the slot, and the
signature with the access context; each of the services in `Faulty` may fail at
each of its calls. `cstep` follows a credential request that presents a WUA: the
context taken out of the cache (`Redeem`), `ValidateWUA` (`Validate`), the call of
the issuer (`Forward`) and its answer (`Relay`). Around them wallets register, are
cleaned up and are revoked: revocation sets the status entries recorded at
that time, and is for good. `Register` has no guard, as `POST /instance` calls `create_instance` without
looking: an instance may be registered again at any time, under another identity (the device that
changes hands of `openid4vci/wua.go:53`) or under none; what the procedure does in the database is not in
the repository, so every outcome is allowed, a refusal being a call without effect.

Three history variables are read by the properties alone: `owners[w]`, whose the instance was while
`w` was in the making; `since[t]`, when a wallet was revoked; and `missed`, the WUAs whose issuance a revocation
caught between the check and the record, or whose record the database lost. These are the two
weak spots of revocation in the code. `RevocationCutsOff` says there is no other, with a database that may fail at
every call, and `RevokedWithinLifetime` that what they let through ends a WUA's lifetime after the revocation.

The list that a validation fetches is the one `Publish` makes of the entries that are
listed at that moment, and `isIndexListed` reads it bit by bit (module `StatusList`):
an index past the end is not listed, a bit shifted out of the 64 of Go's `int` is lost. The
fetch, and the checks of the token around the list, are one answer: the list or an error.

The module states safety only: no fairness.

### ProofShape and IssuerRoutes

`ProofShape` translates the functions that look for a key attestation in the
body of a credential request; a field is its first element and the next that is
not blank, because nothing else is ever looked at. `IssuerRoutes` models both
endpoints, one call per wallet. `TokenCall` covers the three grants: whether an
attestation is needed, the attestation and its PoP, and for the pre-authorized
grant `InjectTXCode`. `CredentialCall` chooses the route, `PopContext` and
`ValidateProof` are the route of a WUA. IDAuth and the issuer (`Serve`,
`ServiceFails`) challenge a DPoP proof that has not the current nonce, do what
they are asked, refuse, answer with something that is no problem document, or
fail before or after they have done it. `Relayed` is what the wallet is told, `Read` what it
learns. Contexts themselves are in `WalletUnit`: here there may be one or not.

*Fairness*: handlers run and wallets read their answers. A wallet that still has
something to get keeps trying, with its own attestation and transaction code,
and renews the attestation if its grant needs one; services that are asked
over and over do not always fail. These are assumptions about the environment;
the code's part is that such a wallet gets there.

### Eparaksts

`cache` maps a request id to a session, `open` and `owner` are the service's own
records. A call looks the id up, calls the service, and stores or deletes the
entry, in three steps. Entries expire at any time, the cache and the service fail
at any call. History variables say how a run went so far: `overlapped` (the ids of which two calls
have overlapped), `lost` (sessions whose answer or store failed, or whose entry expired), `unclosed` (sessions whose close
failed) and `sound` (nothing has failed or expired). `OnlyKnownLosses` bounds the damage whatever
happens: which failure leaves a session out of reach, which leaves an entry that blocks its id, and that
nothing else does, neither for ids without overlaps of their own while others overlap.

`RequestSession` says what a wallet may rely on, without a cache: a session can be opened for an id
that has none, is shut by a close, never comes back, and a call ends with "refused" only while
its id has a session, with "missing" only while it has none. `Eparaksts` implements it for as
long as no calls have overlapped and nothing has gone wrong (`bound`); after that only `OwnSession` and `OnlyKnownLosses` hold.
A close that overlaps a prepare for its own id deletes the entry of the newer session: the model contains this, and since no
document promises otherwise, no property forbids it (ids with overlaps are excepted).

### CleanupTask

`loop` is the state of each goroutine `Start` has created, `call` that of `Stop`
between its send on the unbuffered channel and its return, `ticker` and `due` the
ticker and the tick in its channel. `CleanupDone` and `CleanupFails` are the call
of the deletion procedure; `born` is when an anonymous instance was registered. The age limit need not
be a whole number of minutes, and `WholeMinutes` cuts it down as the code does: `LessThanAMinuteEarly` says what that costs.

*Fairness*: the goroutine and `Stop` keep running, `select` takes each ready
channel in its turn, the ticker ticks, and the database does not fail at every tick
for ever.

### KeyAttestation

A certificate is a record: whether it parses, its names and keys, its validity, whether it
is a CA and signs, and what its attestation extension says; a hash is what is hashed. `verifyCert`
is translated step by step: which of the certificates presented are intermediates, which count as
another certificate of a configured root (`TrustedRoots`), which one is the leaf, and the second try at
the last second of an intermediate that is out of date (`Retried`). `crypto/x509` is external:
`Verify` follows signatures up from the leaf and fails with any of the certificates at which it can
have stopped, so it is a set of answers, as the order in which the library tries parents is not
for the code to rely on. `Attested` is the raw leaf, `AndroidChecks` the checks in their order, of
which the first that fails names the error. The service keeps nothing, so the
actions are a phone that presents its attestation for a tag and a challenge (`Present`), and time
(`Tick`); `grant` remembers the last acceptance. Nothing is promised to happen: no fairness.

## Runs

| run | shows | bounds |
|---|---|---|
| `nonce_faults` | types, justified reuse answers, the mutex, markers that outlive their tokens, every call ends; cache faults, restarts | 3 calls, 1 nonce, 2 processes |
| `nonce_replicas` | *violation*: two processes accept one nonce | 2 calls, 2 processes |
| `reg_calls` | single use while a token is valid, and the abstract one-time token; one instance per nonce, right owner, fresh attestation, every call ends | 2 calls, 2 nonces, 1 session, 1 key; outages, restarts; lifetime 2 with seconds of 2 ticks, clock to 2 |
| `wua_faults` | a WUA is redeemed once, with an identity its instance had at the time, and the abstract one-time token; everything but the database fails, and the instance changes hands | 1 wallet, 2 accounts, 2 WUAs, 2 requests, the last slot of a list of 2 bytes with entries of 4 bits |
| `wua_revocation` | status entries of one's own, contexts available, revocation cuts off, and at the latest after the lifetime; the database fails | 2 wallets, 2 WUAs, 1 request, 2 slots of that list |
| `wua_context` | *violation*: a WUA without a context | 1 of each |
| `issuer_routes` | attested grants, one WUA for context and validation, challenges that teach a new nonce, grants and credentials succeed | 1 wallet, 2 keys, 2 WUAs, 8 bodies, 2 DPoP nonces |
| `issuer_txcode` | *violation*: the transaction code 0 | 1 wallet |
| `epa_sessions` | own sessions; sessions out of reach and entries left behind only in known ways, whatever overlaps, expires or fails; the abstract request session, while nothing does | 4 calls, 2 ids, 3 sessions |
| `epa_overlap` | *violation*: two open sessions for one id | 2 calls, 1 id |
| `cleanup_task` | one goroutine, nothing deleted a minute early or more, `Stop` returns, expired instances go | 2 goroutines, 2 instances, an age limit of a minute and a half (minutes of 2 ticks), clock to 4 |
| `key_attestation` | an accepted key is attested by one certificate under a configured root, and current up to an intermediate; what was accepted stays so when its intermediate expires; a genuine phone is always accepted | 27 attestations, 2 tags, 2 challenges, clock to 6 |

Why these bounds are enough to see the interesting cases. Two calls that share a
nonce, a WUA or a request id are what every race here needs, and a third call of
`ValidateNonce` (`nonce_faults`) makes a waiter that can starve or come after a restart. Two nonces
tell "this nonce" from "a nonce". A second of two ticks (`reg_calls`) and a lifetime of one second
reach both the time to live of zero and the token that expires while a call
waits. Two wallets and two slots are needed for a revocation to hit the wrong
one, and one request is enough to get past validation; two accounts, for one wallet, make it change hands between a look-up, a second one and the use (what two
requests, two accounts and two wallets do at once is left to the theorems, which assume none of this); slots 2 and 3 share a byte, slot 3 is the last of its list, and the theorem about the list is for every length and width. Two DPoP nonces let a challenge go stale before the retry. Calls of the
issuer's endpoints share nothing but the current nonce and others'
attestations; the second key is the PoP of somebody else. The eight bodies are
a proof object and a list, each with WUAs that agree, differ, are hidden behind
blanks, or stand beside another proof's JWT. Four calls for an id are
prepare, download, close and prepare again. The attestations (`MCKeyAttestation`) differ from an
acceptable one in one point each: six in how long their certificates last, nine in where
the attestation is, nine in what it says, two are Apple's and one has no known format; leaves, intermediates and roots come to
their ends before the clock does, and every verdict of the code is given to one of them. The theorems below hold for every
value of these constants.

No run checks for deadlock: calls, nonces, sessions and the clock are bounded, so
every model comes to a rest when they are used up. That the code does not stop
where it should not is what the liveness properties say.

## Theorems

TLAPS proves the following for every value of the constants.

| module | theorems | from |
|---|---|---|
| `NonceProofs` | types; `LockHeldByServing`; `ReuseAnswerJustified`; `MarkerOutlivesToken`; `ReplayRefused` (a call that looks after another's store is turned away); `SingleUsePerProcess`; `SingleUseWhileValid`; the refinement of `OneTimeToken` | `ReplayRefused` and `SingleUsePerProcess`, for any number of processes: `CacheKeeps` (a cache that answers and survives restarts); single use and the refinement: `Reliable` (that, and one process); the refinement: also `LongLived` (a token lives at least a second) |
| `RegistrationProofs` | every behaviour is one of `Nonce`; types; `OwnerIsMinter`; `FreshlyAttested`; `OneInstancePerProcess`; `OneInstancePerNonce` | the last two: `CacheKeeps`, and `Reliable` |
| `StatusListProofs` | `ReadsBack`: `isIndexListed` reads back what `Publish` wrote, for each width and length; `EntryWithinList`: an entry that passes the length check has all its bits in the list | |
| `WalletUnitProofs` | types; `RedeemedOnce`; the refinement of `OneTimeToken`; `SubjectOwnedAtIssue`; `RevocationHitsOwner`; `RevocationCutsOff`; `RevokedWithinLifetime`; `ExceptionsSettled` (which WUAs a revoked wallet may still use is settled at its revocation); `ContextAvailable` | `ContextAvailable`: neither the cache nor the process fails |
| `IssuerRoutesProofs` | types; `RedeemedAttested`; `ContextOfValidated`; `ChallengeTeaches` and `NonceNeverOlder` (DPoP nonces); `EnteredCodeKept` (transaction codes) | |
| `EparakstsProofs` | types; `OwnSession`; `OnlyKnownLosses`; `CacheMatchesService` (as long as nothing overlaps, fails or expires, the cache names exactly the open sessions); `OneOpenSession` while no calls overlap; the refinement of `RequestSession` | |
| `CleanupTaskProofs` | types; `OneLoopWhileStarted`; `NothingDeletedWhenStopped`; `LessThanAMinuteEarly`, for any age limit | |
| `KeyAttestationProofs` | types; `AcceptedIsAttested`; `AcceptedIsCurrent`; `StaysAccepted`; `GenuineAccepted` | |

The arguments. *Nonce*: single use is not inductive, and is built up in layers. A marker is
one of a minted token and lasts until it expires (`MarkerInv`); a call past its store has its marker
in the cache it sees, unless the time to live was already zero (`Covered`); what a call has read
since it took the mutex still holds in its own process (`LookupFresh`), since a call past the look-up is alone in the
mutex (`LockHeldByServing`). The first two need no single process: with a shared cache that keeps what it is
given, a call that looks after another's store is turned away whichever process it is in, so
what `nonce_replicas` shows needs two calls that overlap, in two processes. The refinement maps a grant to the
step that lets the call through, everything else stutters. *Registration*: each of its
steps is a step of `Nonce` or leaves its variables alone, so what is proved there
is used as it is; the rest says what the handler knows at each stage.
*WalletUnit*: a context exists only for an issued WUA that no request has taken, so a second
request finds none; for revocation, each issued WUA's slot was recorded, and
recorded slots of revoked wallets are listed, unless the WUA is one of `missed`; and every WUA of a revoked wallet
that is past its check got its expiry before the revocation (`ExpirySettled`). That the listed slots are those a
validation reads as revoked is `ReadsBack`: bit `i` of entry `k` is bit `k * bits + i` of the list, and since
a width divides 8 no entry straddles two bytes. `ContextAvailable` holds because only the
request that takes a context, and the clock, can make it go.
*IssuerRoutes*: the central lemma is about shapes: rewriting the body moves neither the place of
the attestation nor a key attestation that was found there
(`NormaliseKeeps`). For DPoP, every nonce on its way to a wallet is no older than what the wallet knows, and one that
comes with a challenge is newer (`NonceInv`): each retry gets further, which is the safety half of
`GrantSucceeds`. *Eparaksts*: every session id a call or the cache holds belongs to the
id it is kept under. What a call for an id without overlaps has read still holds, unless its entry has expired, and a new
session is known to its prepare alone until it is stored (`LossInv`): so no store hides a session and no delete forgets one, but for the
known ways. With `sound` this is sharper: cache and service agree because a request id
has one call at a time, and what that call has read still holds (`OneCallPerId`, `ReadStillHolds`);
the refinement uses it twice: a look-up answers the question whether the id has a session, and a
close shuts the only one it has. *CleanupTask*: the goroutine,
the ticker and a call of `Stop` move together. *KeyAttestation*: an acceptance is taken apart backwards, from the
last check over the certificate that attests the key to the path that `Verify` found; what is proved of
one call is kept as the clock goes on, because `grant` holds the time of the call. That an acceptance is repeated
later rests on what `Verify` can report when no path is current: the walk up from a leaf that is current
stops at the one intermediate, which is then out of date, and at that intermediate's
last second the path of the first acceptance is current (`VerifyStays`). That a genuine phone is
never turned away holds because a straight chain is itself a path (`StraightPath`), has one end-entity
certificate, and all of the walk's certificates are among those that are handed to `Verify`; so
there is nothing for the checks to fail on, in whatever order the library tries parents.

Only model-checked: every liveness property (`EveryCallEnds`, `RegistrationEnds`,
`GrantSucceeds`, `CredentialSucceeds`, `StopReturns`,
`ExpiredDeleted`), since the prover handles neither fairness nor
`ENABLED`.

## Where code and documentation disagree

- Two processes accept one nonce (`nonce_replicas`): the mutex is local to a process
  while the cache may be shared. Only calls that overlap do so, and each process accepts
  it at most once (`NonceReplayRefused`, `NonceSingleUsePerProcess`).
- A WUA is handed out though its access context was not stored (`wua_context`);
  a comment says it always is.
- Two prepare calls for one request id that overlap open two signing sessions
  (`epa_overlap`), though the handler looks for the id first. Without the overlap there is
  one (`EparakstsOneSession`).
- A pre-authorized token call without a transaction code is forwarded with the code
  0 (`issuer_txcode`): nothing fills the cache the code is taken from. A code that
  was entered is forwarded as it is (`RoutesEnteredCodeKept`).

Noted, without a run: the comment at `middleware.go:16` says a user without the required
session state is set to anonymous, while the code answers with an error (module
`Registration` follows the code); `WALLET_OLDER_THAN` (`README.md:112`) is cut down to
whole minutes at `tasks/wallet_instance_cleanup.go:81`, so a limit of 90 seconds deletes
after 60 (`LessThanAMinuteEarly` is checked for such a limit, and proved for any); a PoP can be
presented again until it expires, as `openid4vci/token.go:254` says.

Of the key attestation: the comment at `attestation/certificate.go:164` says that the expiry check of leaf
and root is never relaxed, but the second try checks the whole chain, root included, at the last second
of the intermediate, so a root that has ended since is accepted (`AcceptedIsCurrent` states what
holds). The second try also happens for an intermediate that is not valid yet, and then looks
into the future; with two intermediates that end at different times, a chain once accepted may be
refused (so `StaysAccepted` is about chains of one). The validity of a raw leaf is not looked at. An
origin that is absent from both lists of an Android attestation reads as 0, which is "generated".
Of the decryption of requests: `jweConcatKDF` in `routes/issuer/jwks.go` makes one SHA-256 digest
whatever the key length, so the two content encryptions with keys longer than that are accepted
as known and then find too few bytes.

## Not modelled

- Inside the key attestation: ASN.1 and CBOR (a certificate parses or not, and its extension says what it
  says), signatures (the name and key of the signer), and the details of the device in the result, which
  decide nothing. `VerifyChain` has no caller, and the call of the revocation list (`attestation/revocation.go`)
  is commented out. `Registration` takes the verdict of `KeyAttestation` as one Boolean.
- `Assertion`, `IssueAttestations`, `EnsureInstanceAccount`, `ParseCredentialOffer`: nothing calls
  them.
- JWE decryption, JWKS, metadata, the PID offer, acknowledgement of credentials, validate and
  identities of eParaksts: each computes or forwards one thing and keeps no state.
- Configuration, wiring and health checks: what they decide are constants here.

## Plan

Modelled first was what every other part relies on, in this order, and each part
was proved about before the next was begun: `OneTimeToken` and `Nonce`; `WalletUnit`;
`Registration`, which composes `Nonce` with its callers; `Eparaksts`; `CleanupTask`;
`ProofShape` and `IssuerRoutes`; `StatusList`, which `WalletUnit` reads its statuses with; `KeyAttestation`;
`RequestSession` and its refinement by `Eparaksts`.

What is left:

1. `Issuance`: `IssuerRoutes` composed with `WalletUnit`, so that the context a credential request
   takes is the one issuance stored, with the wallet's retry after a failure: what a wallet can still do after its
   WUA was used up.
2. `Deployment`: `Registration` and `CleanupTask` over one table of instances, so that a clean-up between
   look-up and use is seen from the wallet's side (an anonymous instance registered, deleted and
   registered again while a WUA is out). `WalletUnit` has the clean-up as a step of its environment
   meanwhile.
3. A `RequestSession` of one id, whose promise is lost only by overlaps and failures of its own;
   `OnlyKnownLosses` already says so of the entries and the sessions.
