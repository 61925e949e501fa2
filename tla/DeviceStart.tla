---------------------------- MODULE DeviceStart ----------------------------
(***************************************************************************)
(* How an installation comes up, on a desktop or a phone: the signed       *)
(* network manifest and its cache (apps/desktop/lib/network-manifest.js,   *)
(* apps/mobile/src/network-manifest.ts), the device secret                 *)
(* (electron/device-secret.js, SecureStore), the account that is sealed    *)
(* with it (workers/account-store.js) and the reset that archives it.      *)
(* The app can stop between any two writes.                                *)
(*                                                                         *)
(* A manifest is the time it was issued at, which is how the operator's    *)
(* manifests differ; a later one is never withdrawn for an older one.      *)
(* Secrets and identities are numbered as they are created.  A file that   *)
(* was created and not written is Torn; Hyperbee and the phone's stores    *)
(* write at once.  What was written can be read again.                     *)
(***************************************************************************)
EXTENDS Naturals

CONSTANTS
  MaxIssued,  \* bound on the manifests
  MaxMade     \* bound on the secrets and on the identities that are made

ASSUME DeviceBounds == {MaxIssued, MaxMade} \subseteq Nat \ {0}

VARIABLES
  device,     \* "desktop" or "phone"
  published,  \* the manifest at the endpoint
  bundled,    \* initialManifest of the installed build, 0 for none
  clock,      \* manifests issued after it are implausible: normalizeIssuedAt
  cache,      \* the cached manifest, 0 for none
  secret,     \* the stored device secret, 0 for none, or Torn
  account,    \* account/identity: the identity and the secret it is sealed with, 0 in
              \* the record of an older version, which was not sealed
  profile,    \* account/profile: the identity it names, 0 for none
  stage,      \* how far this start has come
  manifest,   \* the manifest that this start uses
  made,       \* secrets and identities made so far
  ran         \* the last start that came up: identity, 0 after a reset, and manifest

deviceVars == <<device, published, bundled, clock, cache, secret, account, profile,
                stage, manifest, made, ran>>
stores == <<cache, secret, account, profile>>
surroundings == <<device, published, bundled, clock>>

Torn == MaxMade + 1
NoAccount == [identity |-> 0, sealedWith |-> 0]
Valid(m) == m # 0 /\ m <= clock

DeviceInit ==
  /\ device \in {"desktop", "phone"}
  /\ published = 1 /\ clock \in 0 .. 1
  /\ bundled \in IF device = "phone" THEN 0 .. 1 ELSE {0}
  /\ cache = 0 /\ secret = 0 /\ profile = 0
  /\ account \in {NoAccount, [identity |-> 1, sealedWith |-> 0]}
  /\ stage = "off" /\ manifest = 0
  /\ made = [secrets |-> 0, identities |-> account.identity]
  /\ ran = [identity |-> 0, manifest |-> 0]

-----------------------------------------------------------------------------
(* The operator, the clock and updates of the app. *)

Publish ==
  /\ published < MaxIssued /\ published' = published + 1
  /\ UNCHANGED <<device, bundled, clock, stores, stage, manifest, made, ran>>

\* The device's clock may be slow; it is not set back.
ClockAdvances ==
  /\ clock < MaxIssued /\ clock' = clock + 1
  /\ UNCHANGED <<device, published, bundled, stores, stage, manifest, made, ran>>

Update ==
  /\ device = "phone" /\ stage = "off" /\ bundled < published
  /\ bundled' = published
  /\ UNCHANGED <<device, published, clock, stores, stage, manifest, made, ran>>

AppStops ==
  /\ stage # "off" /\ stage' = "off" /\ manifest' = 0
  /\ UNCHANGED <<surroundings, stores, made, ran>>

-----------------------------------------------------------------------------
(* The manifest. *)

Goes(next, m) ==
  /\ stage' = next /\ manifest' = m
  /\ UNCHANGED <<surroundings, secret, account, profile, made, ran>>

Fetch ==
  /\ stage = "off" /\ Valid(published)
  /\ Goes("fetched", published) /\ UNCHANGED cache

\* No network, or a manifest that does not verify.
FetchFails ==
  /\ stage = "off"
  /\ Goes("stale", 0) /\ UNCHANGED cache

\* writeCache; when it fails, before or after the rename, what was fetched is
\* not used.
WriteCache ==
  /\ stage = "fetched"
  /\ \/ cache' = manifest /\ Goes("configured", manifest)
     \/ cache' \in {cache, manifest} /\ Goes("stale", 0)

\* The manifest to start with without the network: the cached one, or one that
\* came with a newer build.  On the phone that one has to verify, whatever the
\* cache holds.
Newer == Valid(bundled) /\ (~Valid(cache) \/ bundled > cache)
FallBack ==
  /\ stage = "stale"
  /\ IF bundled # 0 /\ ~Valid(bundled) THEN Goes("failed", 0) /\ UNCHANGED cache
     ELSE IF Newer THEN cache' \in {cache, bundled} /\ Goes("configured", bundled)
     ELSE IF Valid(cache) THEN Goes("configured", cache) /\ UNCHANGED cache
     ELSE Goes("failed", 0) /\ UNCHANGED cache

-----------------------------------------------------------------------------
(* The device secret and the account. *)

NewSecret == made.secrets + 1

\* The file is created before it is written.
CreateSecret ==
  /\ stage = "configured" /\ secret = 0 /\ NewSecret <= MaxMade
  /\ secret' = IF device = "desktop" THEN Torn ELSE NewSecret
  /\ stage' = IF device = "desktop" THEN "writing" ELSE "unlocked"
  /\ made' = [made EXCEPT !.secrets = NewSecret]
  /\ UNCHANGED <<surroundings, cache, account, profile, manifest, ran>>

WriteSecret ==
  /\ stage = "writing" /\ secret' = made.secrets /\ stage' = "unlocked"
  /\ UNCHANGED <<surroundings, cache, account, profile, manifest, made, ran>>

\* A secret that cannot be read is an error and never replaced.
ReadSecret ==
  /\ stage = "configured" /\ secret # 0
  /\ stage' = IF secret = Torn THEN "failed" ELSE "unlocked"
  /\ UNCHANGED <<surroundings, stores, manifest, made, ran>>

\* _loadIdentitySeed: an identity is sealed and stored before it is used, one of an
\* older version is sealed now.
LoadIdentity ==
  /\ stage = "unlocked"
  /\ IF account = NoAccount
       THEN /\ made.identities < MaxMade
            /\ made' = [made EXCEPT !.identities = @ + 1]
            /\ account' = [identity |-> made.identities + 1, sealedWith |-> secret]
            /\ stage' = "identified"
       ELSE /\ account' = [account EXCEPT !.sealedWith = IF @ = 0 THEN secret ELSE @]
            /\ stage' = IF account'.sealedWith = secret THEN "identified" ELSE "failed"
            /\ UNCHANGED made
  /\ UNCHANGED <<surroundings, cache, secret, profile, manifest, ran>>

\* The profile is made to name the identity.
LoadProfile ==
  /\ stage = "identified" /\ stage' = "running"
  /\ profile' = account.identity
  /\ ran' = [identity |-> account.identity, manifest |-> manifest]
  /\ UNCHANGED <<surroundings, cache, secret, account, manifest, made>>

-----------------------------------------------------------------------------
(* The reset. *)

\* Electron moves the directory that holds the store, the secret and the cache.
ResetDesktop ==
  /\ device = "desktop" /\ stage \in {"running", "failed"}
  /\ cache' = 0 /\ secret' = 0 /\ account' = NoAccount /\ profile' = 0
  /\ stage' = "off" /\ manifest' = 0
  /\ ran' = [ran EXCEPT !.identity = 0]
  /\ UNCHANGED <<surroundings, made>>

ArchiveStore ==
  /\ account' = NoAccount /\ profile' = 0
  /\ ran' = [ran EXCEPT !.identity = 0]
  /\ UNCHANGED <<cache, secret>>
DeleteSecret ==
  /\ secret' = 0
  /\ UNCHANGED <<cache, account, profile, ran>>

\* The phone moves the store, deletes the secret and starts anew.
FaultSecretFirst == IF stage = "resetting" THEN ArchiveStore ELSE DeleteSecret
PhoneReset == IF stage = "resetting" THEN DeleteSecret ELSE ArchiveStore
ResetPhone ==
  /\ device = "phone" /\ stage \in {"running", "resetting"}
  /\ PhoneReset
  /\ stage' = IF stage = "resetting" THEN "off" ELSE "resetting"
  /\ manifest' = 0
  /\ UNCHANGED <<surroundings, made>>

-----------------------------------------------------------------------------

DeviceNext ==
  \/ Publish \/ ClockAdvances \/ Update \/ AppStops
  \/ Fetch \/ FetchFails \/ WriteCache \/ FallBack
  \/ CreateSecret \/ WriteSecret \/ ReadSecret \/ LoadIdentity \/ LoadProfile
  \/ ResetDesktop \/ ResetPhone

DeviceSpec == DeviceInit /\ [][DeviceNext]_deviceVars

-----------------------------------------------------------------------------
(* What must hold. *)

DeviceOK ==
  /\ {published, bundled, clock, cache, manifest} \subseteq 0 .. MaxIssued
  /\ secret \in 0 .. Torn /\ profile \in 0 .. account.identity
  /\ stage \in {"off", "fetched", "stale", "configured", "writing", "unlocked",
                "identified", "running", "resetting", "failed"}
  /\ stage \in {"configured", "writing", "unlocked", "identified", "running"} => Valid(manifest)

\* PEAR-ROOMS-HANDOFF.md:280: the sealed identity is not orphaned.  Wherever the
\* app stops, the secret that is stored is the one that opens the account that
\* is stored, and the identity is the one that came up last, unless there was a
\* reset.
AccountStaysReadable ==
  account # NoAccount =>
    /\ account.sealedWith \in {0, secret}
    /\ ran.identity \in {0, account.identity}

\* PEAR-ROOMS-HANDOFF.md:63: a refresh failure uses the cache.  A start of a device
\* that came up before, and was not reset since, does not fail, with the network or
\* without it, wherever the starts before it stopped.  The one exception is a start
\* without the network on a phone whose build brought a manifest that is newer than
\* the phone's clock, which fails whatever the cache holds.
StartsSucceed ==
  [][ran.identity # 0 /\ stage # "failed" /\ stage' = "failed" =>
       stage = "stale" /\ bundled # 0 /\ ~Valid(bundled)]_deviceVars

\* PEAR-ROOMS-HANDOFF.md:862: what comes up is the identity that came up before, with
\* the manifest of then or a newer one.
ComesUpAsBefore ==
  [][ran.identity # 0 /\ stage' = "running" =>
       ran'.identity = ran.identity /\ ran'.manifest >= ran.manifest]_deviceVars

\* No write parts the account from the secret that opens it.
AccountIsNotLost == [][AccountStaysReadable']_deviceVars

DevicesComeUpAgain == AccountIsNotLost /\ StartsSucceed /\ ComesUpAsBefore
=============================================================================
