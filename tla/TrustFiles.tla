------------------------------ MODULE TrustFiles ------------------------------
(***************************************************************************)
(* The two files that say which Macs are managed and which host keys are   *)
(* trusted: devices.json (internal/config/config.go) and known_hosts       *)
(* (cmd/fv-ssh-unlock/hostkey.go), and what one locked read-modify-write   *)
(* of them does, as functions.                                             *)
(***************************************************************************)
EXTENDS Naturals

CONSTANTS
    Names,   \* device names
    Hosts,   \* endpoints
    Keys,    \* host keys, known by their fingerprints
    NoKey,   \* no fingerprint was given
    EnvName  \* credentials.EnvName: the variable a name is normalised to

ASSUME FilesAssumption == NoKey \notin Keys /\ DOMAIN EnvName = Names

\* WritePrivate replaces the file; an error leaves the old one ("failOld")
\* or, when only the sync of the directory fails, the new one ("failNew").
SaveResults == {"ok", "failOld", "failNew"}

WritePrivate(old, new, res) == IF res = "failOld" THEN old ELSE new

-----------------------------------------------------------------------------
(* devices.json: a set of devices *)

\* User, port and credential reference are part of the host and the source.
Device == [name : Names, host : Hosts, source : {"runtime", "file", "keyring"}, auto : BOOLEAN]

ValidateDevice(d) == d.auto => d.source # "runtime"

\* Names that differ may still share an environment variable.
validateDevices(devs) ==
    /\ \A d \in devs : ValidateDevice(d)
    /\ \A d, e \in devs : d # e => EnvName[d.name] # EnvName[e.name]

Named(devs, name) == {d \in devs : d.name = name}

\* What mutate does with the devices it read under the lock: it refuses,
\* finds nothing to do, or saves the next devices.
Outcome(verdict, next) == [verdict |-> verdict, next |-> next]

\* Faulty variant: the devices are validated one by one only.
ValidatedEach(devs, next) ==
    IF \A d \in next : ValidateDevice(d) THEN Outcome("save", next) ELSE Outcome("refuse", devs)

Validated(devs, next) ==
    IF validateDevices(next) THEN Outcome("save", next) ELSE Outcome("refuse", devs)

add(devs, d) ==
    IF Named(devs, d.name) # {} THEN Outcome("refuse", devs) ELSE Validated(devs, devs \cup {d})

Update(devs, d) ==
    IF ~ValidateDevice(d) \/ Named(devs, d.name) = {}
      THEN Outcome("refuse", devs)
      ELSE Validated(devs, (devs \ Named(devs, d.name)) \cup {d})

Remove(devs, name) ==
    IF Named(devs, name) = {}
      THEN Outcome("refuse", devs)
      ELSE Validated(devs, devs \ Named(devs, name))

\* Faulty variant: the slice is cut at the entry.
RemoveIfUnchangedCuts(devs, d) ==
    CASE Named(devs, d.name) = {} -> Outcome("satisfied", devs)
      [] d \in devs               -> Outcome("save", {})
      [] OTHER                    -> Outcome("refuse", devs)

RemoveIfUnchanged(devs, d) ==
    CASE Named(devs, d.name) = {} -> Outcome("satisfied", devs)
      [] d \in devs               -> Validated(devs, devs \ {d})
      [] OTHER                    -> Outcome("refuse", devs)

-----------------------------------------------------------------------------
(* known_hosts: how many lines there are of each host and key *)

Lines == [Hosts \X Keys -> Nat]

\* The callback of the knownhosts package: some line of the host has the key,
\* the host has no line (KeyError without Want), or only other keys.
Lookup(known, h, k) ==
    IF known[<<h, k>>] > 0 THEN "match"
    ELSE IF \A q \in Keys : known[<<h, q>>] = 0 THEN "unknown" ELSE "changed"

\* What becomes of a key a server presents.  With an expected fingerprint the
\* key must be the expected one, pinned or not.
verifyHostKeyLocked(known, h, k, acceptNew, expected) ==
    LET seen == Lookup(known, h, k)
    IN  IF expected \notin {NoKey, k} THEN "refused"
        ELSE IF seen = "match" THEN "trusted"
        ELSE IF seen = "unknown" /\ acceptNew THEN "new"
        ELSE "refused"

appendKnownHost(known, h, k) == [known EXCEPT ![<<h, k>>] = @ + 1]

\* One line goes, if there is one.
removeKnownHost(known, h, k) == [known EXCEPT ![<<h, k>>] = IF @ > 0 THEN @ - 1 ELSE @]

\* The devices whose endpoint has a line with the key.
matchPinnedTargetNames(known, devs) ==
    [k \in Keys |-> {d.name : d \in {e \in devs : known[<<e.host, k>>] > 0}}]
=============================================================================
