---------------------------- MODULE MCEnrollment ----------------------------
(* Instances of Enrollment for TLC. *)
EXTENDS Enrollment, TLC

CONSTANTS n1, n2, n3, h1, k1, k2, c1, c2

\* n2 and n3 differ in punctuation only.
Env == [n \in Names |-> IF n = n3 THEN n2 ELSE n]

Dev(n, h, source, auto) == [name |-> n, host |-> h, source |-> source, auto |-> auto]

FileMac(n) == Dev(n, h1, "file", TRUE)
KeyringMac(n) == Dev(n, h1, "keyring", FALSE)

SameKey == [c \in Candidates |-> k1]

\* Two names for one candidate, at an address both would use.
WantedDevices == {[id |-> c, device |-> FileMac(n), fingerprint |-> k1] :
                    c \in Candidates, n \in {n1, n2}}

AllCommands ==
    {[op |-> "add", device |-> KeyringMac(n1)], [op |-> "add", device |-> KeyringMac(n3)],
     [op |-> "apply", device |-> KeyringMac(n1)],
     [op |-> "remove", device |-> FileMac(n1)],
     [op |-> "auto-unlock", device |-> Dev(n1, h1, "file", FALSE)],
     [op |-> "accept", device |-> FileMac(n1)], [op |-> "accept", device |-> FileMac(n2)]}

NoDevices == {}
OneDevice == {FileMac(n1)}
NoLines == [p \in Hosts \X Keys |-> 0]

Symmetric == Permutations(Requests) \cup Permutations(Processes) \cup Permutations(Candidates)
=============================================================================
