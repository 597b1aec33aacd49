\* Can an attacker's authorization code sign a victim's browser in as the
\* attacker?
CONSTANTS
    Browsers = {"victim", "attacker"}
    Attackers = {"attacker"}
    Identity <- MC_Identity
    States = {st1, st2}
    Codes = {k1, k2}
SPECIFICATION Spec
INVARIANT SignedInAsOwnIdentity
