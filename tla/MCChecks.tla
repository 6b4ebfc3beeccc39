------------------------------ MODULE MCChecks ------------------------------
(* Instances of Checks for TLC: the sub-checks a scenario may ask for and   *)
(* the networks they find.                                                  *)
EXTENDS Checks

CONSTANTS a, b, c

(* A sub-check, with -1 for a parameter that is not given. *)
SubCheck(kind, tolerance, duration, failing, failures, expected) ==
    [kind |-> kind, tolerance |-> tolerance, duration |-> duration, failing |-> failing,
     failures |-> failures, expected |-> expected, patch |-> "none"]

Rules(patch, failing, failures) ==
    [SubCheck("networkRules", -1, -1, failing, failures, {}) EXCEPT !.patch = patch]

MCSpecs ==
    {SubCheck("blockHeight", t, -1, FALSE, x, {}) : t \in {-1, 0}, x \in {{}, {c}}}
    \cup {SubCheck("blockHeight", -1, 0, f, {}, {}) : f \in BOOLEAN}
    \cup {SubCheck("blocksHashes", -1, -1, FALSE, x, {}) : x \in {{}, {c}, Nodes}}
    \cup {SubCheck(k, t, d, FALSE, {}, {}) :
            k \in {"blocksRolling", "blocksHalted", "blockGasRate"}, t \in {-1, 1}, d \in {-1, 1}}
    \cup {Rules("rules", f, x) : f \in BOOLEAN, x \in {{}, {c}}}
    \cup {Rules(p, FALSE, {c}) : p \in {"none", "unfit", "invalid"}}
    \cup {SubCheck("validatorsActive", -1, d, FALSE, {c}, x) : d \in {-1, 0}, x \in {{}, {a, b}}}
    \cup {SubCheck("eventThrottled", -1, -1, FALSE, {}, x) : x \in {{}, {a}, {c}}}

(* A chain that has barely started, or not at the last node. *)
MCHeights == {[n \in Nodes |-> IF n = c THEN h - 1 ELSE h] : h \in {1, 2}}

(* No fork, a healthy node on its own, the node expected to fail on its own. *)
MCForks == {[n \in Nodes |-> MaxHeight + 1], [n \in Nodes |-> IF n = a THEN 2 ELSE MaxHeight + 1],
            [n \in Nodes |-> IF n = c THEN 1 ELSE MaxHeight + 1]}
=============================================================================
