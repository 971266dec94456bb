----------------------- MODULE MCCertificateLifecycle -----------------------
(* Small instances of CertificateLifecycle for TLC. *)
EXTENDS CertificateLifecycle, TLC

CONSTANTS c1, c2, h1, h2

OneCert == {c1}
TwoCerts == {c1, c2}
OneHandler == {h1}
TwoHandlers == {h1, h2}

Symmetry == Permutations({c1, c2}) \union Permutations({h1, h2})
=============================================================================
