---------------------------- MODULE MCWorkerFleet ----------------------------
(* Small instances of WorkerFleet for TLC.                                  *)
EXTENDS WorkerFleet

CONSTANTS w1, w2, k1, k2, tooShort, port1, port2

AnEnvironment(address, auth, metrics, encrypt) ==
    [address |-> address, auth |-> auth, metrics |-> metrics,
     namespace |-> TRUE, workflows |-> TRUE, encrypt |-> encrypt]

\* What the start scripts make of the settings, right and wrong: workers that
\* share an address for their metrics, and some that do not.
SampleEnvironments ==
    {AnEnvironment("local", "none", port1, Plain), AnEnvironment("cloud", "apiKey", "off", k2),
     AnEnvironment("cloud", "certs", port2, k1), AnEnvironment("local", "none", port1, tooShort),
     AnEnvironment("local", "none", "incomplete", k2),
     [AnEnvironment("cloud", "apiKey", port2, k2) EXCEPT !.namespace = FALSE]}
=============================================================================
