------------------------ MODULE MCDbPhysicalMigration ------------------------
\* One migration for TLC, with one or two deliveries processed at once.
EXTENDS DbPhysicalMigration, TLC

CONSTANTS w1, w2

OneWorker == {w1}
TwoWorkers == {w1, w2}

\* What one behaviour may contain.
Allow(writes, failures, crashes, requests, aborts) ==
  [writes |-> writes, failures |-> failures, crashes |-> crashes,
   requests |-> requests, aborts |-> aborts]

\* Two processes killed, a failed call, two requests, an abort.
Crashes == {Allow(1, 1, 2, 2, 1)}
\* Either failures and a crash, or two aborts against two cutovers.
AbortOrFailure == {Allow(1, 2, 1, 1, 0), Allow(1, 0, 0, 2, 2)}
\* Two requests and nothing that goes wrong.
Requests == {Allow(1, 0, 0, 2, 0)}
=============================================================================
