----------------------------- MODULE MCThreadWaits -----------------------------
EXTENDS ThreadWaits

CONSTANTS a, b

Operation(kind, peer, ms) == [kind |-> kind, peer |-> peer, ms |-> ms]

MCThreads == {a, b}

\* The first thread receives, sleeps and waits; the second one sends.
MCOps == (a :> {Operation("receive", Anyone, Forever), Operation("receive", b, 1),
                Operation("sleep", Anyone, 1), Operation("wait", b, Forever),
                Operation("host", Anyone, Forever)})
         @@ (b :> {})

MCLinks == {<<b, a>>}

\* Races between host calls, timers and receives.
MCRaceOps == {Operation("host", Anyone, Forever), Operation("sleep", Anyone, 1),
              Operation("receive", b, 1)}
===============================================================================
