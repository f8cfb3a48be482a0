---------------------------- MODULE WorkerFleet ----------------------------
(* The TypeScript workers of one task queue: how each starts from its      *)
(* environment (src/typescript/src/worker.ts, env.ts, data-converter.ts),  *)
(* and what the payloads of a transfer look like that several of them,     *)
(* with settings of their own, carry on. External are the operator (who    *)
(* launches workers and rotates certificates), the Temporal server (local  *)
(* or cloud), and the client that starts the transfer.                     *)
EXTENDS Naturals, Sequences

CONSTANTS
    Workers,        \* worker processes
    Keys,           \* values of ENCRYPT_KEY
    ValidKeys,      \* those crypto.subtle.importKey takes
    Addresses,      \* addresses (of their hosts) workers serve metrics at
    Environments,   \* environments the operator launches workers in
    MaxRotations,   \* bound: times the certificate files are written
    MaxHistory      \* bound: payloads in the history of the transfer

Plain == "plain"                    \* encoding of a payload no codec touched
Encodings == Keys \cup {Plain}      \* a ciphertext is named by its key

\* metrics: served at an address (by default the same for every worker of a
\* host), off or pushed, or incomplete when an OTEL variable is missing;
\* namespace: the server has TEMPORAL_NAMESPACE; workflows: the bundle or the
\* sources can be loaded; encrypt: ENCRYPT_KEY if ENCRYPT_PAYLOADS is 'true'.
Environment ==
    [address   : {"local", "cloud"},
     auth      : {"apiKey", "wrongApiKey", "certs", "none"},
     metrics   : Addresses \cup {"off", "incomplete"},
     namespace : BOOLEAN, workflows : BOOLEAN, encrypt : Encodings]

ASSUME FleetAssumption ==
    /\ ValidKeys \subseteq Keys /\ Plain \notin Keys
    /\ {"off", "incomplete"} \cap Addresses = {}
    /\ Environments \subseteq Environment
    /\ MaxRotations \in Nat /\ MaxHistory \in Nat

Files == {"crt", "key"}

\* Where main is once the runtime is installed, and how a process is gone:
\* stopped, or rejected for its settings, for the server that did not answer,
\* or for the address of its metrics.
Installed == {"options", "readKey", "connect", "create", "online"}
Gone      == {"down", "failed", "unreachable", "unbound"}
Places    == {"main"} \cup Installed \cup Gone

VARIABLES
    proc,       \* per worker: where main is, its environment, its options
    files,      \* generation of each certificate file, 0 while it is missing
    history     \* encodings of the payloads of the transfer, oldest first

vars == <<proc, files, history>>

At(w) == proc[w].at
Env(w) == proc[w].env

Process == [at : Places, env : Environments, tls : {"none", "apiKey", "pair"}, crt : 0..MaxRotations, key : 0..MaxRotations]

Launched(place, e) == [at |-> place, env |-> e, tls |-> "none", crt |-> 0, key |-> 0]

Init ==
    /\ proc \in [Workers -> {Launched("down", e) : e \in Environments}]
    /\ files = [f \in Files |-> 0]
    /\ history = <<>>

-----------------------------------------------------------------------------
(* The start of a worker. A rejection of main ends the process with 1.     *)

Goes(w, place, tls) ==
    /\ proc' = [proc EXCEPT ![w].at = place, ![w].tls = tls]
    /\ UNCHANGED <<files, history>>

\* The operator starts a worker; nothing in the repository restarts one.
Launch(w) ==
    /\ At(w) \in Gone
    /\ \E e \in Environments : proc' = [proc EXCEPT ![w] = Launched("main", e)]
    /\ UNCHANGED <<files, history>>

getTelemetryOptions(e) == e.metrics # "incomplete"

\* The process listens at the address of its metrics until it is gone.
Serving(p) == p.at \in Installed /\ p.env.metrics \in Addresses

Taken(w) == \E v \in Workers \ {w} : Serving(proc[v]) /\ Env(v).metrics = Env(w).metrics

\* Runtime.install binds the address, which another worker, or another
\* program of the host, may have taken.
InstallRuntime(w) ==
    /\ At(w) = "main"
    /\ \/ ~getTelemetryOptions(Env(w)) /\ Goes(w, "failed", "none")
       \/ getTelemetryOptions(Env(w)) /\ ~Taken(w) /\ Goes(w, "options", "none")
       \/ Env(w).metrics \in Addresses /\ Goes(w, "unbound", "none")

\* (Mutant: the API key without tls.)
UseApiKeyWithoutTls(w) ==
    /\ At(w) = "options"
    /\ Env(w).auth \in {"apiKey", "wrongApiKey"}
    /\ Goes(w, "connect", "none")

\* An API key comes before certificates, and a worker with neither goes on.
UseApiKey(w) ==
    /\ At(w) = "options"
    /\ Env(w).auth \in {"apiKey", "wrongApiKey"}
    /\ Goes(w, "connect", "apiKey")

UseNothing(w) ==
    /\ At(w) = "options"
    /\ Env(w).auth = "none"
    /\ Goes(w, "connect", "none")

\* The catch block keeps the options as they are: no tls, the same address.
FallBack(w) == Goes(w, "connect", "none")

ReadCert(w) ==
    /\ At(w) = "options"
    /\ Env(w).auth = "certs"
    /\ IF files["crt"] = 0
       THEN FallBack(w)
       ELSE /\ proc' = [proc EXCEPT ![w].at = "readKey", ![w].crt = files["crt"]]
            /\ UNCHANGED <<files, history>>

\* (Mutant: a missing key file is waited for.)
ReadKeyWaits(w) ==
    /\ At(w) = "readKey" /\ files["key"] > 0
    /\ proc' = [proc EXCEPT ![w].at = "connect", ![w].tls = "pair", ![w].key = files["key"]]
    /\ UNCHANGED <<files, history>>

ReadKey(w) ==
    /\ At(w) = "readKey"
    /\ IF files["key"] = 0
       THEN FallBack(w)
       ELSE /\ proc' = [proc EXCEPT ![w].at = "connect", ![w].tls = "pair", ![w].key = files["key"]]
            /\ UNCHANGED <<files, history>>

\* A local server speaks no TLS; the cloud takes a key or a matching pair.
Accepts(p) ==
    IF p.env.address = "local" THEN p.tls = "none"
    ELSE \/ p.tls = "apiKey" /\ p.env.auth = "apiKey"
         \/ p.tls = "pair" /\ p.crt = p.key

Connect(w) ==
    /\ At(w) = "connect"
    /\ \/ Goes(w, IF Accepts(proc[w]) THEN "create" ELSE "failed", proc[w].tls)
       \/ Goes(w, "unreachable", proc[w].tls)

\* The bundle or the sources are there; the codec is created with its key.
getWorkflowOptions(e) == e.workflows

getDataConverter(e) == e.encrypt \in ValidKeys \cup {Plain}

\* Worker.create rejects without them, and asks the server for the namespace.
Creatable(e) == getWorkflowOptions(e) /\ getDataConverter(e) /\ e.namespace

CreateWorker(w) ==
    /\ At(w) = "create"
    /\ \/ Goes(w, IF Creatable(Env(w)) THEN "online" ELSE "failed", proc[w].tls)
       \/ Goes(w, "unreachable", proc[w].tls)

\* The process is stopped or dies, or worker.run ends.
Stop(w) ==
    /\ At(w) \notin Gone
    /\ proc' = [proc EXCEPT ![w] = Launched("down", Env(w))]
    /\ UNCHANGED <<files, history>>

\* The operator writes a new generation of the pair, one file at a time.
Rotate(f) ==
    /\ files[f] < MaxRotations
    /\ \A g \in Files : files[f] <= files[g]
    /\ files' = [files EXCEPT ![f] = @ + 1]
    /\ UNCHANGED <<proc, history>>

-----------------------------------------------------------------------------
(* The transfer: a client starts it, any online worker takes a task of it. *)

StartTransfer ==
    /\ history = <<>> /\ MaxHistory > 0
    /\ \E c \in Encodings : history' = <<c>>
    /\ UNCHANGED <<proc, files>>

\* (Mutants: the key is not checked; the converter is not given to the worker.)
DecodesAnyKey(e, c) == c = Plain \/ e.encrypt # Plain
DecodesPlainOnly(e, c) == c = Plain

\* Plain payloads pass every decoder; a ciphertext needs a codec and its key.
Decodes(e, c) == c = Plain \/ c = e.encrypt

\* (Mutant: an activity that does not look at its input.)
TaskUnread(w) ==
    /\ At(w) = "online"
    /\ Len(history) \in 1..(MaxHistory - 1)
    /\ history' = Append(history, Env(w).encrypt)
    /\ UNCHANGED <<proc, files>>

\* A cached workflow, and an activity, read only the newest payload.
Task(w) ==
    /\ At(w) = "online"
    /\ Len(history) \in 1..(MaxHistory - 1)
    /\ Decodes(Env(w), history[Len(history)])
    /\ history' = Append(history, Env(w).encrypt)
    /\ UNCHANGED <<proc, files>>

Start(w) ==
    \/ InstallRuntime(w) \/ UseApiKey(w) \/ UseNothing(w) \/ ReadCert(w) \/ ReadKey(w)
    \/ Connect(w) \/ CreateWorker(w)

Next ==
    \/ \E w \in Workers : Launch(w) \/ Start(w) \/ Stop(w) \/ Task(w)
    \/ \E f \in Files : Rotate(f)
    \/ StartTransfer

Spec == Init /\ [][Next]_vars

\* A process that runs goes on, and an online worker polls. Launches, stops
\* and rotations are nobody's duty.
FairSpec == Spec /\ \A w \in Workers : WF_vars(Start(w)) /\ WF_vars(Task(w))

-----------------------------------------------------------------------------
TypeOK ==
    /\ proc \in [Workers -> Process]
    /\ files \in [Files -> 0..MaxRotations]
    /\ history \in Seq(Encodings) /\ Len(history) <= MaxHistory

\* Once a payload of the transfer is encrypted all later ones are, with the
\* same key, whatever the settings of the workers that take its tasks: each
\* must read before it writes (encryption-codec.ts:37-63, worker.ts:29-31).
EncryptionKept ==
    \A i, j \in 1..Len(history) : i <= j /\ history[i] # Plain => history[j] = history[i]

\* Whoever can take the next task can replay the whole history, so a transfer
\* is not stuck when the worker that has it cached is lost (worker.ts:23-32).
TakersCanReplay ==
    history # <<>> =>
        \A e \in Environments : Decodes(e, history[Len(history)]) =>
            \A i \in 1..Len(history) : Decodes(e, history[i])

\* Does the environment fit the server it names?
Suitable(e) ==
    /\ getTelemetryOptions(e) /\ Creatable(e)
    /\ IF e.address = "local" THEN e.auth = "none" ELSE e.auth \in {"apiKey", "certs"}

\* The options of a connection are the ones the environment asks for, but for
\* certificates that could not be read.
OptionsFit(p) ==
    /\ p.env.auth \in {"apiKey", "wrongApiKey"} => p.tls = "apiKey"
    /\ p.env.auth = "none" => p.tls = "none"
    /\ p.env.auth = "certs" => p.tls = IF p.key = 0 THEN "none" ELSE "pair"

\* A worker that is rejected for its settings ("failed"; a server that does
\* not answer and an address that is taken are cases of their own) has an
\* environment that does not fit, missed a certificate file, or read a pair
\* torn by a rotation; and it is online only if its server takes it.
StartFits(p) ==
    /\ p.at \in Installed \cup {"unreachable"} => getTelemetryOptions(p.env)
    /\ p.at = "unbound" => p.env.metrics \in Addresses
    /\ p.at \in {"main", "options", "readKey"} => p.key = 0
    /\ p.at = "readKey" => p.env.auth = "certs"
    /\ p.at \in {"connect", "create", "online"} => OptionsFit(p)
    /\ p.at \in {"create", "online"} => Accepts(p)
    /\ p.at = "online" => Creatable(p.env)
    /\ p.at = "failed" =>
          ~Suitable(p.env) \/ (p.env.auth = "certs" /\ (p.crt = 0 \/ p.crt # p.key))

StartsFit == \A w \in Workers : StartFits(proc[w])

\* The metrics at an address are those of one worker, from its install until
\* its process is gone, however its start ends (worker.ts:10-12).
OneServesAnAddress == \A w \in Workers : Serving(proc[w]) => ~Taken(w)

IInv ==
    /\ TypeOK
    /\ EncryptionKept
    /\ StartsFit
    /\ OneServesAnAddress

\* Every start comes to an end: the worker is online, or its process is gone
\* (worker.ts:38-44).
StartsEnd == \A w \in Workers : At(w) = "main" ~> At(w) \in {"online"} \cup Gone

\* The certificates are there and no longer rotated.
CertificatesStay == \A f \in Files : files[f] = MaxRotations /\ files[f] > 0

\* A worker started in a suitable environment, once the certificates are
\* there and no longer rotated, is not rejected for its settings: a rotation
\* costs it no more than a restart (env.ts:33-49). What is left is a server
\* that does not answer, an address that is taken, and a stop.
GoodStartsSucceed ==
    \A w \in Workers :
        (At(w) = "main" /\ Suitable(Env(w)) /\ CertificatesStay)
            ~> At(w) \in {"online", "unreachable", "unbound", "down"}

\* A transfer whose client encrypts is carried to the end as long as one
\* worker with the client's key stays online: no other worker can leave a
\* payload in it that this one cannot read (README.md:172).
EncryptedTransferGoesOn ==
    \A w \in Workers :
        <>[](/\ history # <<>> /\ history[1] # Plain
             /\ At(w) = "online" /\ Env(w).encrypt = history[1])
            => <>(Len(history) = MaxHistory)
=============================================================================
