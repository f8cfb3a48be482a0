------------------------- MODULE WorkerFleetProofs -------------------------
(* Proofs about WorkerFleet, for any number of workers, keys, environments, *)
(* rotations and payloads.                                                  *)
EXTENDS WorkerFleet, TLAPS

\* What a worker in main is after it went to another place.
Moved(p, place, tls) == [p EXCEPT !.at = place, !.tls = tls]

LEMMA MovedFields ==
    ASSUME NEW p \in Process, NEW place \in Places, NEW tls \in {"none", "apiKey", "pair"}
    PROVE  /\ Moved(p, place, tls) \in Process
           /\ Moved(p, place, tls).at = place
           /\ Moved(p, place, tls).tls = tls
           /\ Moved(p, place, tls).env = p.env
           /\ Moved(p, place, tls).crt = p.crt
           /\ Moved(p, place, tls).key = p.key
  BY DEF Moved, Process

LEMMA GoesTo ==
    ASSUME TypeOK, NEW w \in Workers, NEW place \in Places,
           NEW tls \in {"none", "apiKey", "pair"}, Goes(w, place, tls)
    PROVE  proc' = [proc EXCEPT ![w] = Moved(proc[w], place, tls)] /\ UNCHANGED <<files, history>>
  BY DEF Goes, TypeOK, Moved

\* A launched process is one, and nothing is said of its start yet.
LEMMA LaunchedIsProcess ==
    ASSUME NEW place \in {"down", "main"}, NEW e \in Environments
    PROVE  /\ Launched(place, e) \in Process
           /\ StartFits(Launched(place, e))
           /\ ~Serving(Launched(place, e))
  <1>1. Launched(place, e) \in Process
    BY FleetAssumption DEF Launched, Process, Places, Installed, Gone
  <1>2. Launched(place, e).at = place /\ Launched(place, e).key = 0
    BY DEF Launched
  <1>3. Launched(place, e).at \notin Installed
    BY <1>2 DEF Installed
  <1>. QED  BY <1>1, <1>2, <1>3 DEF StartFits, Installed, Serving

\* Should w become q, its metrics are not where another worker has its own.
Apart(w, q) ==
    Serving(q) => \A v \in Workers \ {w} : Serving(proc[v]) => proc[v].env.metrics # q.env.metrics

\* A worker that keeps its environment is apart: it had the address before, or
\* found it free.
LEMMA SameEnvironmentApart ==
    ASSUME IInv, NEW w \in Workers, NEW q \in Process, q.env = proc[w].env,
           q.at \in Installed => proc[w].at \in Installed \/ ~Taken(w)
    PROVE  Apart(w, q)
  BY DEF IInv, OneServesAnAddress, Apart, Serving, Taken, Env

LEMMA MovedApart ==
    ASSUME IInv, NEW w \in Workers, NEW place \in Places, NEW tls \in {"none", "apiKey", "pair"},
           place \in Installed => proc[w].at \in Installed \/ ~Taken(w)
    PROVE  Moved(proc[w], place, tls) \in Process /\ Apart(w, Moved(proc[w], place, tls))
  <1>1. proc[w] \in Process
    BY DEF IInv, TypeOK
  <1>2. /\ Moved(proc[w], place, tls) \in Process
        /\ Moved(proc[w], place, tls).env = proc[w].env
        /\ Moved(proc[w], place, tls).at = place
    BY <1>1, MovedFields
  <1>. QED  BY <1>2, SameEnvironmentApart

\* The invariant is one of each worker by itself, of the addresses and of the
\* history: it survives when one worker becomes another process whose start
\* fits and whose address is its own.
LEMMA MoveKeepsInv ==
    ASSUME IInv, NEW w \in Workers, NEW q \in Process, StartFits(q), Apart(w, q),
           proc' = [proc EXCEPT ![w] = q], UNCHANGED <<files, history>>
    PROVE  IInv'
  <1>1. proc' \in [Workers -> Process]
    BY DEF IInv, TypeOK
  <1>2. TypeOK' /\ EncryptionKept'
    BY <1>1 DEF IInv, TypeOK, EncryptionKept
  <1>3. ASSUME NEW v \in Workers PROVE StartFits(proc'[v])
    <2>1. proc'[v] = q \/ proc'[v] = proc[v]
      BY DEF IInv, TypeOK
    <2>. QED  BY <2>1 DEF IInv, StartsFit
  <1>4. StartsFit'
    BY <1>3 DEF StartsFit, StartFits, OptionsFit, Accepts, Suitable, getTelemetryOptions, Creatable, getWorkflowOptions, getDataConverter
  <1>5. ASSUME NEW u \in Workers, NEW v \in Workers \ {u}, Serving(proc'[u]), Serving(proc'[v])
        PROVE  proc'[v].env.metrics # proc'[u].env.metrics
    <2>1. /\ proc'[u] = IF u = w THEN q ELSE proc[u]
          /\ proc'[v] = IF v = w THEN q ELSE proc[v]
      BY DEF IInv, TypeOK
    <2>2. CASE u = w
      BY <1>5, <2>1, <2>2 DEF Apart
    <2>3. CASE v = w
      BY <1>5, <2>1, <2>3 DEF Apart
    <2>4. CASE u # w /\ v # w
      BY <1>5, <2>1, <2>4 DEF IInv, OneServesAnAddress, Taken, Env
    <2>. QED  BY <2>2, <2>3, <2>4
  <1>6. OneServesAnAddress'
    BY <1>5 DEF OneServesAnAddress, Taken, Serving, Env
  <1>. QED  BY <1>2, <1>4, <1>6 DEF IInv

\* A connection that the server does not take has a cause: the environment
\* does not fit, a certificate file was missing, or the pair was torn.
LEMMA RefusedForACause ==
    ASSUME NEW p \in Process, getTelemetryOptions(p.env), OptionsFit(p), ~Accepts(p),
           Creatable(p.env)
    PROVE  ~Suitable(p.env) \/ (p.env.auth = "certs" /\ (p.crt = 0 \/ p.crt # p.key))
  BY DEF OptionsFit, Accepts, Suitable

\* A step of a start leads to a process whose start fits.
LEMMA StartIsAMove ==
    ASSUME IInv, NEW w \in Workers, Start(w)
    PROVE  /\ UNCHANGED <<files, history>>
           /\ \E q \in Process : StartFits(q) /\ Apart(w, q) /\ proc' = [proc EXCEPT ![w] = q]
  <1>. DEFINE p == proc[w]
              Fits == /\ UNCHANGED <<files, history>>
                      /\ \E q \in Process : StartFits(q) /\ Apart(w, q) /\ proc' = [proc EXCEPT ![w] = q]
  <1>1. /\ p \in Process /\ p.tls \in {"none", "apiKey", "pair"}
        /\ p.env \in Environments /\ StartFits(p)
    BY DEF IInv, TypeOK, StartsFit, Process
  <1>2. ASSUME NEW place \in Places, NEW tls \in {"none", "apiKey", "pair"}, Goes(w, place, tls),
               StartFits(Moved(p, place, tls)),
               place \in Installed => p.at \in Installed \/ ~Taken(w)
        PROVE  Fits
    <2>1. Moved(p, place, tls) \in Process /\ Apart(w, Moved(p, place, tls))
      BY <1>2, MovedApart
    <2>2. proc' = [proc EXCEPT ![w] = Moved(p, place, tls)] /\ UNCHANGED <<files, history>>
      BY <1>2, GoesTo DEF IInv
    <2>. QED  BY <1>2, <2>1, <2>2
  <1>3. CASE InstallRuntime(w)
    <2>1. p.at = "main" /\ p.key = 0
      BY <1>1, <1>3 DEF InstallRuntime, At, StartFits
    <2>2. CASE getTelemetryOptions(p.env) /\ ~Taken(w) /\ Goes(w, "options", "none")
      <3>1. StartFits(Moved(p, "options", "none"))
        BY <1>1, <2>1, <2>2, MovedFields DEF Places, Installed, Gone, StartFits
      <3>. QED  BY <1>2, <2>2, <3>1 DEF Places, Installed, Gone
    <2>3. CASE ~getTelemetryOptions(p.env) /\ Goes(w, "failed", "none")
      <3>1. StartFits(Moved(p, "failed", "none"))
        BY <1>1, <2>1, <2>3, MovedFields DEF Places, Installed, Gone, StartFits, Suitable
      <3>. QED  BY <1>2, <2>3, <3>1 DEF Places, Installed, Gone
    <2>4. CASE p.env.metrics \in Addresses /\ Goes(w, "unbound", "none")
      <3>1. StartFits(Moved(p, "unbound", "none"))
        BY <1>1, <2>1, <2>4, MovedFields DEF Places, Installed, Gone, StartFits
      <3>. QED  BY <1>2, <2>4, <3>1 DEF Places, Installed, Gone
    <2>. QED  BY <1>3, <2>2, <2>3, <2>4 DEF InstallRuntime, Env
  <1>4. CASE UseApiKey(w)
    <2>1. p.at = "options" /\ p.key = 0 /\ getTelemetryOptions(p.env) /\ p.env.auth \in {"apiKey", "wrongApiKey"}
      BY <1>1, <1>4 DEF UseApiKey, At, Env, StartFits, Installed
    <2>2. StartFits(Moved(p, "connect", "apiKey"))
      BY <1>1, <2>1, MovedFields DEF Places, Installed, Gone, StartFits, OptionsFit
    <2>3. Goes(w, "connect", "apiKey")
      BY <1>4 DEF UseApiKey
    <2>. QED  BY <1>2, <2>1, <2>2, <2>3 DEF Places, Installed, Gone
  <1>5. CASE UseNothing(w)
    <2>1. p.at = "options" /\ p.key = 0 /\ getTelemetryOptions(p.env) /\ p.env.auth = "none"
      BY <1>1, <1>5 DEF UseNothing, At, Env, StartFits, Installed
    <2>2. StartFits(Moved(p, "connect", "none"))
      BY <1>1, <2>1, MovedFields DEF Places, Installed, Gone, StartFits, OptionsFit
    <2>3. Goes(w, "connect", "none")
      BY <1>5 DEF UseNothing
    <2>. QED  BY <1>2, <2>1, <2>2, <2>3 DEF Places, Installed, Gone
  <1>6. ASSUME p.at \in {"options", "readKey"}, p.env.auth = "certs", p.key = 0, getTelemetryOptions(p.env), FallBack(w) PROVE Fits
    <2>1. StartFits(Moved(p, "connect", "none"))
      BY <1>1, <1>6, MovedFields DEF Places, Installed, Gone, StartFits, OptionsFit
    <2>. QED  BY <1>2, <1>6, <2>1 DEF FallBack, Places, Installed, Gone
  <1>7. CASE ReadCert(w)
    <2>1. p.at = "options" /\ p.key = 0 /\ getTelemetryOptions(p.env) /\ p.env.auth = "certs"
      BY <1>1, <1>7 DEF ReadCert, At, Env, StartFits, Installed
    <2>2. CASE files["crt"] = 0
      BY <1>6, <1>7, <2>1, <2>2 DEF ReadCert
    <2>3. CASE files["crt"] # 0
      <3>. DEFINE q == [p EXCEPT !.at = "readKey", !.crt = files["crt"]]
      <3>1. files["crt"] \in 0..MaxRotations
        BY DEF IInv, TypeOK, Files
      <3>2. q \in Process
        BY <1>1, <3>1 DEF Process, Places, Installed, Gone
      <3>3. q.at = "readKey" /\ q.key = 0 /\ q.env = p.env
        BY <1>1, <2>1 DEF Process
      <3>4. proc' = [proc EXCEPT ![w] = q] /\ UNCHANGED <<files, history>>
        BY <1>7, <2>3 DEF ReadCert, IInv, TypeOK
      <3>5. StartFits(q)
        BY <2>1, <3>3 DEF StartFits
      <3>6. Apart(w, q)
        BY <2>1, <3>2, <3>3, SameEnvironmentApart DEF Installed
      <3>. QED  BY <3>2, <3>4, <3>5, <3>6
    <2>. QED  BY <2>2, <2>3
  <1>8. CASE ReadKey(w)
    <2>1. p.at = "readKey" /\ p.key = 0 /\ getTelemetryOptions(p.env) /\ p.env.auth = "certs"
      BY <1>1, <1>8 DEF ReadKey, At, Env, StartFits, Installed
    <2>2. CASE files["key"] = 0
      BY <1>6, <1>8, <2>1, <2>2 DEF ReadKey
    <2>3. CASE files["key"] # 0
      <3>. DEFINE q == [p EXCEPT !.at = "connect", !.tls = "pair", !.key = files["key"]]
      <3>1. files["key"] \in 0..MaxRotations
        BY DEF IInv, TypeOK, Files
      <3>2. q \in Process
        BY <1>1, <3>1 DEF Process, Places, Installed, Gone
      <3>3. q.at = "connect" /\ q.tls = "pair" /\ q.key # 0 /\ q.env = p.env
        BY <1>1, <2>3 DEF Process
      <3>4. proc' = [proc EXCEPT ![w] = q] /\ UNCHANGED <<files, history>>
        BY <1>8, <2>3 DEF ReadKey, IInv, TypeOK
      <3>5. StartFits(q)
        BY <2>1, <3>3 DEF StartFits, OptionsFit
      <3>6. Apart(w, q)
        BY <2>1, <3>2, <3>3, SameEnvironmentApart DEF Installed
      <3>. QED  BY <3>2, <3>4, <3>5, <3>6
    <2>. QED  BY <2>2, <2>3
  <1>9. CASE Connect(w)
    <2>1. p.at = "connect" /\ OptionsFit(p) /\ getTelemetryOptions(p.env)
      BY <1>1, <1>9 DEF Connect, At, StartFits, Installed
    <2>2. CASE Goes(w, "unreachable", p.tls)
      <3>1. StartFits(Moved(p, "unreachable", p.tls))
        BY <1>1, <2>1, MovedFields DEF Places, Installed, Gone, StartFits
      <3>. QED  BY <1>1, <1>2, <2>1, <2>2, <3>1 DEF Places, Installed, Gone
    <2>3. CASE Accepts(p) /\ Goes(w, "create", p.tls)
      <3>1. StartFits(Moved(p, "create", p.tls))
        BY <1>1, <2>1, <2>3, MovedFields DEF Places, Installed, Gone, StartFits, OptionsFit, Accepts
      <3>. QED  BY <1>1, <1>2, <2>1, <2>3, <3>1 DEF Places, Installed, Gone
    <2>4. CASE ~Accepts(p) /\ Goes(w, "failed", p.tls)
      <3>1. ~Suitable(p.env) \/ (p.env.auth = "certs" /\ (p.crt = 0 \/ p.crt # p.key))
        BY <1>1, <2>1, <2>4, RefusedForACause DEF Suitable
      <3>2. StartFits(Moved(p, "failed", p.tls))
        BY <1>1, <3>1, MovedFields DEF Places, Installed, Gone, StartFits, Suitable
      <3>. QED  BY <1>1, <1>2, <2>4, <3>2 DEF Places, Installed, Gone
    <2>. QED  BY <1>9, <2>2, <2>3, <2>4 DEF Connect
  <1>10. CASE CreateWorker(w)
    <2>1. p.at = "create" /\ OptionsFit(p) /\ Accepts(p) /\ getTelemetryOptions(p.env)
      BY <1>1, <1>10 DEF CreateWorker, At, StartFits, Installed
    <2>2. CASE Creatable(p.env) /\ Goes(w, "online", p.tls)
      <3>1. StartFits(Moved(p, "online", p.tls))
        BY <1>1, <2>1, <2>2, MovedFields DEF Places, Installed, Gone, StartFits, OptionsFit, Accepts
      <3>. QED  BY <1>1, <1>2, <2>1, <2>2, <3>1 DEF Places, Installed, Gone
    <2>3. CASE ~Creatable(p.env) /\ Goes(w, "failed", p.tls)
      <3>1. StartFits(Moved(p, "failed", p.tls))
        BY <1>1, <2>1, <2>3, MovedFields DEF Places, Installed, Gone, StartFits, Suitable
      <3>. QED  BY <1>1, <1>2, <2>3, <3>1 DEF Places, Installed, Gone
    <2>4. CASE Goes(w, "unreachable", p.tls)
      <3>1. StartFits(Moved(p, "unreachable", p.tls))
        BY <1>1, <2>1, MovedFields DEF Places, Installed, Gone, StartFits
      <3>. QED  BY <1>1, <1>2, <2>4, <3>1 DEF Places, Installed, Gone
    <2>. QED  BY <1>10, <2>2, <2>3, <2>4 DEF CreateWorker, Env
  <1>. QED  BY <1>3, <1>4, <1>5, <1>7, <1>8, <1>9, <1>10 DEF Start

\* A worker that can read the newest payload of a history whose encryption
\* was kept can read all of it (cited by Task and by TakersCanReplayHolds).
LEMMA ReadsAllOfIt ==
    ASSUME TypeOK, EncryptionKept, history # <<>>, NEW e \in Environments,
           Decodes(e, history[Len(history)])
    PROVE  \A i \in 1..Len(history) : Decodes(e, history[i])
  <1>1. Len(history) \in 1..Len(history)
    BY DEF TypeOK
  <1>2. ASSUME NEW i \in 1..Len(history), history[i] # Plain
        PROVE  history[Len(history)] = history[i]
    BY <1>1, <1>2 DEF EncryptionKept
  <1>. QED  BY <1>2 DEF Decodes

\* A task leaves a payload no plainer than those before it.
LEMMA TaskKeepsEncryption ==
    ASSUME IInv, NEW w \in Workers, Task(w)
    PROVE  IInv'
  <1>1. /\ Env(w) \in Environments
        /\ Env(w).encrypt \in Encodings
    BY FleetAssumption DEF IInv, TypeOK, Process, Env, Environment
  <1>2. /\ history \in Seq(Encodings)
        /\ Len(history) \in 1..(MaxHistory - 1)
        /\ MaxHistory \in Nat
        /\ history' = Append(history, Env(w).encrypt)
    BY FleetAssumption DEF IInv, TypeOK, Task
  <1>3. /\ history' \in Seq(Encodings)
        /\ Len(history') = Len(history) + 1
        /\ history'[Len(history) + 1] = Env(w).encrypt
        /\ \A i \in 1..Len(history) : history'[i] = history[i]
    BY <1>1, <1>2
  <1>4. TypeOK'
    BY <1>2, <1>3 DEF IInv, TypeOK, Task
  <1>5. \A i \in 1..Len(history) : Decodes(Env(w), history[i])
    BY <1>1, <1>2, ReadsAllOfIt DEF IInv, Task
  <1>6. ASSUME NEW i \in 1..Len(history'), NEW j \in 1..Len(history'), i <= j, history'[i] # Plain
        PROVE  history'[j] = history'[i]
    <2>1. CASE j \in 1..Len(history)
      BY <1>2, <1>3, <1>6, <2>1 DEF IInv, EncryptionKept
    <2>2. CASE j = Len(history) + 1 /\ i \in 1..Len(history)
      BY <1>3, <1>5, <1>6, <2>2 DEF Decodes
    <2>3. CASE i = Len(history) + 1
      BY <1>2, <1>3, <1>6, <2>3
    <2>. QED  BY <1>2, <1>3, <2>1, <2>2, <2>3
  <1>7. StartsFit'
    BY DEF IInv, StartsFit, StartFits, OptionsFit, Accepts, Task
  <1>8. OneServesAnAddress'
    BY DEF IInv, OneServesAnAddress, Taken, Serving, Env, Task
  <1>. QED  BY <1>4, <1>6, <1>7, <1>8 DEF IInv, EncryptionKept

\* Whatever the settings of the fleet: types hold, encryption is kept, a
\* worker is rejected for its settings only when something is wrong with them
\* or with the certificates it read, and an address serves the metrics of one
\* worker. A server that does not answer, an address that is taken and a stop
\* end a start too, and are no rejection for the settings.
THEOREM FleetInvariance == Spec => []IInv
  <1>1. Init => IInv
    <2>. SUFFICES ASSUME Init PROVE IInv
      OBVIOUS
    <2>1. /\ proc \in [Workers -> Process]
          /\ \A w \in Workers : StartFits(proc[w]) /\ ~Serving(proc[w])
      BY LaunchedIsProcess DEF Init
    <2>2. files \in [Files -> 0..MaxRotations]
      BY FleetAssumption DEF Init
    <2>. QED  BY <2>1, <2>2, FleetAssumption DEF Init, IInv, TypeOK, EncryptionKept, StartsFit, OneServesAnAddress
  <1>2. IInv /\ [Next]_vars => IInv'
    <2>. SUFFICES ASSUME IInv, [Next]_vars PROVE IInv'
      OBVIOUS
    <2>1. ASSUME UNCHANGED proc PROVE StartsFit' /\ OneServesAnAddress'
      <3>1. StartsFit'
        BY <2>1 DEF IInv, StartsFit, StartFits, OptionsFit, Accepts
      <3>2. OneServesAnAddress'
        BY <2>1 DEF IInv, OneServesAnAddress, Taken, Serving, Env
      <3>. QED  BY <3>1, <3>2
    <2>2. ASSUME NEW w \in Workers, Launch(w) PROVE IInv'
      <3>1. PICK e \in Environments : proc' = [proc EXCEPT ![w] = Launched("main", e)]
        BY <2>2 DEF Launch
      <3>2. Apart(w, Launched("main", e))
        BY LaunchedIsProcess DEF Apart
      <3>. QED  BY <2>2, <3>1, <3>2, LaunchedIsProcess, MoveKeepsInv DEF Launch
    <2>3. ASSUME NEW w \in Workers, Start(w) PROVE IInv'
      BY <2>3, StartIsAMove, MoveKeepsInv
    <2>4. ASSUME NEW w \in Workers, Stop(w) PROVE IInv'
      <3>1. Env(w) \in Environments
        BY DEF IInv, TypeOK, Process, Env
      <3>2. Apart(w, Launched("down", Env(w)))
        BY <3>1, LaunchedIsProcess DEF Apart
      <3>. QED  BY <2>4, <3>1, <3>2, LaunchedIsProcess, MoveKeepsInv DEF Stop
    <2>5. ASSUME NEW w \in Workers, Task(w) PROVE IInv'
      BY <2>5, TaskKeepsEncryption
    <2>6. ASSUME NEW f \in Files, Rotate(f) PROVE IInv'
      <3>1. files[f] + 1 \in 0..MaxRotations
        BY <2>6, FleetAssumption DEF Rotate, IInv, TypeOK
      <3>2. files' \in [Files -> 0..MaxRotations]
        BY <2>6, <3>1 DEF Rotate, IInv, TypeOK
      <3>. QED  BY <2>1, <2>6, <3>2 DEF Rotate, IInv, TypeOK, EncryptionKept
    <2>7. CASE StartTransfer
      <3>1. PICK c \in Encodings : history' = <<c>>
        BY <2>7 DEF StartTransfer
      <3>2. TypeOK'
        BY <2>7, <3>1, FleetAssumption DEF StartTransfer, IInv, TypeOK
      <3>3. EncryptionKept'
        BY <3>1 DEF EncryptionKept
      <3>. QED  BY <2>1, <2>7, <3>2, <3>3 DEF IInv, StartTransfer
    <2>8. CASE UNCHANGED vars
      BY <2>1, <2>8 DEF vars, IInv, TypeOK, EncryptionKept
    <2>. QED  BY <2>2, <2>3, <2>4, <2>5, <2>6, <2>7, <2>8 DEF Next
  <1>. QED  BY <1>1, <1>2, PTL DEF Spec

\* So whoever takes a task of the transfer can replay all of it.
THEOREM TakersCanReplayHolds == Spec => []TakersCanReplay
  <1>1. IInv => TakersCanReplay
    BY ReadsAllOfIt DEF IInv, TakersCanReplay
  <1>. QED  BY <1>1, FleetInvariance, PTL

\* A worker that its settings were rejected for ("failed") has a cause its
\* operator can find: an environment that does not fit, a certificate file that
\* was missing, or a pair torn by a rotation. It is online only if its server
\* takes its options and it could be created. The ends that are not for its
\* settings (no answer of the server, an address that is taken) are apart.
THEOREM StartsFitHolds == Spec => []StartsFit
  BY FleetInvariance, PTL DEF IInv

\* The newest payload of a transfer whose client encrypts can be read by every
\* worker with the client's key: its task is never out of its reach, which is
\* what EncryptedTransferGoesOn rests on (README.md:172).
ClientsKeyReads ==
    history # <<>> => \A w \in Workers :
        history[1] # Plain /\ Env(w).encrypt = history[1] => Decodes(Env(w), history[Len(history)])

THEOREM ClientsKeyReadsHolds == Spec => []ClientsKeyReads
  <1>1. IInv => ClientsKeyReads
    <2>. SUFFICES ASSUME IInv, history # <<>>, history[1] # Plain
                  PROVE  history[Len(history)] = history[1]
      BY DEF ClientsKeyReads, Decodes
    <2>1. Len(history) \in 1..Len(history) /\ 1 \in 1..Len(history)
      BY DEF IInv, TypeOK
    <2>. QED  BY <2>1 DEF IInv, EncryptionKept
  <1>. QED  BY <1>1, FleetInvariance, PTL

-----------------------------------------------------------------------------
(* A start that nothing will make fail: the environment is suitable, the    *)
(* certificates stay, and what the worker has read of them is the last pair.*)
GoodStart(w) ==
    LET p == proc[w] IN
    /\ CertificatesStay
    /\ Suitable(p.env)
    /\ p.at \in {"main", "options", "readKey", "connect", "create"}
    /\ p.at = "readKey" => p.crt = MaxRotations
    /\ p.at = "connect" => Accepts(p)

Ended(w) == At(w) \in {"online", "unreachable", "unbound", "down"}

\* A step of a good start is followed by another, or ends it well.
LEMMA GoodStartGoesOn ==
    ASSUME IInv, NEW w \in Workers, GoodStart(w), Start(w)
    PROVE  GoodStart(w)' \/ Ended(w)'
  <1>. DEFINE p == proc[w]
  <1>1. /\ p \in Process /\ p.tls \in {"none", "apiKey", "pair"}
        /\ p.env \in Environments /\ StartFits(p)
    BY DEF IInv, TypeOK, StartsFit, Process
  <1>2. /\ CertificatesStay /\ Suitable(p.env)
        /\ files["crt"] = MaxRotations /\ files["key"] = MaxRotations /\ MaxRotations # 0
    BY FleetAssumption DEF GoodStart, CertificatesStay, Files
  <1>3. UNCHANGED files
    BY StartIsAMove
  <1>4. ASSUME NEW q \in Process, proc' = [proc EXCEPT ![w] = q], q.env = p.env,
               q.at \in {"options", "readKey", "connect", "create", "online", "unreachable", "unbound"},
               q.at = "readKey" => q.crt = MaxRotations,
               q.at = "connect" => Accepts(q)
        PROVE  GoodStart(w)' \/ Ended(w)'
    <2>1. proc'[w] = q
      BY <1>4 DEF IInv, TypeOK
    <2>2. CertificatesStay'
      BY <1>2, <1>3 DEF CertificatesStay
    <2>. QED  BY <1>2, <1>4, <2>1, <2>2 DEF GoodStart, Ended, At, Accepts, Suitable, getTelemetryOptions, Creatable, getWorkflowOptions, getDataConverter
  <1>5. ASSUME NEW place \in {"options", "connect", "create", "online", "unreachable", "unbound"},
               NEW tls \in {"none", "apiKey", "pair"}, Goes(w, place, tls),
               place = "connect" => Accepts(Moved(p, place, tls))
        PROVE  GoodStart(w)' \/ Ended(w)'
    <2>1. place \in Places /\ place # "readKey"
      BY DEF Places, Installed, Gone
    <2>2. proc' = [proc EXCEPT ![w] = Moved(p, place, tls)]
      BY <1>5, <2>1, GoesTo DEF IInv
    <2>3. /\ Moved(p, place, tls) \in Process
          /\ Moved(p, place, tls).env = p.env
          /\ Moved(p, place, tls).at = place
      BY <1>1, <2>1, MovedFields
    <2>. QED  BY <1>4, <1>5, <2>1, <2>2, <2>3
  <1>6. CASE InstallRuntime(w)
    BY <1>2, <1>5, <1>6 DEF InstallRuntime, Env, Suitable
  <1>7. CASE UseApiKey(w)
    <2>1. Accepts(Moved(p, "connect", "apiKey"))
      BY <1>1, <1>2, <1>7, MovedFields DEF UseApiKey, Env, Places, Installed, Gone, Accepts, Suitable, Environment
    <2>. QED  BY <1>5, <1>7, <2>1 DEF UseApiKey
  <1>8. CASE UseNothing(w)
    <2>1. Accepts(Moved(p, "connect", "none"))
      BY <1>1, <1>2, <1>8, MovedFields DEF UseNothing, Env, Places, Installed, Gone, Accepts, Suitable
    <2>. QED  BY <1>5, <1>8, <2>1 DEF UseNothing
  <1>9. CASE ReadCert(w)
    <2>. DEFINE q == [p EXCEPT !.at = "readKey", !.crt = files["crt"]]
    <2>1. files["crt"] \in 0..MaxRotations
      BY DEF IInv, TypeOK, Files
    <2>2. q \in Process
      BY <1>1, <2>1 DEF Process, Places, Installed, Gone
    <2>3. q.at = "readKey" /\ q.crt = MaxRotations /\ q.env = p.env
      BY <1>1, <1>2 DEF Process
    <2>4. proc' = [proc EXCEPT ![w] = q]
      BY <1>2, <1>9 DEF ReadCert, IInv, TypeOK
    <2>. QED  BY <1>4, <2>2, <2>3, <2>4
  <1>10. CASE ReadKey(w)
    <2>. DEFINE q == [p EXCEPT !.at = "connect", !.tls = "pair", !.key = files["key"]]
    <2>1. p.at = "readKey" /\ p.env.auth = "certs" /\ p.crt = MaxRotations
      BY <1>1, <1>10 DEF ReadKey, At, StartFits, GoodStart
    <2>2. files["key"] \in 0..MaxRotations
      BY DEF IInv, TypeOK, Files
    <2>3. q \in Process
      BY <1>1, <2>2 DEF Process, Places, Installed, Gone
    <2>4. /\ q.at = "connect" /\ q.tls = "pair" /\ q.env = p.env
          /\ q.crt = MaxRotations /\ q.key = MaxRotations
      BY <1>1, <1>2, <2>1 DEF Process
    <2>5. Accepts(q)
      BY <1>2, <2>1, <2>4 DEF Accepts, Suitable
    <2>6. proc' = [proc EXCEPT ![w] = q]
      BY <1>2, <1>10 DEF ReadKey, IInv, TypeOK
    <2>. QED  BY <1>4, <2>3, <2>4, <2>5, <2>6
  <1>11. CASE Connect(w)
    <2>1. Accepts(p)
      BY <1>11 DEF Connect, At, GoodStart
    <2>. QED  BY <1>1, <1>5, <1>11, <2>1 DEF Connect
  <1>12. CASE CreateWorker(w)
    <2>1. Creatable(p.env)
      BY <1>2 DEF Suitable
    <2>. QED  BY <1>1, <1>5, <1>12, <2>1 DEF CreateWorker, Env
  <1>. QED  BY <1>6, <1>7, <1>8, <1>9, <1>10, <1>11, <1>12 DEF Start

\* Nothing else ends a good start badly either: another worker's steps leave
\* it alone, the certificates do not change any more, and a stop ends it.
LEMMA GoodStartStays ==
    ASSUME IInv, [Next]_vars, NEW w \in Workers, GoodStart(w)
    PROVE  GoodStart(w)' \/ Ended(w)'
  <1>1. ASSUME proc'[w] = proc[w], UNCHANGED files PROVE GoodStart(w)'
    BY <1>1 DEF GoodStart, CertificatesStay, Accepts, Suitable, getTelemetryOptions, Creatable, getWorkflowOptions, getDataConverter
  <1>2. ASSUME NEW v \in Workers, Launch(v) PROVE GoodStart(w)'
    <2>1. v # w
      BY <1>2 DEF Launch, GoodStart, At, Gone
    <2>2. PICK e \in Environments : proc' = [proc EXCEPT ![v] = Launched("main", e)]
      BY <1>2 DEF Launch
    <2>. QED  BY <1>1, <1>2, <2>1, <2>2 DEF Launch, IInv, TypeOK
  <1>3. ASSUME NEW v \in Workers, Start(v) PROVE GoodStart(w)' \/ Ended(w)'
    <2>1. CASE v = w
      BY <1>3, <2>1, GoodStartGoesOn
    <2>2. CASE v # w
      BY <1>1, <1>3, <2>2, StartIsAMove DEF IInv, TypeOK
    <2>. QED  BY <2>1, <2>2
  <1>4. ASSUME NEW v \in Workers, Stop(v) PROVE GoodStart(w)' \/ Ended(w)'
    <2>1. CASE v = w
      BY <1>4, <2>1 DEF Stop, Ended, At, Launched, IInv, TypeOK
    <2>2. CASE v # w
      BY <1>1, <1>4, <2>2 DEF Stop, IInv, TypeOK
    <2>. QED  BY <2>1, <2>2
  <1>5. ASSUME NEW v \in Workers, Task(v) PROVE GoodStart(w)'
    BY <1>1, <1>5 DEF Task
  <1>6. ASSUME NEW f \in Files, Rotate(f) PROVE FALSE
    BY <1>6, FleetAssumption DEF Rotate, GoodStart, CertificatesStay
  <1>7. CASE StartTransfer \/ UNCHANGED vars
    BY <1>1, <1>7 DEF StartTransfer, vars
  <1>. QED  BY <1>2, <1>3, <1>4, <1>5, <1>6, <1>7 DEF Next

\* Given that starts end, which takes the fairness of the processes, a worker
\* started in a suitable environment, once the certificates are there and no
\* longer rotated, is not rejected for its settings (env.ts:33-49): it is
\* online, or gone because the server did not answer, because the address of
\* its metrics was taken, or because it was stopped.
THEOREM GoodStartsSucceedIfTheyEnd == Spec /\ StartsEnd => GoodStartsSucceed
  <1>. DEFINE Good(w) == At(w) = "main" /\ Suitable(Env(w)) /\ CertificatesStay
              End(w) == At(w) \in {"online"} \cup Gone
  <1>1. ASSUME NEW w \in Workers
        PROVE  Spec /\ (At(w) = "main" ~> End(w)) => (Good(w) ~> Ended(w))
    <2>1. Good(w) => At(w) = "main" /\ GoodStart(w)
      BY DEF At, Env, GoodStart
    <2>2. IInv /\ [Next]_vars /\ GoodStart(w) => GoodStart(w)' \/ Ended(w)'
      BY GoodStartStays
    <2>3. GoodStart(w) => ~End(w)
      BY DEF GoodStart, At, Gone
    <2>. QED  BY <2>1, <2>2, <2>3, FleetInvariance, PTL DEF Spec
  <1>2. \A w \in Workers : Spec /\ (At(w) = "main" ~> End(w)) => (Good(w) ~> Ended(w))
    BY <1>1
  <1>. QED  BY <1>2 DEF StartsEnd, GoodStartsSucceed, Ended
=============================================================================
