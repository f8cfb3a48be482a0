------------------------------ MODULE AtomicCodec ------------------------------
(***************************************************************************)
(* What the codec server promises its clients: every request is answered   *)
(* as if it were worked on at once, alone, and with the one key the server *)
(* was started with.  Requests under way when the server dies are lost.    *)
(***************************************************************************)
EXTENDS EncryptionCodec, FiniteSets

CONSTANTS
    Requests,      \* the requests that may be under way at a time
    EncryptKeys,   \* what ENCRYPT_KEY may hold
    ValidKeys,     \* those of them that have a length AES allows
    Samples,       \* the payloads clients make up, encrypted ones among them
    MaxPayloads,   \* bound: payloads in a request
    MaxStored      \* bound: encoded payloads clients keep

ASSUME CodecAssumption ==
    /\ ValidKeys \subseteq EncryptKeys
    /\ MaxPayloads \in Nat /\ MaxStored \in Nat

VARIABLES
    server,        \* starting, listening or exited
    encryptKey,    \* the key in the environment of the running server
    posts,         \* what each request asks for, and its answer
    stored         \* payloads clients had encoded, and what they were

avars == << server, encryptKey, posts, stored >>

Endpoints == { "/encode", "/decode" }

Answer(status, payloads) == [ status |-> status, payloads |-> payloads ]

Unanswered  == Answer("none", << >>)
ServerError == Answer("500", << >>)
Lost        == Answer("lost", << >>)

Post(endpoint, payloads, answer) ==
    [ endpoint |-> endpoint, payloads |-> payloads, answer |-> answer ]

NoPost == Post("none", << >>, Unanswered)

Pending(r) == posts[r].endpoint # "none" /\ posts[r].answer = Unanswered

\* The payloads of a request: made up, or what was encoded earlier.
Bodies == UNION { [1..n -> Samples \cup { s.encoded : s \in stored }] : n \in 0..MaxPayloads }

-----------------------------------------------------------------------------

\* decode passes on what is not encrypted.
Decrypts(endpoint, p) == endpoint = "/decode" /\ ~IsPlain(p)

\* One payload that fails makes its whole request fail.
Fails(endpoint, p, key) ==
    \/ ~IsJSONPayload(p)
    \/ /\ Decrypts(endpoint, p)
       /\ LacksParts(fromJSON(p)) \/ ~decrypt(fromJSON(p), key)

\* What a payload becomes.
Becomes(endpoint, p, key) ==
    IF endpoint = "/encode" THEN encode(fromJSON(p), key) ELSE decode(fromJSON(p))

\* The answer a request gets under a key.
Reply(endpoint, payloads, key) ==
    IF \E i \in DOMAIN payloads : Fails(endpoint, payloads[i], key)
    THEN ServerError
    ELSE Answer("200", [i \in DOMAIN payloads |-> Becomes(endpoint, payloads[i], key)])

-----------------------------------------------------------------------------

AtomicInit ==
    /\ server = "starting"
    /\ encryptKey \in EncryptKeys
    /\ posts = [r \in Requests |-> NoPost]
    /\ stored = {}

\* The server has created its codec, which imports the key, and listens; a
\* key that cannot be imported, or a port that is taken, ends it.
AtomicListen ==
    /\ server = "starting"
    /\ server' \in {"exited"} \cup { s \in {"listening"} : encryptKey \in ValidKeys }
    /\ UNCHANGED << encryptKey, posts, stored >>

\* A request arrives; it may be answered at once.
AtomicPost(r) ==
    /\ server = "listening"
    /\ posts[r] = NoPost
    /\ \E endpoint \in Endpoints, payloads \in Bodies :
       \E answer \in { Unanswered, Reply(endpoint, payloads, encryptKey) } :
          posts' = [posts EXCEPT ![r] = Post(endpoint, payloads, answer)]
    /\ UNCHANGED << server, encryptKey, stored >>

AtomicAnswer(r) ==
    /\ Pending(r)
    /\ posts' = [posts EXCEPT ![r].answer =
                    Reply(posts[r].endpoint, posts[r].payloads, encryptKey)]
    /\ UNCHANGED << server, encryptKey, stored >>

\* The client takes the answer, and may keep what was encoded.
Take(r) ==
    /\ posts[r] # NoPost /\ ~Pending(r)
    /\ posts' = [posts EXCEPT ![r] = NoPost]
    /\ \/ stored' = stored
       \/ /\ posts[r].endpoint = "/encode"
          /\ stored' = stored \cup
                { [ plain |-> posts[r].payloads[i], encoded |-> posts[r].answer.payloads[i] ] :
                    i \in DOMAIN posts[r].answer.payloads }
          /\ Cardinality(stored') <= MaxStored
    /\ UNCHANGED << server, encryptKey >>

\* The operator starts the server again, perhaps with another ENCRYPT_KEY.
Launch ==
    /\ encryptKey' \in EncryptKeys
    /\ server' = "starting"
    /\ posts' = [r \in Requests |->
                   IF Pending(r) THEN [posts[r] EXCEPT !.answer = Lost] ELSE posts[r]]
    /\ UNCHANGED stored

AtomicNext ==
    \/ AtomicListen
    \/ \E r \in Requests : AtomicPost(r) \/ AtomicAnswer(r) \/ Take(r)
    \/ Launch

AtomicSpec == AtomicInit /\ [][AtomicNext]_avars

\* No request waits for ever.
FairAtomicSpec == AtomicSpec /\ \A r \in Requests : WF_avars(AtomicAnswer(r))
=============================================================================
