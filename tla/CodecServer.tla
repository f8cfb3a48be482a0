------------------------------ MODULE CodecServer ------------------------------
(***************************************************************************)
(* The codec server, which encodes and decodes payloads for clients that   *)
(* hold no key.  A handler starts the work on all payloads of its request  *)
(* in one go and awaits them together; the work on a payload stops where   *)
(* it fetches a key and where the cipher runs, and these end in any order, *)
(* also after the request was answered because another payload failed.     *)
(* All requests share the keys the codec has fetched so far.               *)
(***************************************************************************)
EXTENDS AtomicCodec

CONSTANT NoKey

ASSUME KeyAssumption == NoKey \notin EncryptKeys

VARIABLES
    keys,    \* the codec's map from key ids to keys
    tasks    \* of each request, the promises of its payloads

vars == << avars, keys, tasks >>

Task(state, key) == [ state |-> state, key |-> key ]

NoTasks == << >>

Settled(task) == task.state \in { "resolved", "rejected" }

Init ==
    /\ AtomicInit
    /\ keys = << >>
    /\ tasks = [r \in Requests |-> NoTasks]

-----------------------------------------------------------------------------

\* Whatever the key id, the key is the one in the environment.
fetchKey(keyId) == encryptKey

\* EncryptionCodec.create, and the server listens if it can.
Listen ==
    /\ AtomicListen
    /\ keys' = IF encryptKey \in ValidKeys
               THEN [k \in { defaultKeyId } |-> fetchKey(k)] ELSE keys
    /\ UNCHANGED tasks

\* The id of the key a payload needs.
KeyIdOf(endpoint, p) == IF endpoint = "/encode" THEN defaultKeyId ELSE p.keyId

\* The cipher has to run for a payload, with a key.
NeedsKey(endpoint, p) ==
    endpoint = "/encode" \/ (Decrypts(endpoint, p) /\ ~LacksParts(p))

HasKey(endpoint, p) == KeyIdOf(endpoint, p) \in DOMAIN keys

\* Mutant: a key that is not there is not fetched.
BeginWithoutFetch(endpoint, p) ==
    CASE endpoint = "/decode" /\ IsPlain(p)          -> Task("resolved", NoKey)
      [] Decrypts(endpoint, p) /\ LacksParts(p)      -> Task("rejected", NoKey)
      [] NeedsKey(endpoint, p) /\ ~HasKey(endpoint, p) -> Task("rejected", NoKey)
      [] OTHER -> Task("crypting", keys[KeyIdOf(endpoint, p)])

\* The work on a payload, up to its first await.
Begin(endpoint, p) ==
    CASE endpoint = "/decode" /\ IsPlain(p)          -> Task("resolved", NoKey)
      [] Decrypts(endpoint, p) /\ LacksParts(p)      -> Task("rejected", NoKey)
      [] NeedsKey(endpoint, p) /\ ~HasKey(endpoint, p) -> Task("fetching", NoKey)
      [] OTHER -> Task("crypting", keys[KeyIdOf(endpoint, p)])

\* Mutant: what failed is left out, as with Promise.allSettled.
AwaitAllSettled(endpoint, payloads, promises) ==
    IF \A i \in DOMAIN promises : Settled(promises[i])
    THEN Answer("200", [ i \in { j \in DOMAIN promises : promises[j].state = "resolved" } |->
                           Becomes(endpoint, payloads[i], promises[i].key) ])
    ELSE Unanswered

\* Promise.all: the first failure is the answer, whatever is still under way.
AwaitAll(endpoint, payloads, promises) ==
    IF \E i \in DOMAIN promises : promises[i].state = "rejected" THEN ServerError
    ELSE IF \A i \in DOMAIN promises : promises[i].state = "resolved"
    THEN Answer("200", [ i \in DOMAIN promises |->
                           Becomes(endpoint, payloads[i], promises[i].key) ])
    ELSE Unanswered

\* A request arrives.  When one of its payloads is malformed no work begins.
PostRequest(r) ==
    /\ server = "listening"
    /\ posts[r] = NoPost
    /\ \E endpoint \in Endpoints, payloads \in Bodies :
         LET begun == [i \in DOMAIN payloads |-> Begin(endpoint, fromJSON(payloads[i]))]
         IN  IF \A i \in DOMAIN payloads : IsJSONPayload(payloads[i])
             THEN /\ tasks' = [tasks EXCEPT ![r] = begun]
                  /\ posts' = [posts EXCEPT ![r] =
                        Post(endpoint, payloads, AwaitAll(endpoint, payloads, begun))]
             ELSE /\ tasks' = [tasks EXCEPT ![r] = NoTasks]
                  /\ posts' = [posts EXCEPT ![r] = Post(endpoint, payloads, ServerError)]
    /\ UNCHANGED << server, encryptKey, stored, keys >>

\* Mutant: a key that is there by now is not waited for.
FetchDoneOnce(r, i) ==
    LET keyId == posts[r].payloads[i].keyId
    IN  /\ tasks[r][i].state = "fetching"
        /\ keyId \notin DOMAIN keys
        /\ keys' = [k \in DOMAIN keys \cup { keyId } |->
                      IF k = keyId THEN fetchKey(k) ELSE keys[k]]
        /\ tasks' = [tasks EXCEPT ![r][i] = Task("crypting", fetchKey(keyId))]
        /\ UNCHANGED avars

\* The key is there: keep it for later payloads, and decrypt.
FetchDone(r, i) ==
    LET keyId == posts[r].payloads[i].keyId
    IN  /\ tasks[r][i].state = "fetching"
        /\ keys' = [k \in DOMAIN keys \cup { keyId } |->
                      IF k = keyId THEN fetchKey(k) ELSE keys[k]]
        /\ tasks' = [tasks EXCEPT ![r][i] = Task("crypting", fetchKey(keyId))]
        /\ UNCHANGED avars

\* The cipher ran.  The request is answered when this settles it.
CryptDone(r, i) ==
    LET post   == posts[r]
        key    == tasks[r][i].key
        opens  == \/ post.endpoint = "/encode"
                  \/ decrypt(fromJSON(post.payloads[i]), key)
        task   == Task(IF opens THEN "resolved" ELSE "rejected", key)
        now    == [tasks[r] EXCEPT ![i] = task]
    IN  /\ tasks[r][i].state = "crypting"
        /\ tasks' = [tasks EXCEPT ![r] = now]
        /\ posts' = IF Pending(r)
                    THEN [posts EXCEPT ![r].answer = AwaitAll(post.endpoint, post.payloads, now)]
                    ELSE posts
        /\ UNCHANGED << server, encryptKey, stored, keys >>

\* A request whose work is still going on is not forgotten.
TakeAnswer(r) ==
    /\ Take(r)
    /\ \A i \in DOMAIN tasks[r] : Settled(tasks[r][i])
    /\ tasks' = [tasks EXCEPT ![r] = NoTasks]
    /\ UNCHANGED keys

\* The keys and the work under way go with the process.
Restart ==
    /\ Launch
    /\ keys' = << >>
    /\ tasks' = [r \in Requests |-> NoTasks]

Work(r) == \E i \in DOMAIN tasks[r] : FetchDone(r, i) \/ CryptDone(r, i)

Next ==
    \/ Listen
    \/ \E r \in Requests : PostRequest(r) \/ Work(r) \/ TakeAnswer(r)
    \/ Restart

\* Fetches and ciphers end.
Fairness == \A r \in Requests : WF_vars(Work(r))

Spec     == Init /\ [][Next]_vars
FairSpec == Spec /\ Fairness

-----------------------------------------------------------------------------

TypeOK ==
    /\ server \in { "starting", "listening", "exited" }
    /\ encryptKey \in EncryptKeys
    /\ posts = [r \in Requests |->
                  Post(posts[r].endpoint, posts[r].payloads, posts[r].answer)]
    /\ tasks = [r \in Requests |->
                  [i \in DOMAIN tasks[r] |-> Task(tasks[r][i].state, tasks[r][i].key)]]
    /\ \A r \in Requests :
         /\ posts[r].endpoint \in Endpoints \cup { "none" }
         /\ \A i \in DOMAIN tasks[r] :
              tasks[r][i].state \in { "fetching", "crypting", "resolved", "rejected" }

\* The work on a payload comes out as the payload deserves.
TaskFits(key, endpoint, p, task) ==
    /\ task.state = "crypting" => task.key = key
    /\ task.state = "rejected" => Fails(endpoint, p, key)
    /\ task.state = "resolved" =>
          /\ ~Fails(endpoint, p, key)
          /\ endpoint = "/encode" => task.key = key
    /\ task.state \in { "fetching", "crypting" } => NeedsKey(endpoint, fromJSON(p))

\* The keys are the key of this run of the server, and so is every key the
\* work under way uses; a request waits just as long as nothing failed and
\* something is to do.
IInv ==
    /\ TypeOK
    /\ \A k \in DOMAIN keys : keys[k] = encryptKey
    /\ server = "listening" => encryptKey \in ValidKeys /\ defaultKeyId \in DOMAIN keys
    /\ \A r \in Requests :
         /\ DOMAIN tasks[r] \in { {}, DOMAIN posts[r].payloads }
         /\ \A i \in DOMAIN tasks[r] :
              /\ IsJSONPayload(posts[r].payloads[i])
              /\ TaskFits(encryptKey, posts[r].endpoint, posts[r].payloads[i], tasks[r][i])
         /\ Pending(r) =>
              /\ \A i \in DOMAIN tasks[r] : tasks[r][i].state # "rejected"
              /\ \E i \in DOMAIN tasks[r] : ~Settled(tasks[r][i])

-----------------------------------------------------------------------------

\* What was encoded earlier.
IsStored(p) == \E s \in stored : s.encoded = p

\* README.md: payloads can be decoded "as long as you do not change the
\* encryption key".  A request for what was encoded under the key the server
\* has, in whatever run of it, gives what was encoded, at the same places.
ReadsBack ==
    [][\A r \in Requests :
         /\ Pending(r) /\ posts[r].endpoint = "/decode"
         /\ posts'[r].answer.status \in { "200", "500" }
         /\ \A i \in DOMAIN posts[r].payloads :
               \E s \in stored : s.encoded = posts[r].payloads[i] /\ s.encoded.data.key = encryptKey
         => /\ posts'[r].answer.status = "200"
            /\ \A i \in DOMAIN posts[r].payloads :
                  \E s \in stored :
                     /\ s.encoded = posts[r].payloads[i]
                     /\ posts'[r].answer.payloads[i] = ThroughProto(fromJSON(s.plain))]_vars

\* And what was encoded under another key is never read, although it names
\* the same key id.
OtherKeyRefused ==
    [][\A r \in Requests :
         /\ Pending(r) /\ posts[r].endpoint = "/decode"
         /\ posts'[r].answer.status = "200"
         => \A i \in DOMAIN posts[r].payloads :
               IsStored(posts[r].payloads[i]) => posts[r].payloads[i].data.key = encryptKey]_vars

\* Every request is answered as if alone, in spite of the shared keys and of
\* work that ends in any order; and it is answered.
ImplementsAtomicCodec == AtomicSpec
ImplementsFairCodec   == FairAtomicSpec
=============================================================================
