--------------------------- MODULE CodecServerProofs ---------------------------
(***************************************************************************)
(* What holds of the codec server for every number of requests under way,  *)
(* every set of keys and of payloads, and requests of any length.          *)
(***************************************************************************)
EXTENDS CodecServer, TLAPS

-----------------------------------------------------------------------------
(* Payloads. *)

\* fromJSON keeps the metadata.
LEMMA FromJSONKeeps ==
    ASSUME NEW p
    PROVE  /\ IsPlain(fromJSON(p)) <=> IsPlain(p)
           /\ \A e : Decrypts(e, fromJSON(p)) <=> Decrypts(e, p)
BY DEF fromJSON, IsPlain, Decrypts

\* The work begins as it has to come out: it ends at once when there is
\* nothing to decrypt or a part is missing, and else it has the key of this
\* run of the server, or waits for it.
LEMMA BeginFits ==
    ASSUME \A k \in DOMAIN keys : keys[k] = encryptKey,
           NEW endpoint \in Endpoints, NEW p, IsJSONPayload(p)
    PROVE  /\ TaskFits(encryptKey, endpoint, p, Begin(endpoint, fromJSON(p)))
           /\ Begin(endpoint, fromJSON(p)).state
                \in { "fetching", "crypting", "resolved", "rejected" }
           /\ Begin(endpoint, fromJSON(p)) =
                 Task(Begin(endpoint, fromJSON(p)).state, Begin(endpoint, fromJSON(p)).key)
<1> DEFINE q == fromJSON(p)
<1>1. /\ Decrypts(endpoint, q) <=> Decrypts(endpoint, p)
      /\ IsPlain(q) <=> IsPlain(p)
  BY FromJSONKeeps
<1> HIDE DEF q
<1>2. CASE endpoint = "/decode" /\ IsPlain(q)
  BY <1>1, <1>2 DEF Begin, Task, TaskFits, Fails, Decrypts, NeedsKey, q
<1>3. CASE Decrypts(endpoint, q) /\ LacksParts(q)
  BY <1>1, <1>3 DEF Begin, Task, TaskFits, Fails, Decrypts, NeedsKey, q
<1>4. CASE NeedsKey(endpoint, q)
  BY <1>1, <1>4 DEF Begin, Task, TaskFits, NeedsKey, HasKey, Decrypts, q
<1>5. endpoint = "/encode" \/ endpoint = "/decode"
  BY DEF Endpoints
<1> QED
  BY <1>2, <1>3, <1>4, <1>5 DEF NeedsKey, Decrypts, q

\* When the work on all payloads is over, or on one that failed, the answer is
\* the one the request deserves, and until then there is none.
LEMMA AwaitAllReplies ==
    ASSUME NEW endpoint, NEW payloads, NEW promises,
           DOMAIN promises = DOMAIN payloads,
           \A i \in DOMAIN promises : TaskFits(encryptKey, endpoint, payloads[i], promises[i])
    PROVE  \/ /\ AwaitAll(endpoint, payloads, promises) = Unanswered
              /\ \A i \in DOMAIN promises : promises[i].state # "rejected"
              /\ \E i \in DOMAIN promises : promises[i].state # "resolved"
           \/ /\ AwaitAll(endpoint, payloads, promises) =
                    Reply(endpoint, payloads, encryptKey)
              /\ AwaitAll(endpoint, payloads, promises) # Unanswered
<1>1. CASE \E i \in DOMAIN promises : promises[i].state = "rejected"
  BY <1>1 DEF AwaitAll, Reply, TaskFits, ServerError, Unanswered, Answer
<1>2. CASE \A i \in DOMAIN promises : promises[i].state = "resolved"
  <2>1. \A i \in DOMAIN payloads : ~Fails(endpoint, payloads[i], encryptKey)
    BY <1>2 DEF TaskFits
  <2>2. \A i \in DOMAIN payloads :
           Becomes(endpoint, payloads[i], promises[i].key) = Becomes(endpoint, payloads[i], encryptKey)
    BY <1>2 DEF TaskFits, Becomes
  <2>3. AwaitAll(endpoint, payloads, promises) =
           Answer("200", [i \in DOMAIN payloads |-> Becomes(endpoint, payloads[i], promises[i].key)])
    BY <1>2 DEF AwaitAll
  <2> QED
    BY <2>1, <2>2, <2>3 DEF Reply, Unanswered, Answer
<1>3. CASE /\ ~ \E i \in DOMAIN promises : promises[i].state = "rejected"
           /\ ~ \A i \in DOMAIN promises : promises[i].state = "resolved"
  BY <1>3 DEF AwaitAll
<1> QED
  BY <1>1, <1>2, <1>3

-----------------------------------------------------------------------------
(* The invariant, in parts. *)

RequestFits(r) ==
    /\ posts[r].endpoint \in Endpoints \cup { "none" }
    /\ DOMAIN tasks[r] \in { {}, DOMAIN posts[r].payloads }
    /\ \A i \in DOMAIN tasks[r] :
         /\ tasks[r][i].state \in { "fetching", "crypting", "resolved", "rejected" }
         /\ IsJSONPayload(posts[r].payloads[i])
         /\ TaskFits(encryptKey, posts[r].endpoint, posts[r].payloads[i], tasks[r][i])
    /\ Pending(r) =>
         /\ \A i \in DOMAIN tasks[r] : tasks[r][i].state # "rejected"
         /\ \E i \in DOMAIN tasks[r] : ~Settled(tasks[r][i])

ServerFits ==
    /\ server \in { "starting", "listening", "exited" }
    /\ encryptKey \in EncryptKeys
    /\ \A k \in DOMAIN keys : keys[k] = encryptKey
    /\ server = "listening" => encryptKey \in ValidKeys /\ defaultKeyId \in DOMAIN keys

PostsShape(P) ==
    P = [r \in Requests |-> Post(P[r].endpoint, P[r].payloads, P[r].answer)]
WorkShape(ts) == ts = [i \in DOMAIN ts |-> Task(ts[i].state, ts[i].key)]
TasksShape(T) ==
    T = [r \in Requests |-> [i \in DOMAIN T[r] |-> Task(T[r][i].state, T[r][i].key)]]

Shapes == PostsShape(posts) /\ TasksShape(tasks)

\* IInv, and IInv after a step, in parts.
LEMMA InvariantParts ==
    /\ IInv <=> ServerFits /\ Shapes /\ \A r \in Requests : RequestFits(r)
    /\ IInv' <=> ServerFits' /\ Shapes' /\ \A r \in Requests : RequestFits(r)'
BY Zenon DEF IInv, TypeOK, ServerFits, Shapes, PostsShape, TasksShape, RequestFits

\* Posts stay posts when one of them is replaced by another.
LEMMA PostReplaced ==
    ASSUME NEW P, PostsShape(P), NEW r \in Requests,
           NEW endpoint, NEW payloads, NEW answer
    PROVE  PostsShape([P EXCEPT ![r] = Post(endpoint, payloads, answer)])
<1> DEFINE Q == [P EXCEPT ![r] = Post(endpoint, payloads, answer)]
<1>1. DOMAIN P = Requests /\ \A q \in Requests :
         P[q] = Post(P[q].endpoint, P[q].payloads, P[q].answer)
  BY DEF PostsShape
<1>2. DOMAIN Q = Requests /\ Q = [q \in Requests |-> Q[q]]
  BY <1>1
<1>3. \A q \in Requests : Q[q] = Post(Q[q].endpoint, Q[q].payloads, Q[q].answer)
  BY <1>1 DEF Post
<1> QED
  BY <1>2, <1>3 DEF PostsShape

\* What a post is made of.
LEMMA PostParts ==
    ASSUME NEW endpoint, NEW payloads, NEW answer
    PROVE  /\ Post(endpoint, payloads, answer).endpoint = endpoint
           /\ Post(endpoint, payloads, answer).payloads = payloads
           /\ Post(endpoint, payloads, answer).answer = answer
BY DEF Post

\* And so does the work when that on one request is.
LEMMA WorkReplaced ==
    ASSUME NEW T, TasksShape(T), NEW r \in Requests, NEW ts, WorkShape(ts)
    PROVE  TasksShape([T EXCEPT ![r] = ts])
<1> DEFINE U == [T EXCEPT ![r] = ts]
<1>1. DOMAIN T = Requests /\ \A q \in Requests : WorkShape(T[q])
  BY DEF TasksShape, WorkShape
<1>2. DOMAIN U = Requests /\ U = [q \in Requests |-> U[q]]
  BY <1>1
<1>3. \A q \in Requests : WorkShape(U[q])
  BY <1>1
<1> HIDE DEF U
<1>4. TasksShape(U)
  BY <1>2, <1>3 DEF TasksShape, WorkShape
<1> QED
  BY <1>4 DEF U

\* The server starts without keys or work.
LEMMA InitFits == Init => IInv
<1> SUFFICES ASSUME Init PROVE IInv
  OBVIOUS
<1>1. /\ posts = [r \in Requests |-> NoPost] /\ tasks = [r \in Requests |-> << >>]
      /\ server = "starting" /\ encryptKey \in EncryptKeys /\ keys = << >>
  BY Zenon DEF Init, AtomicInit, NoTasks
<1>2. ServerFits
  BY <1>1 DEF ServerFits
<1>3. Shapes
  BY <1>1 DEF Shapes, PostsShape, TasksShape, NoPost, Post
<1>4. \A r \in Requests : RequestFits(r)
  BY <1>1 DEF RequestFits, NoPost, Post, Pending
<1> QED
  BY <1>2, <1>3, <1>4, InvariantParts

\* A request, with the work on it, that no step touches stays as it is while
\* the key stays.
LEMMA Untouched ==
    ASSUME NEW r \in Requests, RequestFits(r), encryptKey' = encryptKey,
           posts'[r] = posts[r], tasks'[r] = tasks[r]
    PROVE  RequestFits(r)'
BY DEF RequestFits, TaskFits, Pending

\* A new request fits, answered at once or not.
LEMMA PostFits ==
    ASSUME IInv, NEW r \in Requests, PostRequest(r)
    PROVE  /\ IInv'
           /\ \E endpoint \in Endpoints, payloads \in Bodies :
                \E answer \in { Unanswered, Reply(endpoint, payloads, encryptKey) } :
                   posts' = [posts EXCEPT ![r] = Post(endpoint, payloads, answer)]
<1>1. ServerFits /\ Shapes /\ \A q \in Requests : RequestFits(q)
  BY InvariantParts
<1>2. /\ UNCHANGED << server, encryptKey, stored, keys >>
      /\ \A q \in DOMAIN keys : keys[q] = encryptKey
  BY <1>1, Zenon DEF PostRequest, ServerFits
<1>3. ServerFits'
  BY <1>1, <1>2 DEF ServerFits
<1>4. PICK endpoint \in Endpoints, payloads \in Bodies :
         LET begun == [i \in DOMAIN payloads |-> Begin(endpoint, fromJSON(payloads[i]))]
         IN  IF \A i \in DOMAIN payloads : IsJSONPayload(payloads[i])
             THEN /\ tasks' = [tasks EXCEPT ![r] = begun]
                  /\ posts' = [posts EXCEPT ![r] =
                        Post(endpoint, payloads, AwaitAll(endpoint, payloads, begun))]
             ELSE /\ tasks' = [tasks EXCEPT ![r] = NoTasks]
                  /\ posts' = [posts EXCEPT ![r] = Post(endpoint, payloads, ServerError)]
  BY Zenon DEF PostRequest
<1> DEFINE begun == [i \in DOMAIN payloads |-> Begin(endpoint, fromJSON(payloads[i]))]
<1>5. DOMAIN posts = Requests /\ DOMAIN tasks = Requests
  BY <1>1 DEF Shapes, PostsShape, TasksShape
<1>6. endpoint \in Endpoints
  OBVIOUS
<1>7. CASE ~ \A i \in DOMAIN payloads : IsJSONPayload(payloads[i])
  <2>1. /\ tasks' = [tasks EXCEPT ![r] = << >>]
        /\ posts' = [posts EXCEPT ![r] = Post(endpoint, payloads, ServerError)]
    BY <1>4, <1>7 DEF NoTasks
  <2>2. Reply(endpoint, payloads, encryptKey) = ServerError
    BY <1>7 DEF Reply, Fails
  <2>3. RequestFits(r)'
    BY <1>5, <2>1 DEF RequestFits, Pending, Post, ServerError, Unanswered, Answer
  <2>4. \A q \in Requests : RequestFits(q)'
    BY <1>1, <1>2, <1>5, <2>1, <2>3, Untouched
  <2>5. Shapes'
    <3>1. WorkShape(<< >>)
      BY DEF WorkShape
    <3> QED
      BY <1>1, <2>1, <3>1, PostReplaced, WorkReplaced DEF Shapes
  <2> QED
    BY <1>3, <2>1, <2>2, <2>4, <2>5, InvariantParts, Zenon
<1>8. CASE \A i \in DOMAIN payloads : IsJSONPayload(payloads[i])
  <2>1. /\ tasks' = [tasks EXCEPT ![r] = begun]
        /\ posts' = [posts EXCEPT ![r] =
                        Post(endpoint, payloads, AwaitAll(endpoint, payloads, begun))]
    BY <1>4, <1>8
  <2>2. \A i \in DOMAIN begun :
           /\ TaskFits(encryptKey, endpoint, payloads[i], begun[i])
           /\ begun[i].state \in { "fetching", "crypting", "resolved", "rejected" }
           /\ begun[i] = Task(begun[i].state, begun[i].key)
    BY <1>2, <1>6, <1>8, BeginFits
  <2>3. DOMAIN begun = DOMAIN payloads
    OBVIOUS
  <2> HIDE DEF begun
  <2>4. AwaitAll(endpoint, payloads, begun)
           \in { Unanswered, Reply(endpoint, payloads, encryptKey) }
    BY <2>2, <2>3, AwaitAllReplies
  <2>5. RequestFits(r)'
    <3>1. /\ posts'[r] = Post(endpoint, payloads, AwaitAll(endpoint, payloads, begun))
          /\ tasks'[r] = begun
      BY <1>5, <2>1
    <3>2. \A i \in DOMAIN begun : TaskFits(encryptKey', endpoint, payloads[i], begun[i])
      BY <1>2, <2>2
    <3>3. AwaitAll(endpoint, payloads, begun) = Unanswered =>
             /\ \A i \in DOMAIN begun : begun[i].state # "rejected"
             /\ \E i \in DOMAIN begun : begun[i].state # "resolved"
      BY <2>2, <2>3, AwaitAllReplies
    <3> QED
      BY <1>8, <2>2, <2>3, <3>1, <3>2, <3>3 DEF RequestFits, Pending, Post, Settled
  <2>6. \A q \in Requests : RequestFits(q)'
    BY <1>1, <1>2, <1>5, <2>1, <2>5, Untouched
  <2>7. Shapes'
    <3>1. WorkShape(begun)
      BY <2>2 DEF begun, WorkShape
    <3> QED
      BY <1>1, <2>1, <3>1, PostReplaced, WorkReplaced DEF Shapes
  <2> QED
    BY <1>3, <2>1, <2>4, <2>6, <2>7, InvariantParts, Zenon
<1> QED
  BY <1>7, <1>8

\* A key that was fetched is the key, and the work on its payload goes on;
\* requests and answers are not touched.
LEMMA FetchFits ==
    ASSUME IInv, NEW r \in Requests, NEW i \in DOMAIN tasks[r], FetchDone(r, i)
    PROVE  IInv'
<1>1. ServerFits /\ Shapes /\ \A q \in Requests : RequestFits(q)
  BY InvariantParts
<1> DEFINE keyId == posts[r].payloads[i].keyId
           now   == [tasks[r] EXCEPT ![i] = Task("crypting", encryptKey)]
<1>2. /\ tasks[r][i].state = "fetching"
      /\ keys' = [k \in DOMAIN keys \cup { keyId } |->
                     IF k = keyId THEN encryptKey ELSE keys[k]]
      /\ tasks' = [tasks EXCEPT ![r][i] = Task("crypting", encryptKey)]
      /\ UNCHANGED << server, encryptKey, posts, stored >>
  BY Zenon DEF FetchDone, fetchKey, avars
<1>3. ServerFits'
  BY <1>1, <1>2 DEF ServerFits
<1>4. DOMAIN tasks = Requests /\ WorkShape(tasks[r])
  BY <1>1 DEF Shapes, TasksShape, WorkShape
<1>5. tasks' = [tasks EXCEPT ![r] = now]
  BY <1>2
<1>6. /\ DOMAIN now = DOMAIN tasks[r]
      /\ now[i] = Task("crypting", encryptKey)
      /\ \A j \in DOMAIN now : j # i => now[j] = tasks[r][j]
  OBVIOUS
<1>7. WorkShape(now)
  BY <1>4 DEF WorkShape, Task
<1> HIDE DEF now, keyId
<1>8. Shapes'
  <2>1. TasksShape(tasks')
    BY <1>1, <1>5, <1>7, WorkReplaced DEF Shapes
  <2> QED
    BY <1>1, <1>2, <2>1, Zenon DEF Shapes
<1>9. tasks'[r] = now /\ posts'[r] = posts[r] /\ encryptKey' = encryptKey
  BY <1>2, <1>4, <1>5
<1>10. RequestFits(r)'
  <2>1. \A j \in DOMAIN now :
           /\ now[j].state \in { "fetching", "crypting", "resolved", "rejected" }
           /\ IsJSONPayload(posts[r].payloads[j])
           /\ TaskFits(encryptKey, posts[r].endpoint, posts[r].payloads[j], now[j])
    BY <1>1, <1>2, <1>6 DEF RequestFits, TaskFits, Task
  <2>2. Pending(r) => /\ \A j \in DOMAIN now : now[j].state # "rejected"
                      /\ \E j \in DOMAIN now : ~Settled(now[j])
    BY <1>1, <1>6 DEF RequestFits, Task, Settled
  <2> QED
    BY <1>1, <1>6, <1>9, <2>1, <2>2 DEF RequestFits, Pending
<1>11. \A q \in Requests : RequestFits(q)'
  <2>1. \A q \in Requests : q # r => tasks'[q] = tasks[q] /\ posts'[q] = posts[q]
    BY <1>2, <1>4, <1>5
  <2> QED
    BY <1>1, <1>9, <1>10, <2>1, Untouched
<1> QED
  BY <1>3, <1>8, <1>11, InvariantParts, Zenon

\* When the cipher has run, its request goes on waiting or gets the answer it
\* deserves.
LEMMA CryptFits ==
    ASSUME IInv, NEW r \in Requests, NEW i \in DOMAIN tasks[r], CryptDone(r, i)
    PROVE  /\ IInv'
           /\ \/ posts' = posts
              \/ /\ Pending(r)
                 /\ posts' = [posts EXCEPT ![r].answer =
                                 Reply(posts[r].endpoint, posts[r].payloads, encryptKey)]
<1>1. ServerFits /\ Shapes /\ \A q \in Requests : RequestFits(q)
  BY InvariantParts
<1> DEFINE post  == posts[r]
           key   == tasks[r][i].key
           opens == post.endpoint = "/encode" \/ decrypt(fromJSON(post.payloads[i]), key)
           task  == Task(IF opens THEN "resolved" ELSE "rejected", key)
           now   == [tasks[r] EXCEPT ![i] = task]
           reply == AwaitAll(post.endpoint, post.payloads, now)
<1>2. /\ tasks[r][i].state = "crypting"
      /\ tasks' = [tasks EXCEPT ![r] = now]
      /\ posts' = IF Pending(r) THEN [posts EXCEPT ![r].answer = reply] ELSE posts
      /\ UNCHANGED << server, encryptKey, stored, keys >>
  BY Zenon DEF CryptDone
<1>3. ServerFits'
  BY <1>1, <1>2 DEF ServerFits
<1>4. /\ DOMAIN tasks = Requests /\ DOMAIN posts = Requests
      /\ WorkShape(tasks[r])
      /\ post = Post(post.endpoint, post.payloads, post.answer)
  BY <1>1 DEF Shapes, TasksShape, PostsShape, WorkShape
<1>5. /\ DOMAIN now = DOMAIN tasks[r] /\ DOMAIN now = DOMAIN post.payloads
      /\ now[i] = task
      /\ \A j \in DOMAIN now : j # i => now[j] = tasks[r][j]
  BY <1>1 DEF RequestFits
<1>6. /\ TaskFits(encryptKey, post.endpoint, post.payloads[i], task)
      /\ task.state \in { "resolved", "rejected" }
  <2>1. /\ key = encryptKey /\ NeedsKey(post.endpoint, fromJSON(post.payloads[i]))
        /\ IsJSONPayload(post.payloads[i])
    BY <1>1, <1>2 DEF RequestFits, TaskFits
  <2>2. /\ Decrypts(post.endpoint, fromJSON(post.payloads[i]))
              <=> Decrypts(post.endpoint, post.payloads[i])
    BY FromJSONKeeps
  <2> QED
    BY <2>1, <2>2 DEF TaskFits, Task, Fails, NeedsKey, Decrypts
<1>7. WorkShape(now)
  BY <1>4 DEF WorkShape, Task
<1>8. \A j \in DOMAIN now :
         /\ now[j].state \in { "fetching", "crypting", "resolved", "rejected" }
         /\ IsJSONPayload(post.payloads[j])
         /\ TaskFits(encryptKey, post.endpoint, post.payloads[j], now[j])
  BY <1>1, <1>5, <1>6 DEF RequestFits
<1> HIDE DEF now, task
<1>9. \/ /\ reply = Unanswered
         /\ \A j \in DOMAIN now : now[j].state # "rejected"
         /\ \E j \in DOMAIN now : now[j].state # "resolved"
      \/ /\ reply = Reply(post.endpoint, post.payloads, encryptKey)
         /\ reply # Unanswered
  BY <1>5, <1>8, AwaitAllReplies
<1> HIDE DEF reply, post
<1>10. CASE Pending(r)
  <2>1. posts' = [posts EXCEPT ![r] = Post(post.endpoint, post.payloads, reply)]
    <3>1. [posts EXCEPT ![r].answer = reply] =
             [posts EXCEPT ![r] = Post(posts[r].endpoint, posts[r].payloads, reply)]
      <4>1. posts[r] = Post(posts[r].endpoint, posts[r].payloads, posts[r].answer)
        BY <1>1 DEF Shapes, PostsShape
      <4>2. [posts[r] EXCEPT !.answer = reply] =
               Post(posts[r].endpoint, posts[r].payloads, reply)
        BY <4>1 DEF Post
      <4> QED
        BY <4>2
    <3> QED
      BY <1>2, <1>10, <3>1, Zenon DEF post
  <2>2. posts'[r] = Post(post.endpoint, post.payloads, reply) /\ tasks'[r] = now
    BY <1>2, <1>4, <2>1
  <2>3. Shapes'
    <3>1. PostsShape(posts')
      BY <1>1, <2>1, PostReplaced, Zenon DEF Shapes
    <3>2. TasksShape(tasks')
      BY <1>1, <1>2, <1>7, WorkReplaced, Zenon DEF Shapes
    <3> QED
      BY <3>1, <3>2, Zenon DEF Shapes
  <2>4. RequestFits(r)'
    BY <1>1, <1>2, <1>5, <1>8, <1>9, <2>2 DEF RequestFits, Pending, Post, Settled, post
  <2>5. \A q \in Requests : RequestFits(q)'
    <3>1. \A q \in Requests : q # r => tasks'[q] = tasks[q] /\ posts'[q] = posts[q]
      BY <1>2, <1>4, <2>1
    <3> QED
      BY <1>1, <1>2, <2>4, <3>1, Untouched
  <2>6. reply = Unanswered => posts' = posts
    BY <1>1, <1>4, <1>10, <2>1 DEF Pending, post, Shapes, PostsShape
  <2>7. posts' = [posts EXCEPT ![r].answer = reply]
    BY <1>2, <1>10
  <2>8. IInv'
    BY <1>3, <2>3, <2>5, InvariantParts, Zenon
  <2> QED
    BY <1>9, <1>10, <2>6, <2>7, <2>8, Zenon DEF post
<1>11. CASE ~Pending(r)
  <2>1. posts' = posts /\ tasks'[r] = now
    BY <1>2, <1>4, <1>11
  <2>2. Shapes'
    BY <1>1, <1>2, <1>7, <2>1, WorkReplaced DEF Shapes
  <2>3. RequestFits(r)'
    BY <1>1, <1>2, <1>5, <1>8, <1>11, <2>1 DEF RequestFits, Pending, post
  <2>4. \A q \in Requests : RequestFits(q)'
    <3>1. \A q \in Requests : q # r => tasks'[q] = tasks[q] /\ posts'[q] = posts[q]
      BY <1>2, <1>4, <2>1
    <3> QED
      BY <1>1, <1>2, <2>3, <3>1, Untouched
  <2> QED
    BY <1>3, <2>1, <2>2, <2>4, InvariantParts, Zenon
<1> QED
  BY <1>10, <1>11

\* Taking an answer frees its request.
LEMMA TakeFits ==
    ASSUME IInv, NEW r \in Requests, TakeAnswer(r)
    PROVE  IInv'
<1>1. ServerFits /\ Shapes /\ \A q \in Requests : RequestFits(q)
  BY InvariantParts
<1>2. /\ UNCHANGED << server, encryptKey, keys >>
      /\ posts' = [posts EXCEPT ![r] = Post("none", << >>, Unanswered)]
      /\ tasks' = [tasks EXCEPT ![r] = << >>]
  BY Zenon DEF TakeAnswer, Take, NoPost, NoTasks
<1>3. ServerFits'
  BY <1>1, <1>2 DEF ServerFits
<1>4. DOMAIN tasks = Requests /\ DOMAIN posts = Requests
  BY <1>1 DEF Shapes, TasksShape, PostsShape
<1>5. Shapes'
  <2>1. WorkShape(<< >>)
    BY DEF WorkShape
  <2> QED
    BY <1>1, <1>2, <2>1, PostReplaced, WorkReplaced DEF Shapes
<1>6. RequestFits(r)'
  BY <1>2, <1>4 DEF RequestFits, Pending, Post
<1>7. \A q \in Requests : RequestFits(q)'
  <2>1. \A q \in Requests : q # r => tasks'[q] = tasks[q] /\ posts'[q] = posts[q]
    BY <1>2, <1>4
  <2> QED
    BY <1>1, <1>2, <1>6, <2>1, Untouched
<1> QED
  BY <1>3, <1>5, <1>7, InvariantParts, Zenon

\* A restart ends the work on all requests and forgets the keys.
LEMMA RestartFits ==
    ASSUME IInv, Restart
    PROVE  IInv'
<1>1. ServerFits /\ Shapes /\ \A q \in Requests : RequestFits(q)
  BY InvariantParts
<1>2. /\ encryptKey' \in EncryptKeys /\ server' = "starting" /\ keys' = << >>
      /\ posts' = [r \in Requests |->
                   IF Pending(r) THEN [posts[r] EXCEPT !.answer = Lost] ELSE posts[r]]
      /\ tasks' = [r \in Requests |-> << >>]
  BY Zenon DEF Restart, Launch, NoTasks
<1>3. ServerFits'
  BY <1>2 DEF ServerFits
<1>4. \A r \in Requests : \E answer :
         /\ posts'[r] = Post(posts[r].endpoint, posts[r].payloads, answer)
         /\ answer # Unanswered \/ posts[r].endpoint = "none"
  <2> SUFFICES ASSUME NEW r \in Requests
               PROVE  \E answer :
                 /\ posts'[r] = Post(posts[r].endpoint, posts[r].payloads, answer)
                 /\ answer # Unanswered \/ posts[r].endpoint = "none"
    OBVIOUS
  <2>1. posts[r] = Post(posts[r].endpoint, posts[r].payloads, posts[r].answer)
    BY <1>1 DEF Shapes, PostsShape
  <2>2. CASE Pending(r)
    <3>1. posts'[r] = [posts[r] EXCEPT !.answer = Lost]
      BY <1>2, <2>2
    <3>2. posts'[r] = Post(posts[r].endpoint, posts[r].payloads, Lost)
      BY <2>1, <3>1 DEF Post
    <3> QED
      BY <3>2 DEF Lost, Unanswered, Answer
  <2>3. CASE ~Pending(r)
    BY <1>2, <2>1, <2>3 DEF Pending
  <2> QED
    BY <2>2, <2>3
<1>5. Shapes'
  <2>1. \A r \in Requests :
           posts'[r] = Post(posts'[r].endpoint, posts'[r].payloads, posts'[r].answer)
    BY <1>4, PostParts
  <2>2. posts' = [r \in Requests |-> posts'[r]]
    BY <1>2
  <2>3. PostsShape(posts')
    BY <2>1, <2>2 DEF PostsShape
  <2>4. TasksShape(tasks')
    BY <1>2 DEF TasksShape
  <2> QED
    BY <2>3, <2>4 DEF Shapes
<1>6. ASSUME NEW r \in Requests PROVE RequestFits(r)'
  <2>1. tasks'[r] = << >>
    BY <1>2
  <2>2. posts'[r].endpoint = posts[r].endpoint /\ posts'[r].payloads = posts[r].payloads
        /\ ~Pending(r)'
    BY <1>4, PostParts DEF Pending
  <2> QED
    BY <1>1, <2>1, <2>2 DEF RequestFits
<1> QED
  BY <1>3, <1>5, <1>6, InvariantParts, Zenon

\* The server listens with the key of its default key id.
LEMMA ListenFits ==
    ASSUME IInv, Listen
    PROVE  IInv'
<1>1. ServerFits /\ Shapes /\ \A q \in Requests : RequestFits(q)
  BY InvariantParts
<1>2. /\ server' = "exited" \/ (server' = "listening" /\ encryptKey \in ValidKeys)
      /\ UNCHANGED << encryptKey, posts, tasks >>
      /\ keys' = IF encryptKey \in ValidKeys
                 THEN [k \in { defaultKeyId } |-> encryptKey] ELSE keys
  BY Zenon DEF Listen, AtomicListen, fetchKey
<1>3. ServerFits'
  BY <1>1, <1>2 DEF ServerFits
<1>4. Shapes' /\ \A q \in Requests : RequestFits(q)'
  BY <1>1, <1>2, Untouched DEF Shapes
<1> QED
  BY <1>3, <1>4, InvariantParts, Zenon

-----------------------------------------------------------------------------
(* The theorems. *)

\* Every step keeps the invariant, and is a step of the atomic codec or leaves
\* it alone.
LEMMA NextFits ==
    ASSUME IInv, [Next]_vars
    PROVE  IInv' /\ [AtomicNext]_avars
<1>1. CASE Listen
  BY <1>1, ListenFits, Zenon DEF Listen, AtomicNext
<1>2. ASSUME NEW r \in Requests, PostRequest(r) PROVE IInv' /\ AtomicNext
  <2>1. AtomicPost(r)
    BY <1>2, PostFits, Zenon DEF PostRequest, AtomicPost
  <2> QED
    BY <1>2, <2>1, PostFits, Zenon DEF AtomicNext
<1>3. ASSUME NEW r \in Requests, NEW i \in DOMAIN tasks[r], FetchDone(r, i)
      PROVE  IInv' /\ UNCHANGED avars
  BY <1>3, FetchFits, Zenon DEF FetchDone
<1>4. ASSUME NEW r \in Requests, NEW i \in DOMAIN tasks[r], CryptDone(r, i)
      PROVE  IInv' /\ [AtomicNext]_avars
  <2>1. UNCHANGED << server, encryptKey, stored >>
    BY <1>4, Zenon DEF CryptDone
  <2>2. CASE posts' = posts
    BY <1>4, <2>1, <2>2, CryptFits, Zenon DEF avars
  <2>3. CASE posts' # posts
    <3>1. AtomicAnswer(r)
      BY <1>4, <2>1, <2>3, CryptFits, Zenon DEF AtomicAnswer
    <3> QED
      BY <1>4, <3>1, CryptFits, Zenon DEF AtomicNext
  <2> QED
    BY <2>2, <2>3
<1>5. ASSUME NEW r \in Requests, TakeAnswer(r) PROVE IInv' /\ AtomicNext
  BY <1>5, TakeFits, Zenon DEF TakeAnswer, AtomicNext
<1>6. CASE Restart
  BY <1>6, RestartFits, Zenon DEF Restart, AtomicNext
<1>7. CASE UNCHANGED vars
  <2>1. /\ UNCHANGED << server, encryptKey, keys, posts, tasks >>
        /\ UNCHANGED avars
    BY <1>7, Zenon DEF vars, avars
  <2>2. ServerFits' /\ Shapes' /\ \A q \in Requests : RequestFits(q)'
    BY <2>1, InvariantParts, Untouched DEF ServerFits, Shapes
  <2> QED
    BY <2>1, <2>2, InvariantParts, Zenon
<1> QED
  BY <1>1, <1>2, <1>3, <1>4, <1>5, <1>6, <1>7, Zenon DEF Next, Work

\* The keys the server has fetched, and every key the work under way uses, are
\* the key of this run; a request waits just as long as nothing failed and
\* something is to do.
THEOREM CodecInvariance == Spec => []IInv
BY InitFits, NextFits, PTL DEF Spec

\* Every request is answered as if it were alone and worked on at once.
THEOREM ServerImplementsAtomicCodec == Spec => ImplementsAtomicCodec
<1>1. Init => AtomicInit
  BY Zenon DEF Init
<1>2. Init => IInv
  BY InitFits
<1> QED
  BY <1>1, NextFits, CodecInvariance, PTL DEF Spec, ImplementsAtomicCodec, AtomicSpec

-----------------------------------------------------------------------------
(* What was encoded. *)

\* A payload that was encoded, with some key.
EncodedFrom(p, plain) == \E key : p = encode(fromJSON(plain), key)

\* What clients keep, and what they were answered, was encoded.
EncodingsFit ==
    /\ \A s \in stored : EncodedFrom(s.encoded, s.plain)
    /\ \A r \in Requests :
          posts[r].endpoint = "/encode" =>
             \A i \in DOMAIN posts[r].answer.payloads :
                EncodedFrom(posts[r].answer.payloads[i], posts[r].payloads[i])

\* A reply to an encode request holds encodings.
LEMMA ReplyEncodes ==
    ASSUME NEW payloads, NEW key, NEW i \in DOMAIN Reply("/encode", payloads, key).payloads
    PROVE  EncodedFrom(Reply("/encode", payloads, key).payloads[i], payloads[i])
<1>1. CASE \E j \in DOMAIN payloads : Fails("/encode", payloads[j], key)
  BY <1>1 DEF Reply, ServerError, Answer
<1>2. CASE ~ \E j \in DOMAIN payloads : Fails("/encode", payloads[j], key)
  <2>1. Reply("/encode", payloads, key).payloads =
           [j \in DOMAIN payloads |-> Becomes("/encode", payloads[j], key)]
    BY <1>2 DEF Reply, Answer
  <2> QED
    BY <2>1 DEF EncodedFrom, Becomes
<1> QED
  BY <1>1, <1>2

\* One layer of encryption names the default key id, is not plain, lacks no
\* part, and opens under its own key alone, to what was put in.
LEMMA EncodedOpens ==
    ASSUME NEW plain, NEW key, NEW other
    PROVE  LET p == encode(fromJSON(plain), key)
           IN  /\ IsJSONPayload(p) /\ Decrypts("/decode", p) /\ ~LacksParts(fromJSON(p))
               /\ p.data.key = key
               /\ decrypt(fromJSON(p), other) <=> other = key
               /\ Becomes("/decode", p, key) = ThroughProto(fromJSON(plain))
<1> DEFINE q == ThroughProto(fromJSON(plain))
<1>1. encode(fromJSON(plain), key) = Payload("encrypted", defaultKeyId, Cipher(key, q))
  BY DEF encode
<1> HIDE DEF q
<1>2. fromJSON(Payload("encrypted", defaultKeyId, Cipher(key, q)))
         = Payload("encrypted", defaultKeyId, Cipher(key, q))
  BY DEF fromJSON, Payload, Cipher
<1>3. /\ Payload("encrypted", defaultKeyId, Cipher(key, q)).encoding = "encrypted"
      /\ Payload("encrypted", defaultKeyId, Cipher(key, q)).keyId = "test-key-id"
      /\ Payload("encrypted", defaultKeyId, Cipher(key, q)).data = Cipher(key, q)
      /\ Cipher(key, q).kind = "cipher" /\ Cipher(key, q).key = key
      /\ Cipher(key, q).payload = q
  BY DEF Payload, Cipher, defaultKeyId
<1> QED
  BY <1>1, <1>2, <1>3
     DEF IsJSONPayload, Decrypts, IsPlain, LacksParts, decrypt, Becomes, decode, q

\* Every step keeps it.
LEMMA NextEncodings ==
    ASSUME IInv, EncodingsFit, [Next]_vars
    PROVE  EncodingsFit'
<1>1. DOMAIN posts = Requests
  BY InvariantParts DEF Shapes, PostsShape
<1>2. ASSUME NEW r \in Requests, AtomicPost(r) PROVE EncodingsFit'
  <2>1. PICK endpoint, payloads, answer :
           /\ answer \in { Unanswered, Reply(endpoint, payloads, encryptKey) }
           /\ posts' = [posts EXCEPT ![r] = Post(endpoint, payloads, answer)]
    BY <1>2, Zenon DEF AtomicPost
  <2>2. /\ posts'[r].endpoint = endpoint /\ posts'[r].payloads = payloads
        /\ posts'[r].answer = answer
        /\ \A q \in Requests : q # r => posts'[q] = posts[q]
    BY <1>1, <2>1, PostParts
  <2>3. Unanswered.payloads = << >>
    BY DEF Unanswered, Answer
  <2>4. endpoint = "/encode" =>
           \A i \in DOMAIN answer.payloads : EncodedFrom(answer.payloads[i], payloads[i])
    <3>1. CASE answer = Unanswered
      BY <2>3, <3>1
    <3>2. CASE answer = Reply(endpoint, payloads, encryptKey)
      BY <3>2, ReplyEncodes
    <3> QED
      BY <2>1, <3>1, <3>2
  <2>5. stored' = stored
    BY <1>2, Zenon DEF AtomicPost
  <2> QED
    BY <2>2, <2>4, <2>5 DEF EncodingsFit
<1>3. ASSUME NEW r \in Requests, AtomicAnswer(r) PROVE EncodingsFit'
  <2> DEFINE reply == Reply(posts[r].endpoint, posts[r].payloads, encryptKey)
  <2>1. posts' = [posts EXCEPT ![r].answer = reply] /\ stored' = stored
    BY <1>3, Zenon DEF AtomicAnswer
  <2> HIDE DEF reply
  <2>2. posts[r] = Post(posts[r].endpoint, posts[r].payloads, posts[r].answer)
    BY InvariantParts DEF Shapes, PostsShape
  <2>3. /\ posts'[r].endpoint = posts[r].endpoint /\ posts'[r].payloads = posts[r].payloads
        /\ posts'[r].answer = reply
        /\ \A q \in Requests : q # r => posts'[q] = posts[q]
    BY <1>1, <2>1, <2>2 DEF Post
  <2>4. posts[r].endpoint = "/encode" =>
           \A i \in DOMAIN reply.payloads : EncodedFrom(reply.payloads[i], posts[r].payloads[i])
    BY ReplyEncodes DEF reply
  <2> QED
    BY <2>1, <2>3, <2>4 DEF EncodingsFit
<1>4. ASSUME NEW r \in Requests, Take(r) PROVE EncodingsFit'
  <2>1. /\ posts'[r] = NoPost
        /\ \A q \in Requests : q # r => posts'[q] = posts[q]
    BY <1>1, <1>4 DEF Take
  <2>2. \A s \in stored' : EncodedFrom(s.encoded, s.plain)
    <3>1. CASE stored' = stored
      BY <3>1 DEF EncodingsFit
    <3>2. CASE /\ posts[r].endpoint = "/encode"
               /\ stored' = stored \cup
                    { [ plain |-> posts[r].payloads[i], encoded |-> posts[r].answer.payloads[i] ] :
                        i \in DOMAIN posts[r].answer.payloads }
      BY <3>2 DEF EncodingsFit
    <3> QED
      BY <1>4, <3>1, <3>2, Zenon DEF Take
  <2>3. NoPost.endpoint = "none"
    BY DEF NoPost, Post
  <2> QED
    BY <2>1, <2>2, <2>3 DEF EncodingsFit
<1>5. CASE Launch
  <2>1. ASSUME NEW r \in Requests, posts[r].endpoint = "/encode"
        PROVE  /\ posts'[r].payloads = posts[r].payloads
               /\ posts'[r].endpoint = posts[r].endpoint
               /\ posts'[r].answer \in { posts[r].answer, Lost }
    <3>1. posts[r] = Post(posts[r].endpoint, posts[r].payloads, posts[r].answer)
      BY InvariantParts DEF Shapes, PostsShape
    <3> QED
      BY <1>5, <3>1 DEF Launch, Post
  <2>2. \A r \in Requests : posts'[r].endpoint = posts[r].endpoint
    <3>1. \A r \in Requests :
             posts[r] = Post(posts[r].endpoint, posts[r].payloads, posts[r].answer)
      BY InvariantParts DEF Shapes, PostsShape
    <3> QED
      BY <1>5, <3>1 DEF Launch, Post
  <2>3. Lost.payloads = << >> /\ stored' = stored
    BY <1>5 DEF Lost, Answer, Launch
  <2> QED
    BY <2>1, <2>2, <2>3 DEF EncodingsFit
<1>6. CASE AtomicListen \/ UNCHANGED avars
  BY <1>6 DEF EncodingsFit, AtomicListen, avars
<1>7. [AtomicNext]_avars
  BY NextFits
<1> QED
  BY <1>2, <1>3, <1>4, <1>5, <1>6, <1>7, Zenon DEF AtomicNext

\* Only its own reply changes the answer of a request that waits, but for a
\* restart.
LEMMA AnswerIsReply ==
    ASSUME IInv, [Next]_vars, NEW r \in Requests, Pending(r),
           posts'[r].answer.status \in { "200", "500" }
    PROVE  posts'[r].answer = Reply(posts[r].endpoint, posts[r].payloads, encryptKey)
<1>1. DOMAIN posts = Requests
  BY InvariantParts DEF Shapes, PostsShape
<1>2. posts[r] = Post(posts[r].endpoint, posts[r].payloads, posts[r].answer)
  BY InvariantParts DEF Shapes, PostsShape
<1>3. posts[r] # NoPost /\ posts[r].answer.status = "none" /\ posts'[r] # posts[r]
  BY <1>2 DEF Pending, Unanswered, Answer, NoPost, Post
<1>4. ASSUME NEW q \in Requests, AtomicAnswer(q)
      PROVE  posts'[r].answer = Reply(posts[r].endpoint, posts[r].payloads, encryptKey)
  <2>1. posts' = [posts EXCEPT ![q].answer =
                     Reply(posts[q].endpoint, posts[q].payloads, encryptKey)]
    BY <1>4, Zenon DEF AtomicAnswer
  <2>2. q = r
    BY <1>1, <1>3, <2>1
  <2>3. posts'[r] = [posts[r] EXCEPT !.answer =
                        Reply(posts[r].endpoint, posts[r].payloads, encryptKey)]
    BY <1>1, <2>1, <2>2
  <2> QED
    BY <1>2, <2>3 DEF Post
<1>5. ASSUME NEW q \in Requests, AtomicPost(q) \/ Take(q) PROVE FALSE
  <2>1. q # r /\ \E new : posts' = [posts EXCEPT ![q] = new]
    BY <1>3, <1>5, Zenon DEF AtomicPost, Take
  <2> QED
    BY <1>1, <1>3, <2>1
<1>6. CASE Launch
  <2>1. posts'[r] = [posts[r] EXCEPT !.answer = Lost]
    BY <1>6 DEF Launch
  <2>2. posts'[r].answer = Lost
    BY <1>2, <2>1 DEF Post
  <2> QED
    BY <2>2 DEF Lost, Answer
<1>7. CASE AtomicListen \/ UNCHANGED avars
  BY <1>3, <1>7 DEF AtomicListen, avars
<1> QED
  BY <1>4, <1>5, <1>6, <1>7, NextFits, Zenon DEF AtomicNext

\* What clients keep was encoded in every state.
LEMMA EncodingsHold == Spec => [](IInv /\ EncodingsFit)
<1>1. Init => EncodingsFit
  BY DEF Init, AtomicInit, EncodingsFit, NoPost, Post
<1>2. IInv /\ EncodingsFit /\ [Next]_vars => EncodingsFit'
  BY NextEncodings
<1> QED
  BY <1>1, <1>2, CodecInvariance, PTL DEF Spec

\* What was encoded under the key of the server is read back, at the same
\* places, in this run of the server or a later one.
THEOREM ReadsBackHolds == Spec => ReadsBack
<1> DEFINE Step ==
       \A r \in Requests :
         /\ Pending(r) /\ posts[r].endpoint = "/decode"
         /\ posts'[r].answer.status \in { "200", "500" }
         /\ \A i \in DOMAIN posts[r].payloads :
               \E s \in stored : s.encoded = posts[r].payloads[i] /\ s.encoded.data.key = encryptKey
         => /\ posts'[r].answer.status = "200"
            /\ \A i \in DOMAIN posts[r].payloads :
                  \E s \in stored :
                     /\ s.encoded = posts[r].payloads[i]
                     /\ posts'[r].answer.payloads[i] = ThroughProto(fromJSON(s.plain))
<1>1. ASSUME IInv, EncodingsFit, [Next]_vars PROVE Step
  <2> SUFFICES
        ASSUME NEW r \in Requests, Pending(r), posts[r].endpoint = "/decode",
               posts'[r].answer.status \in { "200", "500" },
               \A i \in DOMAIN posts[r].payloads :
                  \E s \in stored : s.encoded = posts[r].payloads[i] /\ s.encoded.data.key = encryptKey
        PROVE  /\ posts'[r].answer.status = "200"
               /\ \A i \in DOMAIN posts[r].payloads :
                     \E s \in stored :
                        /\ s.encoded = posts[r].payloads[i]
                        /\ posts'[r].answer.payloads[i] = ThroughProto(fromJSON(s.plain))
    OBVIOUS
  <2> DEFINE ps == posts[r].payloads
  <2>1. posts'[r].answer = Reply("/decode", ps, encryptKey)
    BY <1>1, AnswerIsReply
  <2>2. ASSUME NEW i \in DOMAIN ps
        PROVE  /\ ~Fails("/decode", ps[i], encryptKey)
               /\ \E s \in stored :
                     /\ s.encoded = ps[i]
                     /\ Becomes("/decode", ps[i], encryptKey) = ThroughProto(fromJSON(s.plain))
    <3>1. PICK s \in stored : s.encoded = ps[i] /\ s.encoded.data.key = encryptKey
      BY <2>2
    <3>2. PICK key : ps[i] = encode(fromJSON(s.plain), key)
      BY <1>1, <3>1, Zenon DEF EncodingsFit, EncodedFrom
    <3>3. key = encryptKey
      BY <3>1, <3>2, EncodedOpens
    <3> QED
      BY <3>1, <3>2, <3>3, EncodedOpens DEF Fails
  <2> HIDE DEF ps
  <2>3. Reply("/decode", ps, encryptKey) =
           Answer("200", [i \in DOMAIN ps |-> Becomes("/decode", ps[i], encryptKey)])
    BY <2>2 DEF Reply
  <2>4. /\ posts'[r].answer.status = "200"
        /\ posts'[r].answer.payloads = [i \in DOMAIN ps |-> Becomes("/decode", ps[i], encryptKey)]
    BY <2>1, <2>3 DEF Answer
  <2> QED
    BY <2>2, <2>4 DEF ps
<1>2. IInv /\ EncodingsFit /\ [Next]_vars => [Step]_vars
  BY <1>1, Zenon
<1> QED
  BY <1>2, EncodingsHold, PTL DEF Spec, ReadsBack

\* What was encoded under another key is never read.
THEOREM OtherKeyRefusedHolds == Spec => OtherKeyRefused
<1> DEFINE Step ==
       \A r \in Requests :
         /\ Pending(r) /\ posts[r].endpoint = "/decode"
         /\ posts'[r].answer.status = "200"
         => \A i \in DOMAIN posts[r].payloads :
               IsStored(posts[r].payloads[i]) => posts[r].payloads[i].data.key = encryptKey
<1>1. ASSUME IInv, EncodingsFit, [Next]_vars PROVE Step
  <2> SUFFICES
        ASSUME NEW r \in Requests, Pending(r), posts[r].endpoint = "/decode",
               posts'[r].answer.status = "200",
               NEW i \in DOMAIN posts[r].payloads, IsStored(posts[r].payloads[i])
        PROVE  posts[r].payloads[i].data.key = encryptKey
    OBVIOUS
  <2> DEFINE p == posts[r].payloads[i]
  <2>1. posts'[r].answer = Reply("/decode", posts[r].payloads, encryptKey)
    BY <1>1, AnswerIsReply
  <2>2. ~Fails("/decode", p, encryptKey)
    BY <2>1 DEF Reply, ServerError, Answer
  <2>3. PICK s \in stored : s.encoded = p
    BY DEF IsStored
  <2>4. PICK key : p = encode(fromJSON(s.plain), key)
    BY <1>1, <2>3, Zenon DEF EncodingsFit, EncodedFrom
  <2> HIDE DEF p
  <2>5. p.data.key = key /\ (decrypt(fromJSON(p), encryptKey) <=> encryptKey = key)
        /\ Decrypts("/decode", p)
    BY <2>4, EncodedOpens
  <2> QED
    BY <2>2, <2>5 DEF Fails, p
<1>2. IInv /\ EncodingsFit /\ [Next]_vars => [Step]_vars
  BY <1>1, Zenon
<1> QED
  BY <1>2, EncodingsHold, PTL DEF Spec, OtherKeyRefused
=============================================================================
