----------------------------- MODULE RedisPosts -----------------------------
(***************************************************************************)
(* The Redis post store of src/server/db.js (Yakusoku) and the image       *)
(* publishing of pix.js, as they interleave.  Each Yakusoku has its own    *)
(* Redis connection; node runs one callback at a time, and Redis runs one  *)
(* command or one MULTI/EXEC at a time, so a step below is one Redis       *)
(* command or transaction together with the callback code around it.      *)
(* Between two steps of one request any step of another may run.          *)
(*                                                                         *)
(* Workers are clients writing posts (reserve_post, insert_post, the bump, *)
(* append_post, finish_post) and uploading images (check_duplicate, then  *)
(* add_image or the allocation of a new post).  Mods remove posts          *)
(* (remove_post).  Readers render posts (get_thread, with_body).  The     *)
(* node process may crash: the in-memory registry OPs and every request  *)
(* in flight are lost, Redis keeps its keys, and on                        *)
(* restart load_OPs rebuilds OPs and finish_all closes the open bodies.    *)
(***************************************************************************)
EXTENDS Integers, Sequences, SequencesExt, FiniteSets, ThumbSpecs

CONSTANTS
  Workers,      \* Yakusoku instances of clients writing and uploading
  Mods,         \* Yakusoku instances removing posts
  Readers,      \* Reader instances rendering threads
  MaxPost,      \* bound on postctr: post numbers are 1..MaxPost
  Files,        \* image files, told apart by MD5
  Tails,        \* text appended by append_post
  MaxAppends,   \* bound on append_post calls per post
  MaxCrashes,   \* bound on crashes of the node process
  StoreMayFail, \* whether a Redis command may return an error
  NoFile, NoBody, NullBody

ASSUME MaxPost \in Nat \ {0} /\ MaxAppends \in Nat /\ MaxCrashes \in Nat
ASSUME StoreMayFail \in BOOLEAN /\ NoFile \notin Files

Nums == 1..MaxPost
Ref  == 0..MaxPost          \* 0: no post (msg.op of a new thread, OPs miss)

\* The post:N / thread:N hash: op (0 for a thread), image MD5, hide flag and
\* the final body, set by finish_off; NoBody while it is absent.
NoHash == [exists |-> FALSE, op |-> 0, md5 |-> NoFile, hide |-> FALSE, body |-> NoBody]

StoreOutcomes == IF StoreMayFail THEN BOOLEAN ELSE {TRUE}

VARIABLES
  postctr, bumpctr,  \* Redis counters postctr and tag:moe:bumpctr
  hash,              \* hash[n]: the post:n or thread:n hash
  bodyKey,           \* bodyKey[n]: the post:n:body string, NoBody if absent
  posts,             \* posts[t]: the thread:t:posts list
  hctr,              \* length of thread:t:history, kept in thread:t's hctr
  imgctr,            \* the imgctr field of thread:t
  score,             \* score of t in tag:moe:threads, 0 if not a member
  md5s,              \* the MD5s hash: file -> post number, 0 if absent
  up,                \* the node process is running
  OPs,               \* the in-memory registry: post -> op, 0 if absent
  wk,                \* per Worker: its request in flight and its client.post
  mod,               \* per Mod: its remove_post in flight
  rdr,               \* per Reader: the post it is reading
  crashes,
  written,           \* auxiliary: the text of every successful append_post of n
  lastBump           \* auxiliary: the bumpctr of the last bumping insert into t

redis == <<postctr, bumpctr, hash, bodyKey, posts, hctr, imgctr, score, md5s>>
vars  == <<redis, up, OPs, wk, mod, rdr, crashes, written, lastBump>>

\* A Worker between requests.  pc: "idle" (no client.post), "reserved",
\* "bumping" (insert_post awaiting zadd), "writing" (client.post set).
\* up: the image upload in flight, "none", "checked" or "exists", for file
\* into post inum.
WorkerIdle == [pc |-> "idle", num |-> 0, op |-> 0, score |-> 0, text |-> <<>>,
               img |-> NoFile, up |-> "none", file |-> NoFile, inum |-> 0]
ModIdle == [pc |-> "idle", num |-> 0, op |-> 0, body |-> NoBody]
ReaderIdle == [pc |-> "idle", num |-> 0, body |-> NoBody]

\* The thread a post's messages are logged to
ThreadOf(num, op) == IF op = 0 THEN num ELSE op

Init ==
  /\ postctr = 0 /\ bumpctr = 0
  /\ hash = [n \in Nums |-> NoHash]
  /\ bodyKey = [n \in Nums |-> NoBody]
  /\ posts = [n \in Nums |-> <<>>]
  /\ hctr = [n \in Nums |-> 0]
  /\ imgctr = [n \in Nums |-> 0] /\ score = [n \in Nums |-> 0]
  /\ md5s = [f \in Files |-> 0]
  /\ up = TRUE /\ OPs = [n \in Nums |-> 0]
  /\ wk = [w \in Workers |-> WorkerIdle] /\ mod = [m \in Mods |-> ModIdle]
  /\ rdr = [r \in Readers |-> ReaderIdle]
  /\ crashes = 0
  /\ written = [n \in Nums |-> <<>>] /\ lastBump = [n \in Nums |-> 0]

\* Y._log inside a MULTI: RPUSH to the HINCRBY hctr, PUBLISH.  The
\* entries themselves are not kept: no property here reads them, and the
\* history length is hctr.
Log(t, kind, num) == hctr' = [hctr EXCEPT ![t] = @ + 1]

-----------------------------------------------------------------------------
(***************************************************************************)
(* reserve_post: INCR postctr, then OPs[num] = op || num.  The op is the   *)
(* thread the client asks to reply to; nothing checks it here.  With an    *)
(* image, pix.js's allocate_post reserves the same way, and its callback  *)
(* clears client.uploading: the upload is over.                            *)
(***************************************************************************)
Reserve(w, img) ==
  /\ postctr < MaxPost
  /\ \E op \in 0..postctr :
       LET num == postctr + 1 IN
       /\ postctr' = num
       /\ OPs' = [OPs EXCEPT ![num] = IF op = 0 THEN num ELSE op]
       /\ wk' = [wk EXCEPT ![w] = [@ EXCEPT !.pc = "reserved", !.num = num, !.op = op,
                                            !.text = <<>>, !.img = img,
                                            !.up = IF img = NoFile THEN @ ELSE "none",
                                            !.file = IF img = NoFile THEN @ ELSE NoFile]]

reserve_post(w) ==
  /\ up /\ wk[w].pc = "idle"
  /\ Reserve(w, NoFile)
  /\ UNCHANGED <<bumpctr, hash, bodyKey, posts, hctr, imgctr, score, md5s>>
  /\ UNCHANGED <<up, mod, crashes, rdr, written, lastBump>>

\* The client's post ends: client.post is cleared, an upload stays in flight
PostDone(k) == [k EXCEPT !.pc = "idle", !.num = 0, !.op = 0, !.score = 0,
                         !.text = <<>>, !.img = NoFile]

(***************************************************************************)
(* insert_post.  A reply to an op the registry does not know as a thread   *)
(* fails; the cleanup "delete OPs[num]" runs before num is declared, so it *)
(* deletes OPs[undefined] and the reservation stays.  Otherwise one MULTI  *)
(* writes the post; on error OPs[num] is deleted.  After EXEC, a bumping   *)
(* insert (a thread, or a reply without "sage") issues ZADD with the       *)
(* INCR result as a separate command.                                      *)
(***************************************************************************)
\* msg.op is falsy (a new thread) or OPs[msg.op] == msg.op
ThreadKnown(op) == IF op = 0 THEN TRUE ELSE OPs[op] = op

insert_post(w) ==
  LET k == wk[w]
      t == ThreadOf(k.num, k.op)
  IN
  /\ up /\ k.pc = "reserved"
  /\ \/ /\ ~ThreadKnown(k.op)
        /\ wk' = [wk EXCEPT ![w] = PostDone(@)]
        /\ UNCHANGED <<redis, OPs, written, lastBump>>
     \/ /\ ThreadKnown(k.op)
        /\ \E sage \in BOOLEAN, ok \in StoreOutcomes :
             LET bump == k.op = 0 \/ ~sage IN
             \/ /\ ~ok
                /\ OPs' = [OPs EXCEPT ![k.num] = 0]
                /\ wk' = [wk EXCEPT ![w] = PostDone(@)]
                /\ UNCHANGED <<redis, written, lastBump>>
             \/ /\ ok
                /\ bumpctr' = IF bump THEN bumpctr + 1 ELSE bumpctr
                /\ imgctr' = IF k.img = NoFile THEN imgctr ELSE [imgctr EXCEPT ![t] = @ + 1]
                /\ md5s' = IF k.img = NoFile THEN md5s ELSE [md5s EXCEPT ![k.img] = k.num]
                /\ hash' = [hash EXCEPT ![k.num] = [NoHash EXCEPT !.exists = TRUE,
                                                      !.op = k.op, !.md5 = k.img]]
                /\ bodyKey' = [bodyKey EXCEPT ![k.num] = <<>>]
                /\ posts' = IF k.op = 0 THEN posts ELSE [posts EXCEPT ![k.op] = Append(@, k.num)]
                /\ Log(t, "insertPost", k.num)
                /\ lastBump' = IF bump THEN [lastBump EXCEPT ![t] = bumpctr + 1] ELSE lastBump
                /\ wk' = [wk EXCEPT ![w].pc = IF bump THEN "bumping" ELSE "writing",
                                    ![w].score = bumpctr + 1]
                /\ UNCHANGED <<postctr, score, OPs, written>>
  /\ UNCHANGED <<up, mod, crashes, rdr>>

\* The ZADD of the bump; its error is only logged
bump(w) ==
  LET k == wk[w] IN
  /\ up /\ k.pc = "bumping"
  /\ \E ok \in StoreOutcomes :
       score' = IF ok THEN [score EXCEPT ![ThreadOf(k.num, k.op)] = k.score] ELSE score
  /\ wk' = [wk EXCEPT ![w].pc = "writing"]
  /\ UNCHANGED <<postctr, bumpctr, hash, bodyKey, posts, hctr, imgctr, md5s>>
  /\ UNCHANGED <<up, OPs, mod, crashes, rdr, written, lastBump>>

\* append_post: APPEND to the body key (creating it if absent) and log
\* UPDATE_POST, in one MULTI.  A failed EXEC changes nothing.
append_post(w) ==
  LET k == wk[w] IN
  /\ up /\ k.pc = "writing" /\ Len(k.text) < MaxAppends
  /\ \E tail \in Tails :
       /\ bodyKey' = [bodyKey EXCEPT ![k.num] = IF @ = NoBody THEN <<tail>> ELSE Append(@, tail)]
       /\ Log(ThreadOf(k.num, k.op), "updatePost", k.num)
       /\ written' = [written EXCEPT ![k.num] = Append(@, tail)]
       /\ wk' = [wk EXCEPT ![w].text = Append(@, tail)]
  /\ UNCHANGED <<postctr, bumpctr, hash, posts, imgctr, score, md5s>>
  /\ UNCHANGED <<up, OPs, mod, crashes, rdr, lastBump>>

\* finish_off: the final body into the hash, the body key deleted
FinishOff(h, n, body) == [h EXCEPT ![n].body = body]

\* finish_post: finish_off with the client's body and log FINISH_POST
finish_post(w) ==
  LET k == wk[w] IN
  /\ up /\ k.pc = "writing"
  /\ hash' = FinishOff(hash, k.num, k.text)
  /\ bodyKey' = [bodyKey EXCEPT ![k.num] = NoBody]
  /\ Log(ThreadOf(k.num, k.op), "finishPost", k.num)
  /\ wk' = [wk EXCEPT ![w] = PostDone(@)]
  /\ UNCHANGED <<postctr, bumpctr, posts, imgctr, score, md5s>>
  /\ UNCHANGED <<up, OPs, mod, crashes, rdr, written, lastBump>>

-----------------------------------------------------------------------------
(***************************************************************************)
(* Image upload (pix.js).  parse_form refuses when client.post already has *)
(* an image; check_duplicate (HEXISTS MD5s) refuses a known MD5.  publish  *)
(* then calls add_image on client.post, or allocates a new post with the   *)
(* image when the client has none.  add_image refuses an OP, checks that   *)
(* the post exists (EXISTS), and in a later MULTI attaches the image and   *)
(* records its MD5; its callback sets client.post.image on whatever        *)
(* client.post is by then.                                                 *)
(***************************************************************************)
\* Y.check_duplicate: HEXISTS MD5s, a known MD5 is 'Duplicate image.'
Duplicate(f) == md5s[f] # 0

check_duplicate(w) ==
  LET k == wk[w] IN
  /\ up /\ k.up = "none" /\ k.pc \in {"idle", "writing"} /\ k.img = NoFile
  /\ \E f \in Files :
       /\ ~Duplicate(f)
       /\ wk' = [wk EXCEPT ![w].up = "checked", ![w].file = f]
  /\ UNCHANGED <<redis, up, OPs, mod, crashes, rdr, written, lastBump>>

\* IU.failure: the upload's files are unlinked, client.uploading cleared
failure(k) == [k EXCEPT !.up = "none", !.file = NoFile]

\* process after check_duplicate: a zero, too wide or too tall image, a
\* failed resize_image or a failed mv_file ends the upload in failure
process_fails(w) ==
  /\ up /\ wk[w].up = "checked"
  /\ wk' = [wk EXCEPT ![w] = failure(@)]
  /\ UNCHANGED <<redis, up, OPs, mod, crashes, rdr, written, lastBump>>

\* Y.add_image's checks: an OP is refused, then EXISTS post:num
AddImageTarget(k) == k.op # 0 /\ hash[k.num].exists

\* publish with client.post: add_image's OP check and EXISTS
add_image_exists(w) ==
  LET k == wk[w] IN
  /\ up /\ k.up = "checked" /\ k.pc = "writing"
  /\ wk' = [wk EXCEPT ![w].up = IF AddImageTarget(k) THEN "exists" ELSE "none",
                      ![w].inum = k.num]
  /\ UNCHANGED <<redis, up, OPs, mod, crashes, rdr, written, lastBump>>

\* publish without client.post: allocate_post reserves a post for the image
allocate_post(w) ==
  LET k == wk[w] IN
  /\ up /\ k.up = "checked" /\ k.pc = "idle"
  /\ Reserve(w, k.file)
  /\ UNCHANGED <<bumpctr, hash, bodyKey, posts, hctr, imgctr, score, md5s>>
  /\ UNCHANGED <<up, mod, crashes, rdr, written, lastBump>>

\* Y.add_image's MULTI for post n of thread op and image file f: _log
\* INSERT_IMAGE, HMSET the image, HINCRBY imgctr, HSET MD5s
AddImageMulti(n, op, f) ==
  /\ Log(op, "insertImage", n)
  /\ hash' = [hash EXCEPT ![n].md5 = f]
  /\ imgctr' = [imgctr EXCEPT ![op] = @ + 1]
  /\ md5s' = [md5s EXCEPT ![f] = n]

\* add_image's MULTI, then publish's callback
add_image(w) ==
  LET k == wk[w]
      op == hash[k.inum].op
  IN
  /\ up /\ k.up = "exists"
  /\ \E ok \in StoreOutcomes :
       \/ /\ ~ok
          /\ wk' = [wk EXCEPT ![w] = failure(@)]
          /\ UNCHANGED redis
       \/ /\ ok
          /\ AddImageMulti(k.inum, op, k.file)
          /\ wk' = [wk EXCEPT ![w].up = "none", ![w].file = NoFile,
                              ![w].img = IF k.pc = "writing" THEN k.file ELSE @]
          /\ UNCHANGED <<postctr, bumpctr, bodyKey, posts, score>>
  /\ UNCHANGED <<up, OPs, mod, crashes, rdr, written, lastBump>>

-----------------------------------------------------------------------------
(***************************************************************************)
(* remove_post: the op comes from the registry; a miss or a thread is      *)
(* refused.  LREM from the thread's list; if it removed the post, HSET     *)
(* hide, then delete OPs[num]; in the background GET the body key and in a *)
(* MULTI finish_off with what was read (null when the key was gone).       *)
(***************************************************************************)
remove_post(m) ==
  /\ up /\ mod[m].pc = "idle"
  /\ \E num \in Nums :
       LET op == OPs[num] IN
       /\ op # 0 /\ op # num /\ Contains(posts[op], num)
       /\ posts' = [posts EXCEPT ![op] = Remove(@, num)]
       /\ mod' = [mod EXCEPT ![m] = [pc |-> "hiding", num |-> num, op |-> op, body |-> NoBody]]
  /\ UNCHANGED <<postctr, bumpctr, hash, bodyKey, hctr, imgctr, score, md5s>>
  /\ UNCHANGED <<up, OPs, wk, crashes, rdr, written, lastBump>>

\* HSET hide (an error is only logged), then delete OPs[num]
remove_hide(m) ==
  LET r == mod[m] IN
  /\ up /\ r.pc = "hiding"
  /\ \E ok \in StoreOutcomes :
       hash' = IF ok THEN [hash EXCEPT ![r.num].exists = TRUE, ![r.num].hide = TRUE] ELSE hash
  /\ OPs' = [OPs EXCEPT ![r.num] = 0]
  /\ mod' = [mod EXCEPT ![m].pc = "reading"]
  /\ UNCHANGED <<postctr, bumpctr, bodyKey, posts, hctr, imgctr, score, md5s>>
  /\ UNCHANGED <<up, wk, crashes, rdr, written, lastBump>>

remove_read(m) ==
  LET r == mod[m] IN
  /\ up /\ r.pc = "reading"
  /\ \E ok \in StoreOutcomes :
       mod' = [mod EXCEPT ![m] = IF ok THEN [r EXCEPT !.pc = "finishing", !.body = bodyKey[r.num]]
                                 ELSE ModIdle]
  /\ UNCHANGED <<redis, up, OPs, wk, crashes, rdr, written, lastBump>>

\* The background finish_off; a null GET result (body key already gone) is
\* passed to HSET as is, and NullBody is whatever node_redis stores for it
remove_finish(m) ==
  LET r == mod[m] IN
  /\ up /\ r.pc = "finishing"
  /\ \E ok \in StoreOutcomes :
       \/ ~ok /\ UNCHANGED <<hash, bodyKey>>
       \/ /\ ok
          /\ hash' = FinishOff(hash, r.num, IF r.body = NoBody THEN NullBody ELSE r.body)
          /\ bodyKey' = [bodyKey EXCEPT ![r.num] = NoBody]
  /\ mod' = [mod EXCEPT ![m] = ModIdle]
  /\ UNCHANGED <<postctr, bumpctr, posts, hctr, imgctr, score, md5s>>
  /\ UNCHANGED <<up, OPs, wk, crashes, rdr, written, lastBump>>

-----------------------------------------------------------------------------
(***************************************************************************)
(* Reader (get_thread, _get_each_reply, with_body): a thread is read by    *)
(* number, a reply because LRANGE listed it.  HGETALL of its hash: an     *)
(* empty hash is skipped, and so is a hidden reply; a finished post has    *)
(* its body in the hash.  Otherwise with_body GETs the body key, and when  *)
(* that is gone (the post was finished since) HGETs the hash's body.  Any  *)
(* error ends the read; a read post is emitted.  A Reader is made per      *)
(* request (new Reader in get_tag); each one here serves the read of one   *)
(* post, the step _get_each_reply repeats for every listed reply.         *)
(***************************************************************************)
\* thread:n (op 0) is read by its number; post:n only when a list holds n
Listed(n) == hash[n].op = 0 \/ \E t \in Nums : Contains(posts[t], n)

Shown(k, body) == [k EXCEPT !.pc = "shown", !.body = body]

read_hgetall(r) ==
  /\ up /\ rdr[r].pc = "idle"
  /\ \E n \in Nums, ok \in StoreOutcomes :
       LET h == hash[n] IN
       /\ Listed(n)
       /\ rdr' = [rdr EXCEPT ![r] =
                    IF ~ok \/ ~h.exists \/ (h.op # 0 /\ h.hide) THEN ReaderIdle
                    ELSE IF h.body # NoBody THEN Shown([@ EXCEPT !.num = n], h.body)
                    ELSE [@ EXCEPT !.pc = "get", !.num = n]]
  /\ UNCHANGED <<redis, up, OPs, wk, mod, crashes, written, lastBump>>

\* Mutant: with_body without the fallback HGET, a gone body key read as null
read_bodyNoFallback(r) ==
  LET k == rdr[r] IN
  /\ up /\ k.pc = "get"
  /\ \E ok \in StoreOutcomes :
       rdr' = [rdr EXCEPT ![r] = IF ~ok THEN ReaderIdle ELSE Shown(k, bodyKey[k.num])]
  /\ UNCHANGED <<redis, up, OPs, wk, mod, crashes, written, lastBump>>

(***************************************************************************)
(* with_body: GET post:n:body, and when it is null ("Race condition        *)
(* between finishing posts") HGET the hash's body.  The two replies are    *)
(* one step: the MULTI that deleted the key wrote the hash body, and only *)
(* a removal, which hides the post, or a restart, which ends the Reader,   *)
(* writes it again.  The post is emitted; the Reader's request is served.  *)
(***************************************************************************)
read_body(r) ==
  LET k == rdr[r] IN
  /\ up /\ k.pc = "get"
  /\ \E ok \in StoreOutcomes :
       rdr' = [rdr EXCEPT ![r] = IF ~ok THEN ReaderIdle
                                 ELSE IF bodyKey[k.num] # NoBody THEN Shown(k, bodyKey[k.num])
                                 ELSE Shown(k, hash[k.num].body)]
  /\ UNCHANGED <<redis, up, OPs, wk, mod, crashes, written, lastBump>>

-----------------------------------------------------------------------------
(***************************************************************************)
(* Crash and restart of the node process.  Redis keeps every key.  On      *)
(* start, load_OPs (KEYS of threads) maps each thread to itself and each  *)
(* member of a thread:t:posts list to t, and finish_all (KEYS of bodies)   *)
(* finishes every open body with its own content and logs FINISH_POST to   *)
(* the post's op (hget op, or the number itself for a thread key).         *)
(***************************************************************************)
crash ==
  /\ up /\ crashes < MaxCrashes
  /\ up' = FALSE /\ crashes' = crashes + 1
  /\ OPs' = [n \in Nums |-> 0]
  /\ wk' = [w \in Workers |-> WorkerIdle] /\ mod' = [m \in Mods |-> ModIdle]
  /\ rdr' = [r \in Readers |-> ReaderIdle]
  /\ UNCHANGED <<redis, written, lastBump>>

\* KEYS thread:* matches thread:n (the thread's hash and :body key, also
\* made by the HINCRBYs of hctr and imgctr), thread:n:posts and
\* thread:n:history; each of them sets OPs[n] = n
IsThread(n) ==
  \/ hash[n].exists /\ hash[n].op = 0
  \/ posts[n] # <<>> \/ hctr[n] > 0 \/ imgctr[n] > 0

\* Mutant: only the thread keys are read, not the thread:t:posts lists
load_OPsThreadsOnly == [n \in Nums |-> IF IsThread(n) THEN n ELSE 0]

load_OPs ==
  [n \in Nums |-> IF IsThread(n) THEN n
                  ELSE IF \E t \in Nums : Contains(posts[t], n)
                       THEN CHOOSE t \in Nums : Contains(posts[t], n)
                       ELSE 0]

\* The posts finish_all finds, in key order
OpenBodies == SelectSeq([i \in 1..MaxPost |-> i], LAMBDA n : bodyKey[n] # NoBody)

\* Mutant: the body key deleted before it is read, the final body empty
finish_allDelFirst ==
  LET Finish(s, n) ==
        [s EXCEPT !.hash = FinishOff(@, n, <<>>),
                  !.hctr[ThreadOf(n, hash[n].op)] = @ + 1]
  IN FoldLeft(Finish, [hash |-> hash, hctr |-> hctr], OpenBodies)

finish_all ==
  LET Finish(s, n) ==
        [s EXCEPT !.hash = FinishOff(@, n, bodyKey[n]),
                  !.hctr[ThreadOf(n, hash[n].op)] = @ + 1]
  IN FoldLeft(Finish, [hash |-> hash, hctr |-> hctr], OpenBodies)

restart ==
  LET s == finish_all IN
  /\ ~up /\ up' = TRUE
  /\ OPs' = load_OPs
  /\ hash' = s.hash /\ hctr' = s.hctr
  /\ bodyKey' = [n \in Nums |-> NoBody]
  /\ UNCHANGED <<postctr, bumpctr, posts, imgctr, score, md5s>>
  /\ UNCHANGED <<wk, mod, crashes, rdr, written, lastBump>>

-----------------------------------------------------------------------------
Next ==
  \/ \E w \in Workers :
       \/ reserve_post(w) \/ insert_post(w) \/ bump(w)
       \/ append_post(w) \/ finish_post(w)
       \/ check_duplicate(w) \/ process_fails(w)
       \/ add_image_exists(w) \/ allocate_post(w) \/ add_image(w)
  \/ \E m \in Mods : remove_post(m) \/ remove_hide(m) \/ remove_read(m) \/ remove_finish(m)
  \/ \E r \in Readers : read_hgetall(r) \/ read_body(r)
  \/ crash \/ restart

Spec == Init /\ [][Next]_vars

-----------------------------------------------------------------------------
(***************************************************************************)
(* Properties                                                              *)
(***************************************************************************)
Bodies == Seq(Tails) \cup {NoBody, NullBody}

TypeOK ==
  /\ postctr \in Ref /\ bumpctr \in Nat
  /\ hash \in [Nums -> [exists : BOOLEAN, op : Ref, md5 : Files \cup {NoFile},
                        hide : BOOLEAN, body : Bodies]]
  /\ bodyKey \in [Nums -> Seq(Tails) \cup {NoBody}]
  /\ posts \in [Nums -> Seq(Nums)]
  /\ hctr \in [Nums -> Nat]
  /\ imgctr \in [Nums -> Nat] /\ score \in [Nums -> Nat] /\ md5s \in [Files -> Ref]
  /\ up \in BOOLEAN /\ OPs \in [Nums -> Ref]
  /\ wk \in [Workers -> [pc : {"idle", "reserved", "bumping", "writing"}, num : Ref,
                         op : Ref, score : Nat, text : Seq(Tails), img : Files \cup {NoFile},
                         up : {"none", "checked", "exists"}, file : Files \cup {NoFile},
                         inum : Ref]]
  /\ mod \in [Mods -> [pc : {"idle", "hiding", "reading", "finishing"}, num : Ref,
                       op : Ref, body : Seq(Tails) \cup {NoBody}]]
  /\ rdr \in [Readers -> [pc : {"idle", "get", "shown"}, num : Ref, body : Bodies]]

\* A post the Reader shows: a thread, or a member of its thread's list, not hidden
Visible(n) ==
  /\ hash[n].exists /\ ~hash[n].hide
  /\ hash[n].op = 0 \/ Contains(posts[hash[n].op], n)

(* Spec 4.2 and invariant 4: while the node process runs, the registry     *)
(* maps every visible post to its thread, across reserve_post,             *)
(* insert_post, remove_post and a crash with load_OPs on restart.          *)
RegistryComplete ==
  up => \A n \in Nums : Visible(n) => OPs[n] = ThreadOf(n, hash[n].op)

\* process's pinky flag, (client.post && client.post.op) || (alloc && alloc.op):
\* the alloc field is the client's form, unconstrained and not kept here,
\* so its op may make any upload a pinky
Pinky(k) == {k.op # 0 \/ alloc : alloc \in BOOLEAN}

(* While a worker's upload is between check_duplicate and publish, the    *)
(* thumbnail process asks resize_image for, with the pinky flag of that   *)
(* worker's post and form, is the source scaled to fit the flag's bound, *)
(* for every source size the dimension checks accept (ThumbSpecs).        *)
ThumbSpecsFit ==
  \A w \in Workers : wk[w].up = "checked" => \A pinky \in Pinky(wk[w]) : ThumbFit[pinky]

(* A post whose hash holds a final body and is visible holds every text    *)
(* its client appended, whether finish_post closed it or, after a crash,   *)
(* finish_all did from the body key.                                       *)
FinishedBodyComplete ==
  \A n \in Nums : Visible(n) /\ hash[n].body # NoBody => hash[n].body = written[n]

(* A visible post a Reader emits carries text its client wrote: the final *)
(* body or an open body that is a prefix of it, never null, even when     *)
(* finish_post moves the body between the Reader's HGETALL and its GET.   *)
ReaderShowsWritten ==
  \A r \in Readers :
    LET n == rdr[r].num IN
    rdr[r].pc = "shown" /\ Visible(n)
      => rdr[r].body \notin {NoBody, NullBody} /\ IsPrefix(rdr[r].body, written[n])

\* A bump of thread t is issued and its ZADD not yet run
BumpPending(t) ==
  \E w \in Workers : wk[w].pc = "bumping" /\ ThreadOf(wk[w].num, wk[w].op) = t

(* Spec invariant 7: threads are ordered by their bump counter: once no    *)
(* bump of a thread is in flight, its score in tag:moe:threads is the      *)
(* counter of its latest bumping insert_post.                              *)
BumpOrder ==
  \A t \in Nums : ~BumpPending(t) => score[t] = lastBump[t]

(* Spec invariant 8: no two visible posts carry an image with one MD5,     *)
(* whatever the order of concurrent uploads' check_duplicate and          *)
(* add_image.                                                              *)
MD5Unique ==
  \A n1, n2 \in Nums :
    (n1 # n2 /\ Visible(n1) /\ Visible(n2) /\ hash[n1].md5 # NoFile)
      => hash[n1].md5 # hash[n2].md5

(* pix.js keeps client.post.image to refuse a second upload: when set, it *)
(* is the image the store holds for client.post.                          *)
ClientImageStored ==
  \A w \in Workers : wk[w].pc = "writing" /\ wk[w].img # NoFile
                       => hash[wk[w].num].md5 = wk[w].img

=============================================================================
