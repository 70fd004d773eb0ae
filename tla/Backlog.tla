------------------------------- MODULE Backlog -------------------------------
(***************************************************************************)
(* The real-time update path of src/server/db.js: every post operation's  *)
(* MULTI ends with Y._log, which appends the message to the thread's      *)
(* history list and PUBLISHes it on channel thread:op.  Readers (the      *)
(* Yakusoku of connected clients) share one Subscription per thread       *)
(* through SUBS: Y.kiku registers a promise and waits in when_ready until *)
(* Redis confirms SUBSCRIBE, then the caller replays history from the     *)
(* client's cursor with fetch_backlogs while on_message forwards live     *)
(* messages.  The OP tracker (track_OPs) pattern-subscribes to every      *)
(* thread and parses each message in on_OP_message.                       *)
(*                                                                         *)
(* Redis runs commands one at a time and delivers pubsub frames on each   *)
(* connection in order; node runs one callback at a time.  A step is one *)
(* Redis command or one callback.  LRANGE replies (on the Yakusoku's      *)
(* connection) and pubsub frames (on the subscription's) are not ordered *)
(* with each other.                                                       *)
(***************************************************************************)
EXTENDS Integers, Sequences, SequencesExt, FiniteSets

CONSTANTS
  Readers,        \* Yakusoku of clients that watch a thread
  SubIds,         \* Subscription objects that may be created
  Watch,          \* the thread the readers watch
  MaxPost,        \* bound on postctr
  Tails,          \* texts append_post may add (sequences of characters)
  MaxAppends,     \* bound on append_post calls in a behaviour
  MaxErrors,      \* bound on pubsub connection errors
  INSERT_POST, UPDATE_POST, FINISH_POST,   \* message kinds of common.js
  Time,           \* the time field of an inserted post
  NoSub, NaN      \* SUBS[t] unset; parseInt's NaN

Nums == 1..MaxPost
Digit == <<"0", "1", "2", "3", "4", "5", "6", "7", "8", "9">>

ASSUME /\ Watch \in Nums
       /\ \A t \in Tails : \A i \in 1..Len(t) : t[i] \notin {"\"", "\\"}

VARIABLES
  postctr,   \* Redis postctr
  history,   \* history[t]: thread:t:history, the messages _log appended
  OPs,       \* the process's registry post -> thread (0: none)
  owner,     \* owner[n]: the thread reserve_post gave n (auxiliary)
  wk,        \* the post writer of this process: its request in flight
  SUBS,      \* SUBS[t]: the Subscription of thread t, or NoSub
  sub,       \* sub[s]: thread, pc, pending when_ready callbacks, promises
  conn,      \* conn[s]: whether Redis has s subscribed, frames not yet read
  rd,        \* rd[y]: the reader's state, cursor and what it has received
  trk,       \* frames of the tracker's pattern subscription not yet read
  errors     \* connection errors so far

vars == <<postctr, history, OPs, owner, wk, SUBS, sub, conn, rd, trk, errors>>

-----------------------------------------------------------------------------
(***************************************************************************)
(* Messages.  _log sends JSON.stringify([kind].concat(msg)).slice(1, -1); *)
(* a string is a sequence of characters.  The insert view's keys after    *)
(* "time" are abstracted to one token, as nothing reads past them.        *)
(***************************************************************************)
RECURSIVE Digits(_)
Digits(n) == IF n < 10 THEN <<Digit[n + 1]>>
             ELSE Digits(n \div 10) \o <<Digit[(n % 10) + 1]>>

JsonString(s) == <<"\"">> \o s \o <<"\"">>

\* The INSERT_POST view: {"time":T,"ip":...}
ViewJson == <<"{", "\"time\"", ":">> \o Digits(Time) \o <<",", "\"ip\"", ":", "...">>

Encode(m) ==
  Digits(m.kind) \o <<",">> \o Digits(m.num) \o
    CASE m.kind = INSERT_POST -> <<",">> \o ViewJson
      [] m.kind = UPDATE_POST -> <<",">> \o JsonString(m.tail)
      [] OTHER -> <<>>

\* parseInt: the leading decimal digits, NaN when there are none
IsDigit(ch) == \E d \in 1..10 : Digit[d] = ch
DigitVal(ch) == CHOOSE d \in 0..9 : Digit[d + 1] = ch
ParseInt(s) ==
  LET k == SelectInSeq(s, LAMBDA ch : ~IsDigit(ch))
      n == IF k = 0 THEN Len(s) ELSE k - 1
  IN IF n = 0 THEN NaN
     ELSE FoldLeft(LAMBDA a, ch : 10 * a + DigitVal(ch), 0, SubSeq(s, 1, n))

\* msg.split(':', 2): the text before the first ':' and the one after it,
\* up to the next ':' (empty, hence NaN, when there is no ':')
Colon(s) == SelectInSeq(s, LAMBDA ch : ch = ":")
BeforeColon(s) == IF Colon(s) = 0 THEN s ELSE SubSeq(s, 1, Colon(s) - 1)
SplitColon(s) ==
  <<BeforeColon(s),
    IF Colon(s) = 0 THEN <<>> ELSE BeforeColon(SubSeq(s, Colon(s) + 1, Len(s)))>>

-----------------------------------------------------------------------------
NoReader == [pc |-> "idle", sync |-> 0, sub |-> NoSub, got |-> {}, reply |-> {}]

Init ==
  /\ postctr = 0
  /\ history = [t \in Nums |-> <<>>]
  /\ OPs = [n \in Nums |-> 0]
  /\ owner = [n \in Nums |-> 0]
  /\ wk = [pc |-> "idle", num |-> 0, op |-> 0, appends |-> 0]
  /\ SUBS = [t \in Nums |-> NoSub]
  /\ sub = [s \in SubIds |-> [thread |-> Watch, pc |-> "none",
                               callbacks |-> {}, promises |-> {}]]
  /\ conn = [s \in SubIds |-> [subscribed |-> FALSE, inbox |-> <<>>]]
  /\ rd = [y \in Readers |-> NoReader]
  /\ trk = <<>>
  /\ errors = 0


(***************************************************************************)
(* Y._log inside a MULTI: RPUSH thread:op:history, HINCRBY hctr, PUBLISH   *)
(* thread:op.  Redis hands the message to every connection subscribed to  *)
(* the channel at EXEC time and to the tracker's thread:* pattern.        *)
(***************************************************************************)
Log(t, m) ==
  /\ history' = [history EXCEPT ![t] = Append(@, m)]
  /\ conn' = [s \in SubIds |->
               IF conn[s].subscribed /\ sub[s].thread = t
               THEN [conn[s] EXCEPT !.inbox = Append(@, [type |-> "message", idx |-> Len(history[t]) + 1])]
               ELSE conn[s]]
  /\ trk' = Append(trk, [chan |-> t, msg |-> Encode(m)])

(***************************************************************************)
(* The post writer: reserve_post (INCR postctr, OPs[num] = op || num),     *)
(* insert_post (refused when OPs[op] # op, else the MULTI with its        *)
(* INSERT_POST log), append_post (UPDATE_POST) and finish_post            *)
(* (FINISH_POST).  The MULTIs' other keys are in RedisPosts.             *)
(***************************************************************************)
\* msg.op is whatever the client sent: 0 for a new thread, another post's
\* number, or a number no post has reached (MaxPost + 1)
reserve_post ==
  /\ wk.pc = "idle" /\ postctr < MaxPost
  /\ \E op \in {0} \cup (Nums \ {postctr + 1}) \cup {MaxPost + 1} :
       LET num == postctr + 1
           t == IF op = 0 THEN num ELSE op
       IN /\ postctr' = num
          /\ OPs' = [OPs EXCEPT ![num] = t]
          /\ owner' = [owner EXCEPT ![num] = t]
          /\ wk' = [wk EXCEPT !.pc = "reserved", !.num = num, !.op = op]
  /\ UNCHANGED <<history, SUBS, sub, conn, rd, trk, errors>>

\* insert_post's check that msg.op is a thread: OPs[msg.op] == msg.op
ThreadKnown(op) == op = 0 \/ (op \in Nums /\ OPs[op] = op)

insert_post ==
  /\ wk.pc = "reserved"
  /\ \/ \* 'Thread does not exist.': delete OPs[num] before num is assigned
        /\ ~ThreadKnown(wk.op)
        /\ wk' = [wk EXCEPT !.pc = "idle"]
        /\ UNCHANGED <<history, conn, trk>>
     \/ /\ ThreadKnown(wk.op)
        /\ Log(owner[wk.num], [kind |-> INSERT_POST, num |-> wk.num, tail |-> <<>>])
        /\ wk' = [wk EXCEPT !.pc = "open"]
  /\ UNCHANGED <<postctr, OPs, owner, SUBS, sub, rd, errors>>

append_post ==
  /\ wk.pc = "open" /\ wk.appends < MaxAppends
  /\ \E tail \in Tails :
       Log(owner[wk.num], [kind |-> UPDATE_POST, num |-> wk.num, tail |-> tail])
  /\ wk' = [wk EXCEPT !.appends = @ + 1]
  /\ UNCHANGED <<postctr, OPs, owner, SUBS, sub, rd, errors>>

finish_post ==
  /\ wk.pc = "open"
  /\ Log(owner[wk.num], [kind |-> FINISH_POST, num |-> wk.num, tail |-> <<>>])
  /\ wk' = [wk EXCEPT !.pc = "idle"]
  /\ UNCHANGED <<postctr, OPs, owner, SUBS, sub, rd, errors>>

-----------------------------------------------------------------------------
(***************************************************************************)
(* S.seppuku: drop every listener, QUIT the connection (Redis forgets the *)
(* subscription, unread frames are lost) and clear SUBS[thread] if it is  *)
(* still this subscription.                                               *)
(***************************************************************************)
Seppuku(s, subs) ==
  /\ conn' = [conn EXCEPT ![s] = [subscribed |-> FALSE, inbox |-> <<>>]]
  /\ SUBS' = IF SUBS[sub[s].thread] = s
             THEN [SUBS EXCEPT ![sub[s].thread] = NoSub] ELSE SUBS
  /\ sub' = [subs EXCEPT ![s].pc = "dead"]

\* The caller's kiku callback: with no error, fetch_backlogs sends
\* LRANGE thread:t:history sync -1; with one, the reader gives up
KikuDone(r, ok) == IF ok THEN [r EXCEPT !.pc = "fetching"] ELSE [r EXCEPT !.pc = "failed"]

\* Mutant: the callback runs once the Subscription exists, before Redis
\* has confirmed its SUBSCRIBE
CallbacksDoneEarly(s) == sub[s].pc \in {"subscribing", "ready"}

\* when_ready's test: on_sub has deleted subscription_callbacks
CallbacksDone(s) == sub[s].pc = "ready"

(***************************************************************************)
(* Y.kiku for the watched thread: reuse SUBS[t] or create a Subscription, *)
(* whose constructor sends SUBSCRIBE; promise_to; when_ready queues the   *)
(* callback while subscription_callbacks exists and runs it at once       *)
(* otherwise.  The client's cursor is any prefix of the history.          *)
(***************************************************************************)
kiku(y) ==
  /\ rd[y].pc = "idle"
  /\ \E sync \in 0..Len(history[Watch]) :
       \E s \in IF SUBS[Watch] # NoSub THEN {SUBS[Watch]}
                ELSE {x \in SubIds : sub[x].pc = "none"} :
         LET new == SUBS[Watch] = NoSub
             ready == ~new /\ CallbacksDone(s)
             r == [NoReader EXCEPT !.sync = sync, !.sub = s, !.pc = "waiting"]
         IN /\ sub' = [sub EXCEPT ![s] =
                         [thread |-> Watch,
                          pc |-> IF new THEN "subscribing" ELSE @.pc,
                          callbacks |-> IF ready THEN @.callbacks ELSE @.callbacks \cup {y},
                          promises |-> @.promises \cup {y}]]
            /\ SUBS' = [SUBS EXCEPT ![Watch] = s]
            /\ rd' = [rd EXCEPT ![y] = IF ready THEN KikuDone(r, TRUE) ELSE r]
  /\ UNCHANGED <<postctr, history, OPs, owner, wk, conn, trk, errors>>

\* Redis runs the SUBSCRIBE: later PUBLISHes reach s, after the confirmation
redis_subscribe(s) ==
  /\ sub[s].pc = "subscribing" /\ ~conn[s].subscribed
  /\ conn' = [conn EXCEPT ![s] = [subscribed |-> TRUE,
                                  inbox |-> Append(@.inbox, [type |-> "subscribe", idx |-> 0])]]
  /\ UNCHANGED <<postctr, history, OPs, owner, wk, SUBS, sub, rd, trk, errors>>

(***************************************************************************)
(* The next frame on s's connection.  S.on_sub on the confirmation: the   *)
(* message listener is installed and every queued when_ready callback     *)
(* runs.  S.on_message on a message: on_update of every promise; the      *)
(* caller hands it to its client.                                         *)
(***************************************************************************)
on_sub(s) ==
  /\ conn[s].inbox # <<>> /\ Head(conn[s].inbox).type = "subscribe"
  /\ conn' = [conn EXCEPT ![s].inbox = Tail(@)]
  /\ sub' = [sub EXCEPT ![s].pc = "ready", ![s].callbacks = {}]
  /\ rd' = [y \in Readers |->
              IF y \in sub[s].callbacks /\ rd[y].pc = "waiting"
              THEN KikuDone(rd[y], TRUE) ELSE rd[y]]
  /\ UNCHANGED <<postctr, history, OPs, owner, wk, SUBS, trk, errors>>

on_message(s) ==
  /\ conn[s].inbox # <<>> /\ Head(conn[s].inbox).type = "message"
  /\ conn' = [conn EXCEPT ![s].inbox = Tail(@)]
  /\ rd' = [y \in Readers |->
              IF y \in sub[s].promises
              THEN [rd[y] EXCEPT !.got = @ \cup {Head(conn[s].inbox).idx}]
              ELSE rd[y]]
  /\ UNCHANGED <<postctr, history, OPs, owner, wk, SUBS, sub, trk, errors>>

\* Mutant: on_sub_error quits but never calls the queued callbacks
ErrorToReaderNoCallbacks(s, y) ==
  IF sub[s].pc = "ready" /\ y \in sub[s].promises /\ rd[y].pc \notin {"gone", "failed"}
  THEN [rd[y] EXCEPT !.pc = "sunk"] ELSE rd[y]

\* What reader y gets from s's error: its queued callback's error, or on_sink
ErrorToReader(s, y) ==
  CASE sub[s].pc = "subscribing" /\ y \in sub[s].callbacks
         /\ rd[y].pc = "waiting" -> KikuDone(rd[y], FALSE)
    [] sub[s].pc = "ready" /\ y \in sub[s].promises
         /\ rd[y].pc \notin {"gone", "failed"} -> [rd[y] EXCEPT !.pc = "sunk"]
    [] OTHER -> rd[y]

(***************************************************************************)
(* A connection error.  Before the confirmation the 'error' listener is   *)
(* S.on_sub_error: seppuku, then every queued callback gets the error.    *)
(* After it, S.sink_sub: seppuku, then on_sink of every promise.          *)
(***************************************************************************)
conn_error(s) ==
  /\ errors < MaxErrors /\ sub[s].pc \in {"subscribing", "ready"}
  /\ errors' = errors + 1
  /\ Seppuku(s, [sub EXCEPT ![s].callbacks = {}])
  /\ rd' = [y \in Readers |-> ErrorToReader(s, y)]
  /\ UNCHANGED <<postctr, history, OPs, owner, wk, trk>>

\* Mutant: the promise goes but the emptied subscription stays open
break_promiseKeepsOpen(s, y) ==
  /\ sub' = [sub EXCEPT ![s].promises = @ \ {y}]
  /\ UNCHANGED <<SUBS, conn>>

\* S.break_promise: drop y's promise; with none left, seppuku
break_promise(s, y) ==
  LET subs == [sub EXCEPT ![s].promises = @ \ {y}]
  IN IF subs[s].promises = {} THEN Seppuku(s, subs)
     ELSE /\ sub' = subs
          /\ UNCHANGED <<SUBS, conn>>

\* Y.kikanai: break_promise on whatever SUBS[t] now is
kikanai(y) ==
  /\ rd[y].pc \notin {"idle", "gone"}
  /\ rd' = [rd EXCEPT ![y].pc = "gone"]
  /\ IF SUBS[Watch] = NoSub
     THEN UNCHANGED <<SUBS, sub, conn>>
     ELSE break_promise(SUBS[Watch], y)
  /\ UNCHANGED <<postctr, history, OPs, owner, wk, trk, errors>>

\* Mutant: the cursor is taken as a 1-based index, one entry too early
LRangeFromSync(sync) == sync .. Len(history[Watch])

\* LRANGE thread:t:history sync -1: Redis indexes from 0, so the entries
\* after the first sync ones, up to the last
LRange(sync) == sync + 1 .. Len(history[Watch])

\* fetch_backlogs: Redis runs the LRANGE from the cursor, then node gets it
lrange(y) ==
  /\ rd[y].pc = "fetching"
  /\ rd' = [rd EXCEPT ![y].pc = "replying", ![y].reply = LRange(rd[y].sync)]
  /\ UNCHANGED <<postctr, history, OPs, owner, wk, SUBS, sub, conn, trk, errors>>

lrange_reply(y) ==
  /\ rd[y].pc = "replying"
  /\ rd' = [rd EXCEPT ![y].pc = "live", ![y].got = @ \cup rd[y].reply, ![y].reply = {}]
  /\ UNCHANGED <<postctr, history, OPs, owner, wk, SUBS, sub, conn, trk, errors>>

-----------------------------------------------------------------------------
(***************************************************************************)
(* on_OP_message: op from the channel name, then                          *)
(*   info = msg.split(':', 2); num = parseInt(info[0]);                   *)
(*   kind = parseInt(info[1]); if (kind == INSERT_POST) OPs[num] = op;    *)
(* a num outside the modelled posts sets an entry no one reads.           *)
(***************************************************************************)
on_OP_message ==
  /\ trk # <<>>
  /\ LET info == SplitColon(Head(trk).msg)
         num == ParseInt(info[1])
         kind == ParseInt(info[2])
     IN OPs' = IF kind = INSERT_POST /\ num \in Nums
               THEN [OPs EXCEPT ![num] = Head(trk).chan] ELSE OPs
  /\ trk' = Tail(trk)
  /\ UNCHANGED <<postctr, history, owner, wk, SUBS, sub, conn, rd, errors>>

Next ==
  \/ reserve_post \/ insert_post \/ append_post \/ finish_post
  \/ on_OP_message
  \/ \E y \in Readers : kiku(y) \/ kikanai(y) \/ lrange(y) \/ lrange_reply(y)
  \/ \E s \in SubIds : redis_subscribe(s) \/ on_sub(s) \/ on_message(s) \/ conn_error(s)

(***************************************************************************)
(* Redis answers every command and delivers every frame on a reader's    *)
(* connections, and node runs every callback it is handed: weak fairness *)
(* on those steps.  Clients, writers and connection errors need not       *)
(* happen.  No property here waits on the tracker, so it gets none.       *)
(***************************************************************************)
Fairness ==
  /\ \A s \in SubIds : WF_vars(redis_subscribe(s)) /\ WF_vars(on_sub(s)) /\ WF_vars(on_message(s))
  /\ \A y \in Readers : WF_vars(lrange(y)) /\ WF_vars(lrange_reply(y))

Spec == Init /\ [][Next]_vars /\ Fairness

-----------------------------------------------------------------------------
TypeOK ==
  /\ postctr \in 0..MaxPost
  /\ OPs \in [Nums -> 0..MaxPost + 1] /\ owner \in [Nums -> 0..MaxPost + 1]
  /\ SUBS \in [Nums -> SubIds \cup {NoSub}]
  /\ sub \in [SubIds -> [thread : Nums, pc : {"none", "subscribing", "ready", "dead"},
                         callbacks : SUBSET Readers, promises : SUBSET Readers]]
  /\ rd \in [Readers -> [pc : {"idle", "waiting", "fetching", "replying", "live",
                               "failed", "sunk", "gone"},
                         sync : Nat, sub : SubIds \cup {NoSub}, got : SUBSET Nat,
                         reply : SUBSET Nat]]
  /\ \A y \in Readers : rd[y].got \cup rd[y].reply \subseteq 1..Len(history[Watch])
  /\ errors \in 0..MaxErrors

(* Spec 5.3 / 8.5, the gap-free half: once a reader's replay has arrived  *)
(* and its subscription has handed over every frame Redis queued, it has *)
(* received every history entry after its cursor, by LRANGE or by         *)
(* on_message, whatever the order of SUBSCRIBE, PUBLISH and LRANGE.       *)
NoGap ==
  \A y \in Readers :
    LET s == rd[y].sub IN
    (/\ rd[y].pc = "live" /\ sub[s].pc = "ready"
     /\ \A i \in 1..Len(conn[s].inbox) : conn[s].inbox[i].type # "message")
      => rd[y].sync + 1 .. Len(history[Watch]) \subseteq rd[y].got

(* Every open pubsub connection serves a reader: a live Subscription      *)
(* holds the promise of a reader that has not left (break_promise's       *)
(* seppuku when the last promise goes).                                   *)
SubscriptionsNeeded ==
  \A s \in SubIds :
    sub[s].pc \in {"subscribing", "ready"} =>
      \E y \in sub[s].promises : rd[y].pc # "gone"

(* A reader waiting in when_ready is eventually called back, with success *)
(* or with the subscription's error, unless it leaves first: on_sub and   *)
(* on_sub_error both drain subscription_callbacks.                        *)
KikuAnswered ==
  \A y \in Readers : rd[y].pc = "waiting" ~> rd[y].pc # "waiting"

(* Spec 3.4 / 4.2: the registry entry of every reserved post is the      *)
(* thread reserve_post gave it; on_OP_message, parsing the messages _log  *)
(* publishes, never rewrites it, whatever text the writers send.          *)
RegistryEntriesTrue ==
  \A n \in 1..postctr : OPs[n] = owner[n]

=============================================================================
