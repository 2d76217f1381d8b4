---------------------------- MODULE StreamProofs -----------------------------
(***************************************************************************)
(* A stream is downloaded in order, the drive after its approval has what  *)
(* the streamer wants to keep, and its task ends once, for streams of any  *)
(* length.  The last part is about a viewer of the stream: what the        *)
(* playlist it writes while it watches names is there.                     *)
(***************************************************************************)
EXTENDS Stream, Viewer, WellFoundedInduction, TLAPS

(* The queues of jobs *)

\* A job of the set J is in the queue q.
Has(q, J) == \E i \in 1..Len(q) : q[i] \in J

\* There is at most one.
Once(q, J) == \A i, j \in 1..Len(q) : q[i] \in J /\ q[j] \in J => i = j

LEMMA HasAppend ==
    ASSUME NEW S, NEW q \in Seq(S), NEW x \in S, NEW J
    PROVE  Has(Append(q, x), J) <=> Has(q, J) \/ x \in J
BY DEF Has

LEMMA HasTail ==
    ASSUME NEW S, NEW q \in Seq(S), q # <<>>, NEW J
    PROVE  Has(q, J) <=> Has(Tail(q), J) \/ Head(q) \in J
<1>1. /\ Len(q) \in Nat \ {0}
      /\ Len(Tail(q)) = Len(q) - 1
      /\ \A i \in 1..(Len(q) - 1) : Tail(q)[i] = q[i + 1]
      /\ Head(q) = q[1]
  OBVIOUS
<1>2. ASSUME Has(q, J)  PROVE Has(Tail(q), J) \/ Head(q) \in J
  <2>1. PICK i \in 1..Len(q) : q[i] \in J  BY <1>2 DEF Has
  <2>2. CASE i = 1  BY <1>1, <2>1, <2>2
  <2>3. CASE i # 1
    <3>1. i - 1 \in 1..(Len(q) - 1) /\ (i - 1) + 1 = i  BY <1>1, <2>3
    <3>2. Tail(q)[i - 1] = q[i]  BY <1>1, <3>1
    <3> QED  BY <1>1, <2>1, <3>1, <3>2 DEF Has
  <2> QED  BY <2>2, <2>3
<1>3. ASSUME Has(Tail(q), J)  PROVE Has(q, J)
  <2>1. PICK i \in 1..(Len(q) - 1) : Tail(q)[i] \in J  BY <1>1, <1>3 DEF Has
  <2>2. q[i + 1] \in J /\ i + 1 \in 1..Len(q)  BY <1>1, <2>1
  <2> QED  BY <2>2 DEF Has
<1>4. ASSUME Head(q) \in J  PROVE Has(q, J)
  <2>1. 1 \in 1..Len(q) /\ q[1] \in J  BY <1>1, <1>4
  <2> QED  BY <2>1 DEF Has
<1> QED  BY <1>2, <1>3, <1>4

LEMMA HasCons ==
    ASSUME NEW S, NEW q \in Seq(S), NEW x \in S, NEW J
    PROVE  Has(<<x>> \o q, J) <=> Has(q, J) \/ x \in J
<1> DEFINE r == <<x>> \o q
<1>1. /\ r \in Seq(S) /\ r # <<>>
      /\ Head(r) = x /\ Tail(r) = q
  OBVIOUS
<1> HIDE DEF r
<1>2. Has(r, J) <=> Has(Tail(r), J) \/ Head(r) \in J  BY <1>1, HasTail
<1> QED  BY <1>1, <1>2 DEF r

LEMMA HasNone ==
    ASSUME NEW J
    PROVE  ~Has(<<>>, J) /\ Once(<<>>, J)
BY DEF Has, Once

LEMMA OnceAppend ==
    ASSUME NEW S, NEW q \in Seq(S), NEW x \in S, NEW J,
           Once(q, J), ~(Has(q, J) /\ x \in J)
    PROVE  Once(Append(q, x), J)
<1>1. /\ Len(q) \in Nat
      /\ Len(Append(q, x)) = Len(q) + 1
      /\ \A i \in 1..Len(q) : Append(q, x)[i] = q[i]
      /\ Append(q, x)[Len(q) + 1] = x
  OBVIOUS
<1> SUFFICES ASSUME NEW i \in 1..(Len(q) + 1), NEW j \in 1..(Len(q) + 1),
                    Append(q, x)[i] \in J, Append(q, x)[j] \in J
             PROVE  i = j
  BY <1>1 DEF Once
<1>2. CASE i \in 1..Len(q) /\ j \in 1..Len(q)
  <2>1. q[i] \in J /\ q[j] \in J  BY <1>1, <1>2
  <2> QED  BY <1>2, <2>1 DEF Once
<1>3. CASE i \in 1..Len(q) /\ j = Len(q) + 1
  <2>1. q[i] \in J /\ x \in J  BY <1>1, <1>3
  <2> QED  BY <1>3, <2>1 DEF Has
<1>4. CASE i = Len(q) + 1 /\ j \in 1..Len(q)
  <2>1. q[j] \in J /\ x \in J  BY <1>1, <1>4
  <2> QED  BY <1>4, <2>1 DEF Has
<1>5. CASE i = Len(q) + 1 /\ j = Len(q) + 1  BY <1>5
<1> QED  BY <1>1, <1>2, <1>3, <1>4, <1>5

LEMMA OnceTail ==
    ASSUME NEW S, NEW q \in Seq(S), q # <<>>, NEW J, Once(q, J)
    PROVE  /\ Once(Tail(q), J)
           /\ ~(Head(q) \in J /\ Has(Tail(q), J))
<1>1. /\ Len(q) \in Nat \ {0}
      /\ Len(Tail(q)) = Len(q) - 1
      /\ \A i \in 1..(Len(q) - 1) : Tail(q)[i] = q[i + 1]
      /\ Head(q) = q[1]
  OBVIOUS
<1>2. ASSUME NEW i \in 1..(Len(q) - 1), NEW j \in 1..(Len(q) - 1),
             Tail(q)[i] \in J, Tail(q)[j] \in J
      PROVE  i = j
  <2>1. q[i + 1] \in J /\ q[j + 1] \in J  BY <1>1, <1>2
  <2>2. i + 1 \in 1..Len(q) /\ j + 1 \in 1..Len(q)  BY <1>1
  <2>3. i + 1 = j + 1  BY <2>1, <2>2 DEF Once
  <2> QED  BY <1>1, <2>3
<1>3. ASSUME Head(q) \in J, Has(Tail(q), J)  PROVE FALSE
  <2>1. PICK i \in 1..(Len(q) - 1) : Tail(q)[i] \in J  BY <1>1, <1>3 DEF Has
  <2>2. q[i + 1] \in J /\ i + 1 \in 1..Len(q)  BY <1>1, <2>1
  <2>3. q[1] \in J /\ 1 \in 1..Len(q)  BY <1>1, <1>3
  <2>4. i + 1 = 1  BY <2>2, <2>3 DEF Once
  <2> QED  BY <1>1, <2>4
<1> QED  BY <1>1, <1>2, <1>3 DEF Once

LEMMA OnceCons ==
    ASSUME NEW S, NEW q \in Seq(S), NEW x \in S, NEW J,
           Once(q, J), ~(Has(q, J) /\ x \in J)
    PROVE  Once(<<x>> \o q, J)
<1>1. /\ Len(q) \in Nat
      /\ Len(<<x>> \o q) = Len(q) + 1
      /\ (<<x>> \o q)[1] = x
      /\ \A i \in 2..(Len(q) + 1) : (<<x>> \o q)[i] = q[i - 1]
  OBVIOUS
<1> SUFFICES ASSUME NEW i \in 1..(Len(q) + 1), NEW j \in 1..(Len(q) + 1),
                    (<<x>> \o q)[i] \in J, (<<x>> \o q)[j] \in J
             PROVE  i = j
  BY <1>1 DEF Once
<1>2. CASE i \in 2..(Len(q) + 1) /\ j \in 2..(Len(q) + 1)
  <2>1. q[i - 1] \in J /\ q[j - 1] \in J  BY <1>1, <1>2
  <2>2. i - 1 \in 1..Len(q) /\ j - 1 \in 1..Len(q)  BY <1>1, <1>2
  <2>3. i - 1 = j - 1  BY <2>1, <2>2 DEF Once
  <2> QED  BY <1>1, <2>3
<1>3. CASE i \in 2..(Len(q) + 1) /\ j = 1
  <2>1. q[i - 1] \in J /\ x \in J /\ i - 1 \in 1..Len(q)  BY <1>1, <1>3
  <2> QED  BY <2>1 DEF Has
<1>4. CASE i = 1 /\ j \in 2..(Len(q) + 1)
  <2>1. q[j - 1] \in J /\ x \in J /\ j - 1 \in 1..Len(q)  BY <1>1, <1>4
  <2> QED  BY <2>1 DEF Has
<1>5. CASE i = 1 /\ j = 1  BY <1>5
<1> QED  BY <1>1, <1>2, <1>3, <1>4, <1>5

\* What a thread does to its queue: it takes a job, and a job is posted.
LEMMA TakeJob ==
    ASSUME NEW S, NEW q \in Seq(S), q # <<>>, NEW J
    PROVE  /\ Tail(q) \in Seq(S)
           /\ Has(q, J) <=> Has(Tail(q), J) \/ Head(q) \in J
           /\ Once(q, J) => Once(Tail(q), J) /\ ~(Head(q) \in J /\ Has(Tail(q), J))
<1>1. Tail(q) \in Seq(S)  OBVIOUS
<1> QED  BY <1>1, HasTail, OnceTail

LEMMA PostJob ==
    ASSUME NEW S, NEW q \in Seq(S), NEW x \in S, NEW J
    PROVE  /\ Append(q, x) \in Seq(S)
           /\ Has(Append(q, x), J) <=> Has(q, J) \/ x \in J
           /\ Once(q, J) /\ ~(Has(q, J) /\ x \in J) => Once(Append(q, x), J)
<1>1. Append(q, x) \in Seq(S)  OBVIOUS
<1> QED  BY <1>1, HasAppend, OnceAppend

------------------------------------------------------------------------------
(* The inductive invariant, over the chunks s of the stream, the set k of   *)
(* those that are kept, a task t, a drive d and the queues q of the session *)
(* thread and b of the background thread.                                   *)

SessionJobs == {"next", "ask", "root", "created", "synced", "finished"}

BgJobs == {"parse", "check", "complete", "save", "clear", "sync"}

Phases == {"deferred", "running", "syncing", "ending", "over", "dead"}

Finishes == {"none", "loading", "loaded", "parsed"}

Tasks == [phase : Phases, infos : Seq(Contents \cup {Null}), current : Nat,
          handle : Contents \cup {Null}, finish : Finishes, first : Nat,
          tree : SUBSET Contents, opinion : (SUBSET Contents) \cup {Null},
          calculated : BOOLEAN, received : BOOLEAN, interrupted : BOOLEAN,
          removing : SUBSET {"break", "sync"}, completed : 0..2,
          early : BOOLEAN, full : BOOLEAN, ends : 0..2]

Drives == [map : SUBSET Contents, files : SUBSET Contents, used : SUBSET Contents,
           tree : (SUBSET Contents) \cup {Null}]

Typed(s, k, t, d, q, b) ==
    /\ s \in Seq(Contents) /\ s # <<>> /\ k \subseteq Range(s)
    /\ t \in Tasks /\ d \in Drives
    /\ q \in Seq(SessionJobs) /\ b \in Seq(BgJobs)

\* Cells of m_chunkInfoList are empty or have the chunk of their index, and
\* there is no empty one up to m_downloadingChunkInfoIt. What is asked for
\* is a chunk of the stream.
Announced(s, t, q) ==
    /\ Len(t.infos) <= Len(s) /\ t.current <= Len(t.infos)
    /\ \A i \in 1..Len(t.infos) : t.infos[i] \in {Null, s[i]}
    /\ \A i \in 1..t.current : t.infos[i] = s[i]
    /\ Has(q, {"ask"}) => t.first \in 1..Len(s)

\* The chunks up to a place.
Passed(s, n) == {s[i] : i \in 1..n}

SyncWaits(t, b) == "sync" \in t.removing \/ Has(b, {"sync"})

Unsynced(t, b) == t.phase \in {"deferred", "running"} \/ SyncWaits(t, b)

\* The chunk that is downloaded is the last one that was passed, and new.
HandleIsLast(s, t, d) ==
    t.handle # Null =>
        /\ t.current # 0
        /\ t.handle = s[t.current]
        /\ t.handle \notin d.files
        /\ t.handle \notin Passed(s, t.current - 1)

\* Until the drive is synchronized it has the chunks that were passed, all
\* but the last one, or one whose download was broken off, complete.
Downloads(s, t, d, b) ==
    Unsynced(t, b) =>
        /\ d.map = Passed(s, t.current)
        /\ d.files \subseteq d.map
        /\ HandleIsLast(s, t, d)
        /\ ~t.interrupted => Passed(s, t.current) \subseteq d.files \cup {t.handle}

\* A task that waits or is over has no jobs.
Quiet(t, q, b) ==
    /\ t.phase \in {"deferred", "dead", "over"} =>
          q = <<>> /\ b = <<>> /\ t.removing = {} /\ t.handle = Null
    /\ t.phase = "deferred" => t.finish = "none"

\* The synchronization goes through one job after the other.
Syncing(t, q, b) == SyncWaits(t, b) \/ Has(q, {"synced"})

SyncJobs(t, d, q, b) ==
    /\ Once(q, {"synced"}) /\ Once(b, {"sync"})
    /\ SyncWaits(t, b) => ~Has(q, {"synced"})
    /\ "sync" \in t.removing => ~Has(b, {"sync"})
    /\ Syncing(t, q, b) <=> t.phase = "syncing"
    /\ t.phase \in {"syncing", "ending"} => t.calculated /\ t.received
    /\ t.received /\ t.phase \in {"deferred", "running"} => t.interrupted
    /\ d.tree # Null => t.phase \in {"ending", "over", "dead"} /\ t.calculated

\* The opinion is about a stream that was completed.
Opining(q, b) == Has(q, {"root", "created"}) \/ Has(b, {"save"})

OpinionJobs(k, t, q, b) ==
    /\ Opining(q, b) \/ t.calculated => t.completed # 0
    /\ t.completed # 0 => t.tree = k

NewLast(s) == \A i \in 1..(Len(s) - 1) : s[i] # s[Len(s)]

\* What the drive may lack of a stream that was completed early.
Late(s, early) == IF early THEN {s[Len(s)]} ELSE {}

\* The drive after the synchronization.
Synced(s, k, t, d) ==
    /\ k \subseteq d.map
    /\ ~t.early => k \subseteq d.files
    /\ NewLast(s) => d.map = k /\ d.files \cup Late(s, t.early) = k \cup Late(s, t.early)

\* A stream is completed when m_torrentHandleMap has its chunks.  If the last one is
\* new all are passed then, and only the last one may still be downloaded.
Completed(s, k, t, d, q, b) ==
    /\ Unsynced(t, b) /\ (Has(b, {"complete"}) \/ t.completed # 0) => Range(s) \subseteq d.map
    /\ t.completed # 0 =>
        /\ NewLast(s) => /\ t.current = Len(s)
                         /\ t.handle # Null => t.early /\ t.handle = s[Len(s)]
                         /\ SyncWaits(t, b) => Range(s) \subseteq d.files \cup Late(s, t.early)
        /\ Unsynced(t, b) /\ ~t.early => Range(s) \subseteq d.files
        /\ SyncWaits(t, b) => d.used = k
        /\ Has(q, {"synced"}) \/ d.tree # Null => Synced(s, k, t, d)

\* A chunk whose download was broken off does not come any more.
Broken(s, t, d) == \E c \in Range(s) : c \in d.map \ d.files /\ c # t.handle

\* What can still end the task: one opinion that is worked on, the torrents
\* that are being removed, or the synchronization.
OpinionOnce(q, b) ==
    /\ Once(q, {"root", "created"}) /\ Once(b, {"save"})
    /\ Has(b, {"save"}) => ~Has(q, {"root", "created"})

OneEnd(s, t, d, q, b) ==
    t.completed < 2 /\ ~t.early /\ NewLast(s) =>
        /\ OpinionOnce(q, b)
        /\ t.calculated => ~Opining(q, b)
        /\ t.ends < 2
        /\ "break" \in t.removing => t.interrupted /\ t.ends = 0 /\ t.completed = 0
        /\ "break" \in t.removing \/ (t.ends = 1 /\ t.completed = 0) => Broken(s, t, d)
        /\ t.ends = 1 => ~Opining(q, b) /\ ~Syncing(t, q, b)
        /\ t.ends = 1 => t.interrupted \/ t.phase \in {"ending", "over", "dead"}

Good(s, k, t, d, q, b) ==
    /\ Typed(s, k, t, d, q, b) /\ Announced(s, t, q) /\ Downloads(s, t, d, b)
    /\ Quiet(t, q, b) /\ SyncJobs(t, d, q, b) /\ OpinionJobs(k, t, q, b)
    /\ Completed(s, k, t, d, q, b) /\ OneEnd(s, t, d, q, b)

Nets == [infos : SUBSET Nat, asks : SUBSET Nat, answers : SUBSET Nat,
         missed : SUBSET Nat, lost : Nat, cut : BOOLEAN]

\* The messages are about chunks of the stream.
NetInv(n, s) == /\ n \in Nets
                /\ n.infos \cup n.asks \cup n.answers \cup n.missed \subseteq 1..Len(s)

Streamers == [stream : Streams, added : Nat, finished : BOOLEAN]

StreamerInv(x) == x \in Streamers /\ x.added <= Len(x.stream.chunks)

Chains == [finish : {"none", "published", "accepted", "dropped"}, sent : BOOLEAN,
           approval : {"none", "published", "delivered"}]

IInv == /\ StreamerInv(streamer) /\ NetInv(net, Chunks) /\ chain \in Chains
        /\ Good(Chunks, Saved, task, drive, session, bg)

------------------------------------------------------------------------------
(* Steps that leave the downloads and the ends alone *)

Alike(q, r, J) == (Has(r, J) <=> Has(q, J)) /\ (Once(q, J) => Once(r, J))

SessionAlike(q, r) == /\ Has(r, {"ask"}) => Has(q, {"ask"})
                      /\ Alike(q, r, {"root", "created"})
                      /\ Alike(q, r, {"synced"})

BgAlike(b, c) == /\ Alike(b, c, {"save"}) /\ Alike(b, c, {"sync"})
                 /\ Has(c, {"complete"}) => Has(b, {"complete"})

\* What checkFinishCondition may do to the jobs of the background thread: it completes
\* the stream when m_torrentHandleMap has all chunks.
Checked(s, d, b, c) ==
    /\ c \in Seq(BgJobs) /\ Alike(b, c, {"save"}) /\ Alike(b, c, {"sync"})
    /\ Has(c, {"complete"}) => Has(b, {"complete"}) \/ Range(s) \subseteq d.map

TaskAlike(t, u) ==
    /\ u.phase = t.phase /\ u.current = t.current /\ u.handle = t.handle
    /\ u.tree = t.tree /\ u.opinion = t.opinion
    /\ u.calculated = t.calculated /\ u.received = t.received
    /\ u.interrupted = t.interrupted /\ u.removing = t.removing
    /\ u.completed = t.completed /\ u.early = t.early /\ u.ends = t.ends

\* Steps that leave the drive, what was passed and what was completed.
LEMMA CompletedAlike ==
    ASSUME NEW s, NEW k, NEW t, NEW u, NEW d, NEW q, NEW r, NEW b, NEW c,
           Good(s, k, t, d, q, b),
           u.completed = t.completed, u.early = t.early, u.current = t.current,
           u.handle = t.handle \/ u.handle = Null,
           SyncWaits(u, c) => SyncWaits(t, b), Unsynced(u, c) => Unsynced(t, b),
           Has(r, {"synced"}) => Has(q, {"synced"}),
           Has(c, {"complete"}) => Has(b, {"complete"})
    PROVE  Completed(s, k, u, d, r, c)
<1>1. Completed(s, k, t, d, q, b)  BY DEF Good
<1>2. Synced(s, k, t, d) <=> Synced(s, k, u, d)  BY DEF Synced
<1> QED  BY <1>1, <1>2 DEF Completed

\* Steps that only change the announcements, what is known of the end of the
\* stream, and jobs that nothing depends on.
LEMMA AlikeKeeps ==
    ASSUME NEW s, NEW k, NEW t, NEW u, NEW d, NEW q, NEW r, NEW b, NEW c,
           Good(s, k, t, d, q, b), u \in Tasks, TaskAlike(t, u),
           r \in Seq(SessionJobs), Checked(s, d, b, c),
           Alike(q, r, {"root", "created"}), Alike(q, r, {"synced"}),
           Announced(s, u, r), Quiet(u, r, c)
    PROVE  Good(s, k, u, d, r, c)
<1>1. Typed(s, k, u, d, r, c)  BY DEF Good, Typed, Checked
<1>2. /\ SyncWaits(u, c) <=> SyncWaits(t, b)
      /\ Syncing(u, r, c) <=> Syncing(t, q, b)
      /\ Unsynced(u, c) <=> Unsynced(t, b)
      /\ Opining(r, c) <=> Opining(q, b)
  BY DEF SyncWaits, Syncing, Unsynced, Opining, TaskAlike, Checked, Alike
<1>3. Downloads(s, u, d, c)
  BY <1>2 DEF Good, Downloads, HandleIsLast, TaskAlike
<1>4. SyncJobs(u, d, r, c)
  BY <1>2 DEF Good, SyncJobs, TaskAlike, Checked, Alike
<1>5. OpinionJobs(k, u, r, c)
  BY <1>2 DEF Good, OpinionJobs, TaskAlike
<1>6. Completed(s, k, u, d, r, c)
  <2>1. Completed(s, k, t, d, q, b)  BY DEF Good
  <2> QED  BY <1>2, <2>1 DEF Completed, Synced, TaskAlike, Checked, Alike
<1>7. OpinionOnce(q, b) => OpinionOnce(r, c)
  BY DEF OpinionOnce, Checked, Alike
<1>8. Broken(s, t, d) => Broken(s, u, d)  BY DEF Broken, TaskAlike
<1>9. OneEnd(s, u, d, r, c)
  BY <1>2, <1>7, <1>8 DEF Good, OneEnd, TaskAlike
<1> QED  BY <1>1, <1>3, <1>4, <1>5, <1>6, <1>9 DEF Good

LEMMA SameIsAlike ==
    ASSUME NEW q, NEW b
    PROVE  SessionAlike(q, q) /\ BgAlike(b, b)
BY DEF SessionAlike, BgAlike, Alike

\* Jobs that nothing depends on.
LEMMA TakeIdleJob ==
    ASSUME NEW q \in Seq(SessionJobs), q # <<>>, Head(q) \in {"next", "ask", "finished"}
    PROVE  Tail(q) \in Seq(SessionJobs) /\ SessionAlike(q, Tail(q))
<1>1. Tail(q) \in Seq(SessionJobs)  OBVIOUS
<1>2. Head(q) \notin {"root", "created"} /\ Head(q) \notin {"synced"}  OBVIOUS
<1>3. Has(Tail(q), {"ask"}) => Has(q, {"ask"})  BY TakeJob
<1>4. Alike(q, Tail(q), {"root", "created"})  BY <1>2, TakeJob DEF Alike
<1>5. Alike(q, Tail(q), {"synced"})  BY <1>2, TakeJob DEF Alike
<1> QED  BY <1>1, <1>3, <1>4, <1>5 DEF SessionAlike

LEMMA PostIdleJob ==
    ASSUME NEW q \in Seq(SessionJobs), NEW x \in {"next", "finished"}
    PROVE  Append(q, x) \in Seq(SessionJobs) /\ SessionAlike(q, Append(q, x))
<1>1. x \in SessionJobs  BY DEF SessionJobs
<1>2. x \notin {"root", "created"} /\ x \notin {"synced"} /\ x \notin {"ask"}  OBVIOUS
<1>3. Has(Append(q, x), {"ask"}) => Has(q, {"ask"})  BY <1>1, <1>2, PostJob
<1>4. Alike(q, Append(q, x), {"root", "created"})  BY <1>1, <1>2, PostJob DEF Alike
<1>5. Alike(q, Append(q, x), {"synced"})  BY <1>1, <1>2, PostJob DEF Alike
<1> QED  BY <1>1, <1>3, <1>4, <1>5 DEF SessionAlike

LEMMA TakeIdleBgJob ==
    ASSUME NEW b \in Seq(BgJobs), b # <<>>,
           Head(b) \in {"parse", "check", "complete", "clear"}
    PROVE  Tail(b) \in Seq(BgJobs) /\ BgAlike(b, Tail(b))
<1>1. Tail(b) \in Seq(BgJobs)  OBVIOUS
<1>2. Head(b) \notin {"save"} /\ Head(b) \notin {"sync"}  OBVIOUS
<1>3. Alike(b, Tail(b), {"save"})  BY <1>2, TakeJob DEF Alike
<1>4. Alike(b, Tail(b), {"sync"})  BY <1>2, TakeJob DEF Alike
<1>5. Has(Tail(b), {"complete"}) => Has(b, {"complete"})  BY TakeJob
<1> QED  BY <1>1, <1>3, <1>4, <1>5 DEF BgAlike

LEMMA PostIdleBgJob ==
    ASSUME NEW b \in Seq(BgJobs), NEW x \in {"parse", "check", "clear"}
    PROVE  Append(b, x) \in Seq(BgJobs) /\ BgAlike(b, Append(b, x))
<1>1. x \in BgJobs  BY DEF BgJobs
<1>2. x \notin {"save"} /\ x \notin {"sync"} /\ x \notin {"complete"}  OBVIOUS
<1>3. Alike(b, Append(b, x), {"save"})  BY <1>1, <1>2, PostJob DEF Alike
<1>4. Alike(b, Append(b, x), {"sync"})  BY <1>1, <1>2, PostJob DEF Alike
<1>5. Has(Append(b, x), {"complete"}) => Has(b, {"complete"})  BY <1>1, <1>2, PostJob
<1> QED  BY <1>1, <1>3, <1>4, <1>5 DEF BgAlike

\* checkFinishCondition goes on with completeStreamFinishing.
LEMMA PostComplete ==
    ASSUME NEW b \in Seq(BgJobs)
    PROVE  /\ <<"complete">> \o b \in Seq(BgJobs)
           /\ Alike(b, <<"complete">> \o b, {"save"})
           /\ Alike(b, <<"complete">> \o b, {"sync"})
<1>1. PICK x \in BgJobs : x = "complete"  BY DEF BgJobs
<1>2. x \notin {"save"} /\ x \notin {"sync"}  BY <1>1
<1>3. Alike(b, <<x>> \o b, {"save"})  BY <1>1, <1>2, HasCons, OnceCons DEF Alike
<1>4. Alike(b, <<x>> \o b, {"sync"})  BY <1>1, <1>2, HasCons, OnceCons DEF Alike
<1>5. <<x>> \o b \in Seq(BgJobs)  OBVIOUS
<1> QED  BY <1>1, <1>3, <1>4, <1>5

LEMMA AlikeTransitive ==
    ASSUME NEW q, NEW r, NEW p, SessionAlike(q, r), SessionAlike(r, p)
    PROVE  SessionAlike(q, p)
BY DEF SessionAlike, Alike

LEMMA BgAlikeIsChecked ==
    ASSUME NEW s, NEW d, NEW b, NEW c \in Seq(BgJobs), BgAlike(b, c)
    PROVE  Checked(s, d, b, c)
BY DEF BgAlike, Checked

LEMMA TryNext ==
    ASSUME NEW q \in Seq(SessionJobs), NEW h
    PROVE  /\ TryDownloadNextChunk(h, q) \in Seq(SessionJobs)
           /\ SessionAlike(q, TryDownloadNextChunk(h, q))
<1>1. CASE TryDownloadNextChunk(h, q) = q  BY <1>1, SameIsAlike
<1>2. CASE TryDownloadNextChunk(h, q) = Append(q, "next")  BY <1>2, PostIdleJob
<1> QED  BY <1>1, <1>2 DEF TryDownloadNextChunk

------------------------------------------------------------------------------
(* The downloads *)

LEMMA PassedNext ==
    ASSUME NEW s, NEW n \in Nat
    PROVE  Passed(s, n + 1) = Passed(s, n) \cup {s[n + 1]}
BY DEF Passed

LEMMA PassedAll ==
    ASSUME NEW S, NEW s \in Seq(S)
    PROVE  /\ Passed(s, Len(s)) = Range(s)
           /\ \A n \in 0..Len(s) : Passed(s, n) \subseteq Range(s)
BY DEF Passed, Range

\* A thread that has a job belongs to a task that is at work.
LEMMA AtWork ==
    ASSUME NEW s, NEW k, NEW t, NEW d, NEW q, NEW b, Good(s, k, t, d, q, b),
           q # <<>> \/ b # <<>> \/ t.handle # Null \/ t.removing # {}
    PROVE  t.phase \notin {"deferred", "dead", "over"}
BY DEF Good, Quiet

\* tryDownloadNextChunk passes a chunk that the drive has, ...
LEMMA SkipKeeps ==
    ASSUME NEW s, NEW k, NEW t, NEW d, NEW q, NEW b, Good(s, k, t, d, q, b),
           NEW r \in Seq(SessionJobs), SessionAlike(q, r), q # <<>>,
           NEW n, n = t.current + 1, n <= Len(t.infos), t.handle = Null,
           t.infos[n] # Null, t.infos[n] \in d.map,
           NEW u, u = [t EXCEPT !.current = n]
    PROVE  Good(s, k, u, d, r, b)
<1>1. /\ u \in Tasks /\ u.phase = t.phase /\ u.infos = t.infos /\ u.current = n
      /\ u.handle = t.handle /\ u.finish = t.finish /\ u.first = t.first
      /\ u.tree = t.tree /\ u.opinion = t.opinion
      /\ u.calculated = t.calculated /\ u.received = t.received
      /\ u.interrupted = t.interrupted /\ u.removing = t.removing
      /\ u.completed = t.completed /\ u.early = t.early /\ u.ends = t.ends
  <2>1. t \in Tasks  BY DEF Good, Typed
  <2>2. n \in Nat  BY <2>1 DEF Tasks
  <2> QED  BY ONLY u = [t EXCEPT !.current = n], <2>1, <2>2 DEF Tasks
<1>2. t.current \in Nat /\ Len(s) \in Nat /\ Len(t.infos) \in Nat /\ n \in 1..Len(t.infos)
  BY DEF Good, Typed, Tasks
<1>3. t.infos[n] = s[n]  BY <1>2 DEF Good, Announced
<1>4. Typed(s, k, u, d, r, b)  BY <1>1 DEF Good, Typed
<1>5. Announced(s, u, r)
  <2>1. \A i \in 1..n : t.infos[i] = s[i]  BY <1>2, <1>3 DEF Good, Announced
  <2> QED  BY <1>1, <1>2, <2>1 DEF Good, Announced, SessionAlike
<1>6. /\ SyncWaits(u, b) <=> SyncWaits(t, b)
      /\ Syncing(u, r, b) <=> Syncing(t, q, b)
      /\ Unsynced(u, b) <=> Unsynced(t, b)
      /\ Opining(r, b) <=> Opining(q, b)
  BY <1>1 DEF SyncWaits, Syncing, Unsynced, Opining, SessionAlike, Alike
<1>7. Downloads(s, u, d, b)
  <2> SUFFICES ASSUME Unsynced(t, b)
               PROVE  /\ d.map = Passed(s, n)
                      /\ d.files \subseteq d.map
                      /\ ~t.interrupted => Passed(s, n) \subseteq d.files \cup {t.handle}
    BY <1>1, <1>6 DEF Downloads, HandleIsLast
  <2>1. /\ d.map = Passed(s, t.current)
        /\ d.files \subseteq d.map
        /\ ~t.interrupted => Passed(s, t.current) \subseteq d.files \cup {t.handle}
    BY DEF Good, Downloads
  <2>2. Passed(s, n) = Passed(s, t.current) \cup {s[n]}  BY <1>2, PassedNext
  <2>3. Passed(s, n) = Passed(s, t.current)  BY <1>3, <2>1, <2>2
  <2> QED  BY <2>1, <2>3
<1>8. Quiet(u, r, b)  BY <1>1, AtWork DEF Quiet
<1>9. SyncJobs(u, d, r, b)
  BY <1>1, <1>6 DEF Good, SyncJobs, SessionAlike, Alike
<1>10. OpinionJobs(k, u, r, b)  BY <1>1, <1>6 DEF Good, OpinionJobs
<1>11. Completed(s, k, u, d, r, b)
  <2>1. Completed(s, k, t, d, q, b) /\ Len(t.infos) <= Len(s)  BY DEF Good, Announced
  <2>2. ~(t.completed # 0 /\ NewLast(s))  BY <1>2, <2>1 DEF Completed
  <2> QED  BY <1>1, <1>6, <2>1, <2>2 DEF Completed, Synced, SessionAlike, Alike
<1>12. OpinionOnce(q, b) => OpinionOnce(r, b)
  BY DEF OpinionOnce, SessionAlike, Alike
<1>13. Broken(s, t, d) => Broken(s, u, d)  BY <1>1 DEF Broken
<1>14. OneEnd(s, u, d, r, b)  BY <1>1, <1>6, <1>12, <1>13 DEF Good, OneEnd
<1> QED  BY <1>4, <1>5, <1>7, <1>8, <1>9, <1>10, <1>11, <1>14 DEF Good

\* ... and downloads one that it does not have.
LEMMA DownloadKeeps ==
    ASSUME NEW s, NEW k, NEW t, NEW d, NEW q, NEW b, Good(s, k, t, d, q, b),
           NEW r \in Seq(SessionJobs), SessionAlike(q, r), q # <<>>,
           NEW n, n = t.current + 1, n <= Len(t.infos), t.handle = Null,
           t.infos[n] # Null, t.infos[n] \notin d.map,
           NEW u, u = [t EXCEPT !.current = n, !.handle = t.infos[n]],
           NEW e, e = [d EXCEPT !.map = @ \cup {t.infos[n]}]
    PROVE  Good(s, k, u, e, r, b)
<1>1. t.current \in Nat /\ Len(s) \in Nat /\ Len(t.infos) \in Nat /\ n \in 1..Len(t.infos)
  BY DEF Good, Typed, Tasks
<1>2. t.infos[n] = s[n]  BY <1>1 DEF Good, Announced
<1>3. PICK h : h = t.infos[n]  OBVIOUS
<1>4. h \in Contents
  <2>1. t.infos \in Seq(Contents \cup {Null})  BY DEF Good, Typed, Tasks
  <2> QED  BY <1>1, <1>3, <2>1
<1>5. /\ u \in Tasks /\ u.phase = t.phase /\ u.infos = t.infos /\ u.current = n
      /\ u.handle = h /\ u.finish = t.finish /\ u.first = t.first
      /\ u.tree = t.tree /\ u.opinion = t.opinion
      /\ u.calculated = t.calculated /\ u.received = t.received
      /\ u.interrupted = t.interrupted /\ u.removing = t.removing
      /\ u.completed = t.completed /\ u.early = t.early /\ u.ends = t.ends
  <2>1. t \in Tasks  BY DEF Good, Typed
  <2>2. n \in Nat  BY <1>1
  <2>3. u = [t EXCEPT !.current = n, !.handle = h]  BY <1>3
  <2> QED  BY ONLY <1>4, <2>1, <2>2, <2>3 DEF Tasks
<1>6. /\ e \in Drives /\ e.map = d.map \cup {h} /\ e.files = d.files
      /\ e.used = d.used /\ e.tree = d.tree
  BY <1>3, <1>4 DEF Good, Typed, Drives
<1>7. Typed(s, k, u, e, r, b)  BY <1>5, <1>6 DEF Good, Typed
<1>8. Announced(s, u, r)
  <2>1. \A i \in 1..n : t.infos[i] = s[i]  BY <1>1, <1>2 DEF Good, Announced
  <2> QED  BY <1>1, <1>5, <2>1 DEF Good, Announced, SessionAlike
<1>9. /\ SyncWaits(u, b) <=> SyncWaits(t, b)
      /\ Syncing(u, r, b) <=> Syncing(t, q, b)
      /\ Unsynced(u, b) <=> Unsynced(t, b)
      /\ Opining(r, b) <=> Opining(q, b)
  BY <1>5 DEF SyncWaits, Syncing, Unsynced, Opining, SessionAlike, Alike
<1>10. Downloads(s, u, e, b)
  <2> SUFFICES ASSUME Unsynced(t, b)
               PROVE  /\ e.map = Passed(s, n)
                      /\ e.files \subseteq e.map
                      /\ n # 0 /\ h = s[n] /\ h \notin e.files /\ h \notin Passed(s, n - 1)
                      /\ ~t.interrupted => Passed(s, n) \subseteq e.files \cup {h}
    BY <1>5, <1>9 DEF Downloads, HandleIsLast
  <2>1. /\ d.map = Passed(s, t.current)
        /\ d.files \subseteq d.map
        /\ ~t.interrupted => Passed(s, t.current) \subseteq d.files \cup {t.handle}
    BY DEF Good, Downloads
  <2>2. Passed(s, n) = Passed(s, t.current) \cup {h}  BY <1>1, <1>2, <1>3, PassedNext
  <2>3. n # 0 /\ n - 1 = t.current  BY <1>1
  <2>4. d.map \subseteq Contents  BY DEF Good, Typed, Drives
  <2>5. Null \notin d.map  BY <2>4, StreamAssumption
  <2>6. ~t.interrupted => Passed(s, t.current) \subseteq d.files  BY <2>1, <2>5
  <2> QED  BY <1>2, <1>3, <1>6, <2>1, <2>2, <2>3, <2>6
<1>11. Quiet(u, r, b)  BY <1>5, AtWork DEF Quiet
<1>12. SyncJobs(u, e, r, b)
  BY <1>5, <1>6, <1>9 DEF Good, SyncJobs, SessionAlike, Alike
<1>13. OpinionJobs(k, u, r, b)  BY <1>5, <1>9 DEF Good, OpinionJobs
<1>14. Completed(s, k, u, e, r, b)
  <2>1. Completed(s, k, t, d, q, b) /\ Len(t.infos) <= Len(s)  BY DEF Good, Announced
  <2>2. ~(t.completed # 0 /\ NewLast(s))  BY <1>1, <2>1 DEF Completed
  <2> QED  BY <1>5, <1>6, <1>9, <2>1, <2>2 DEF Completed, Synced, SessionAlike, Alike
<1>15. OpinionOnce(q, b) => OpinionOnce(r, b)
  BY DEF OpinionOnce, SessionAlike, Alike
<1>16. Broken(s, t, d) => Broken(s, u, e)  BY <1>3, <1>5, <1>6 DEF Broken
<1>17. OneEnd(s, u, e, r, b)  BY <1>5, <1>9, <1>15, <1>16 DEF Good, OneEnd
<1> QED  BY <1>7, <1>8, <1>10, <1>11, <1>12, <1>13, <1>14, <1>17 DEF Good

\* A chunk is complete.
LEMMA DownloadedKeeps ==
    ASSUME NEW s, NEW k, NEW t, NEW d, NEW q, NEW b, Good(s, k, t, d, q, b),
           NEW r \in Seq(SessionJobs), SessionAlike(q, r),
           NEW c \in Seq(BgJobs), BgAlike(b, c), t.handle # Null,
           NEW u, u = [t EXCEPT !.handle = Null],
           NEW e, e = [d EXCEPT !.files = @ \cup {t.handle}]
    PROVE  Good(s, k, u, e, r, c)
<1>1. t.handle \in Contents  BY DEF Good, Typed, Tasks
<1>2. /\ u \in Tasks /\ u.phase = t.phase /\ u.infos = t.infos /\ u.current = t.current
      /\ u.handle = Null /\ u.finish = t.finish /\ u.first = t.first
      /\ u.tree = t.tree /\ u.opinion = t.opinion
      /\ u.calculated = t.calculated /\ u.received = t.received
      /\ u.interrupted = t.interrupted /\ u.removing = t.removing
      /\ u.completed = t.completed /\ u.early = t.early /\ u.ends = t.ends
  BY DEF Good, Typed, Tasks
<1>3. /\ e \in Drives /\ e.map = d.map /\ e.files = d.files \cup {t.handle}
      /\ e.used = d.used /\ e.tree = d.tree
  BY <1>1 DEF Good, Typed, Drives
<1>4. Typed(s, k, u, e, r, c)  BY <1>2, <1>3 DEF Good, Typed
<1>5. Announced(s, u, r)  BY <1>2 DEF Good, Announced, SessionAlike
<1>6. /\ SyncWaits(u, c) <=> SyncWaits(t, b)
      /\ Syncing(u, r, c) <=> Syncing(t, q, b)
      /\ Unsynced(u, c) <=> Unsynced(t, b)
      /\ Opining(r, c) <=> Opining(q, b)
  BY <1>2 DEF SyncWaits, Syncing, Unsynced, Opining, SessionAlike, BgAlike, Alike
<1>7. Downloads(s, u, e, c)
  <2> SUFFICES ASSUME Unsynced(t, b)
               PROVE  /\ d.map = Passed(s, t.current)
                      /\ e.files \subseteq d.map
                      /\ ~t.interrupted => Passed(s, t.current) \subseteq e.files \cup {Null}
    BY <1>2, <1>3, <1>6 DEF Downloads, HandleIsLast
  <2>1. /\ d.map = Passed(s, t.current)
        /\ d.files \subseteq d.map
        /\ t.current # 0 /\ t.handle = s[t.current]
        /\ ~t.interrupted => Passed(s, t.current) \subseteq d.files \cup {t.handle}
    BY DEF Good, Downloads, HandleIsLast
  <2>2. t.current \in Nat  BY DEF Good, Typed, Tasks
  <2>3. t.handle \in Passed(s, t.current)  BY <2>1, <2>2 DEF Passed
  <2> QED  BY <1>3, <2>1, <2>3
<1>8. Quiet(u, r, c)  BY <1>2, AtWork DEF Quiet
<1>9. SyncJobs(u, e, r, c)
  BY <1>2, <1>3, <1>6 DEF Good, SyncJobs, SessionAlike, BgAlike, Alike
<1>10. OpinionJobs(k, u, r, c)  BY <1>2, <1>6 DEF Good, OpinionJobs
<1>11. Completed(s, k, u, e, r, c)
  <2>1. Completed(s, k, t, d, q, b)  BY DEF Good
  <2>2. t.completed # 0 /\ NewLast(s) => t.handle \in Late(s, t.early)
    BY <2>1 DEF Completed, Late
  <2>3. Synced(s, k, t, d) /\ t.completed # 0 => Synced(s, k, u, e)
    BY <1>2, <1>3, <2>2 DEF Synced
  <2> QED  BY <1>2, <1>3, <1>6, <2>1, <2>3 DEF Completed, SessionAlike, BgAlike, Alike
<1>12. OpinionOnce(q, b) => OpinionOnce(r, c)
  BY DEF OpinionOnce, SessionAlike, BgAlike, Alike
<1>13. Broken(s, t, d) => Broken(s, u, e)
  <2> SUFFICES ASSUME NEW x \in Range(s), x \in d.map \ d.files, x # t.handle
               PROVE  Broken(s, u, e)
    BY DEF Broken
  <2>1. x # Null
    <3>1. d.map \subseteq Contents  BY DEF Good, Typed, Drives
    <3> QED  BY <3>1, StreamAssumption
  <2> QED  BY <1>2, <1>3, <2>1 DEF Broken
<1>14. OneEnd(s, u, e, r, c)  BY <1>2, <1>6, <1>12, <1>13 DEF Good, OneEnd
<1> QED  BY <1>4, <1>5, <1>7, <1>8, <1>9, <1>10, <1>11, <1>14 DEF Good


------------------------------------------------------------------------------
(* The opinion, the synchronization and the end *)

\* The process ends, or the task is deleted.
LEMMA StopKeeps ==
    ASSUME NEW s, NEW k, NEW t, NEW d, NEW q, NEW b, Good(s, k, t, d, q, b),
           NEW p \in {"dead", "over"},
           NEW u, u = [t EXCEPT !.phase = p, !.handle = Null, !.removing = {}]
    PROVE  Good(s, k, u, d, <<>>, <<>>)
<1>1. /\ u \in Tasks /\ u.phase = p /\ u.infos = t.infos
      /\ u.current = t.current /\ u.handle = Null /\ u.finish = t.finish
      /\ u.first = t.first /\ u.tree = t.tree
      /\ u.opinion = t.opinion /\ u.calculated = t.calculated
      /\ u.received = t.received /\ u.interrupted = t.interrupted
      /\ u.removing = {} /\ u.completed = t.completed /\ u.early = t.early
      /\ u.ends = t.ends
  <2>1. t \in Tasks  BY DEF Good, Typed
  <2> QED  BY <2>1 DEF Tasks, Phases
<1>2. \A J : ~Has(<<>>, J) /\ Once(<<>>, J)  BY HasNone
<1>3. Typed(s, k, u, d, <<>>, <<>>)  BY <1>1 DEF Good, Typed
<1>4. Announced(s, u, <<>>)  BY <1>1, <1>2 DEF Good, Announced
<1>5. ~SyncWaits(u, <<>>) /\ ~Syncing(u, <<>>, <<>>) /\ ~Unsynced(u, <<>>) /\ ~Opining(<<>>, <<>>)
  BY <1>1, <1>2 DEF SyncWaits, Syncing, Unsynced, Opining
<1>6. Downloads(s, u, d, <<>>)  BY <1>5 DEF Downloads
<1>7. Quiet(u, <<>>, <<>>)  BY <1>1 DEF Quiet
<1>8. SyncJobs(u, d, <<>>, <<>>)  BY <1>1, <1>2, <1>5 DEF Good, SyncJobs
<1>9. OpinionJobs(k, u, <<>>, <<>>)  BY <1>1, <1>5 DEF Good, OpinionJobs
<1>10. Completed(s, k, u, d, <<>>, <<>>)
  <2>1. Completed(s, k, t, d, q, b)  BY DEF Good
  <2> QED  BY <1>1, <1>2, <1>5, <2>1 DEF Completed, Synced
<1>11. Broken(s, t, d) => Broken(s, u, d)
  <2>1. d.map \subseteq Contents  BY DEF Good, Typed, Drives
  <2> QED  BY <1>1, <2>1, StreamAssumption DEF Broken
<1>12. OneEnd(s, u, d, <<>>, <<>>)
  BY <1>1, <1>2, <1>5, <1>11 DEF Good, OneEnd, OpinionOnce
<1> QED  BY <1>3, <1>4, <1>6, <1>7, <1>8, <1>9, <1>10, <1>12 DEF Good

\* The first completion meets a task that runs.
LEMMA FirstCompletion ==
    ASSUME NEW s, NEW k, NEW t, NEW d, NEW q, NEW b, Good(s, k, t, d, q, b),
           b # <<>>, t.completed = 0
    PROVE  /\ t.phase = "running" /\ Unsynced(t, b) /\ ~Syncing(t, q, b) /\ d.tree = Null
           /\ ~Opining(q, b) /\ ~t.calculated
<1>1. ~Opining(q, b) /\ ~t.calculated  BY DEF Good, OpinionJobs
<1>2. t.phase = "running"
  <2>1. t.phase \in Phases  BY DEF Good, Typed, Tasks
  <2>2. t.phase \notin {"syncing", "ending"}  BY <1>1 DEF Good, SyncJobs
  <2> QED  BY <2>1, <2>2, AtWork DEF Phases
<1> QED  BY <1>1, <1>2 DEF Unsynced, Good, SyncJobs

\* When m_torrentHandleMap has all chunks, the last of them new, all are passed, and
\* only the last one may still be downloaded.
LEMMA AllArePassed ==
    ASSUME NEW s, NEW k, NEW t, NEW d, NEW q, NEW b, Good(s, k, t, d, q, b),
           Unsynced(t, b), Range(s) \subseteq d.map, NewLast(s)
    PROVE  /\ t.current = Len(s) /\ d.map = Range(s)
           /\ t.handle # Null =>
                 t.handle = s[Len(s)] /\ t.handle \in Range(s) /\ t.handle \notin d.files
<1>1. d.map = Passed(s, t.current) /\ HandleIsLast(s, t, d)
  BY DEF Good, Downloads
<1>2. /\ s \in Seq(Contents) /\ s # <<>> /\ t.current \in Nat /\ Len(t.infos) \in Nat
      /\ Len(t.infos) <= Len(s) /\ t.current <= Len(t.infos)
  BY DEF Good, Typed, Tasks, Announced
<1>3. Len(s) \in Nat \ {0} /\ s[Len(s)] \in Range(s)  BY <1>2 DEF Range
<1>4. t.current = Len(s)
  <2>1. PICK i \in 1..t.current : s[i] = s[Len(s)]  BY <1>1, <1>3 DEF Passed
  <2>2. ~(i \in 1..(Len(s) - 1))  BY <2>1 DEF NewLast
  <2> QED  BY <1>2, <1>3, <2>2
<1>5. Passed(s, Len(s)) = Range(s)  BY <1>2, PassedAll
<1> QED  BY <1>1, <1>3, <1>4, <1>5 DEF HandleIsLast

Completion(s, t, d, k, y, f, m, u) ==
    /\ y \in BOOLEAN /\ (y <=> t.early \/ ~(Range(s) \subseteq d.files))
    /\ f \in BOOLEAN
    /\ u = [t EXCEPT !.tree = k, !.early = y, !.full = f, !.completed = m]

\* completeStreamFinishing
LEMMA CompleteKeeps ==
    ASSUME NEW s, NEW k, NEW t, NEW d, NEW q, NEW b, Good(s, k, t, d, q, b),
           b # <<>>, Head(b) = "complete", NEW r \in {q, Append(q, "root")},
           NEW f, NEW y, NEW m, m = IF t.completed < 2 THEN t.completed + 1 ELSE t.completed,
           NEW u, Completion(s, t, d, k, y, f, m, u)
    PROVE  Good(s, k, u, d, r, Tail(b))
<1>0. /\ t \in Tasks /\ t.completed \in 0..2 /\ t.ends \in 0..2 /\ t.early \in BOOLEAN
      /\ q \in Seq(SessionJobs) /\ k \subseteq Range(s)
  BY DEF Good, Typed, Tasks
<1> y \in BOOLEAN /\ (y <=> t.early \/ ~(Range(s) \subseteq d.files))
  BY DEF Completion
<1>1. /\ u \in Tasks /\ u.phase = t.phase /\ u.infos = t.infos
      /\ u.current = t.current /\ u.handle = t.handle /\ u.finish = t.finish
      /\ u.first = t.first /\ u.tree = k
      /\ u.opinion = t.opinion /\ u.calculated = t.calculated
      /\ u.received = t.received /\ u.interrupted = t.interrupted
      /\ u.removing = t.removing /\ u.completed = m /\ u.early = y
      /\ u.ends = t.ends
  <2>1. k \subseteq Contents
    <3>1. s \in Seq(Contents)  BY DEF Good, Typed
    <3>2. Range(s) \subseteq Contents  BY <3>1 DEF Range
    <3> QED  BY <1>0, <3>2
  <2>2. m \in 0..2  BY <1>0
  <2>3. k \in SUBSET Contents  BY <2>1
  <2>4. t \in Tasks  BY <1>0
  <2> QED  BY ONLY <2>2, <2>3, <2>4, Completion(s, t, d, k, y, f, m, u) DEF Completion, Tasks
<1>2. m # 0 /\ (m < 2 => t.completed = 0)  BY <1>0
<1>3. Tail(b) \in Seq(BgJobs) /\ BgAlike(b, Tail(b))
  BY TakeIdleBgJob DEF Good, Typed
<1>4. /\ r \in Seq(SessionJobs)
      /\ Has(r, {"ask"}) => Has(q, {"ask"})
      /\ Alike(q, r, {"synced"})
      /\ Once(q, {"root", "created"}) /\ ~Has(q, {"root", "created"}) => Once(r, {"root", "created"})
  <2>1. CASE r = q  BY <1>0, <2>1 DEF Alike
  <2>2. CASE r = Append(q, "root")
    <3>1. "root" \in SessionJobs  BY DEF SessionJobs
    <3>2. "root" \notin {"ask"} /\ "root" \notin {"synced"}  OBVIOUS
    <3>3. r \in Seq(SessionJobs)  BY <1>0, <2>2, <3>1
    <3>4. Has(r, {"ask"}) => Has(q, {"ask"})  BY <1>0, <2>2, <3>1, <3>2, PostJob
    <3>5. Alike(q, r, {"synced"})  BY <1>0, <2>2, <3>1, <3>2, PostJob DEF Alike
    <3>6. Once(q, {"root", "created"}) /\ ~Has(q, {"root", "created"}) =>
             Once(Append(q, "root"), {"root", "created"})
      BY <1>0, <3>1, PostJob
    <3> QED  BY <2>2, <3>3, <3>4, <3>5, <3>6
  <2> QED  BY <2>1, <2>2
<1>5. Typed(s, k, u, d, r, Tail(b))  BY <1>1, <1>3, <1>4 DEF Good, Typed
<1>6. Announced(s, u, r)  BY <1>1, <1>4 DEF Good, Announced
<1>7. /\ SyncWaits(u, Tail(b)) <=> SyncWaits(t, b)
      /\ Syncing(u, r, Tail(b)) <=> Syncing(t, q, b)
      /\ Unsynced(u, Tail(b)) <=> Unsynced(t, b)
  BY <1>1, <1>3, <1>4 DEF SyncWaits, Syncing, Unsynced, BgAlike, Alike
<1>8. Downloads(s, u, d, Tail(b))  BY <1>1, <1>7 DEF Good, Downloads, HandleIsLast
<1>9. Quiet(u, r, Tail(b))  BY <1>1, AtWork DEF Quiet
<1>10. SyncJobs(u, d, r, Tail(b))
  BY <1>1, <1>3, <1>4, <1>7 DEF Good, SyncJobs, BgAlike, Alike
<1>11. OpinionJobs(k, u, r, Tail(b))  BY <1>1, <1>2 DEF Good, OpinionJobs
<1>12. Completed(s, k, u, d, r, Tail(b))
  <2>1. Completed(s, k, t, d, q, b) /\ Has(b, {"complete"})
    BY <1>0, TakeJob DEF Good, Typed
  <2>2. Late(s, t.early) \subseteq Late(s, y)  BY DEF Late
  <2>3. CASE t.completed # 0
    <3>1. Synced(s, k, t, d) => Synced(s, k, u, d)
      BY <1>1, <2>2 DEF Synced, Late
    <3> QED  BY <1>1, <1>4, <1>7, <2>1, <2>2, <2>3, <3>1 DEF Completed, Alike
  <2>4. CASE t.completed = 0
    <3>1. Unsynced(t, b) /\ ~Syncing(t, q, b) /\ d.tree = Null  BY <2>4, FirstCompletion
    <3>2. Range(s) \subseteq d.map  BY <2>1, <3>1 DEF Completed
    <3>3. NewLast(s) => /\ t.current = Len(s)
                        /\ t.handle # Null => y /\ t.handle = s[Len(s)]
      BY <3>1, <3>2, AllArePassed
    <3> QED  BY <1>1, <1>4, <1>7, <3>1, <3>2, <3>3 DEF Completed, Syncing, Alike
  <2> QED  BY <2>3, <2>4
<1>13. OneEnd(s, u, d, r, Tail(b))
  <2> SUFFICES ASSUME m < 2, ~y, NewLast(s)
               PROVE  /\ OpinionOnce(r, Tail(b)) /\ ~t.calculated
                      /\ t.ends = 0 /\ "break" \notin t.removing
    BY <1>1, <1>2 DEF OneEnd
  <2>1. ~t.early /\ Range(s) \subseteq d.files /\ t.completed = 0  BY <1>2
  <2>2. ~Opining(q, b) /\ ~t.calculated  BY <2>1, FirstCompletion
  <2>3. ~Broken(s, t, d)  BY <2>1 DEF Broken
  <2>4. /\ OpinionOnce(q, b) /\ t.ends < 2 /\ "break" \notin t.removing /\ t.ends # 1
    BY <2>1, <2>3 DEF Good, OneEnd
  <2>5. t.ends = 0  BY <1>0, <2>4
  <2>6. OpinionOnce(r, Tail(b))
    BY <1>3, <1>4, <2>2, <2>4 DEF OpinionOnce, Opining, BgAlike, Alike
  <2> QED  BY <2>2, <2>4, <2>5, <2>6
<1> QED  BY <1>5, <1>6, <1>8, <1>9, <1>10, <1>11, <1>12, <1>13 DEF Good


\* The number of ends after one more.
More(n) == IF n < 2 THEN n + 1 ELSE n

\* A task that was interrupted ends when it comes back with its opinion.
LEMMA OpinionEndKeeps ==
    ASSUME NEW s, NEW k, NEW t, NEW d, NEW q, NEW b, Good(s, k, t, d, q, b),
           q # <<>>, Head(q) \in {"root", "created"}, t.interrupted,
           NEW c \in Seq(BgJobs), BgAlike(b, c),
           NEW u, u = [t EXCEPT !.ends = More(t.ends)]
    PROVE  Good(s, k, u, d, Tail(q), c)
<1>0. t \in Tasks /\ t.ends \in 0..2 /\ q \in Seq(SessionJobs)  BY DEF Good, Typed, Tasks
<1>1. /\ u \in Tasks /\ u.phase = t.phase /\ u.infos = t.infos
      /\ u.current = t.current /\ u.handle = t.handle /\ u.finish = t.finish
      /\ u.first = t.first /\ u.tree = t.tree
      /\ u.opinion = t.opinion /\ u.calculated = t.calculated
      /\ u.received = t.received /\ u.interrupted = t.interrupted
      /\ u.removing = t.removing /\ u.completed = t.completed
      /\ u.early = t.early /\ u.ends = More(t.ends)
  <2>1. More(t.ends) \in 0..2  BY <1>0 DEF More
  <2> QED  BY ONLY <1>0, <2>1, u = [t EXCEPT !.ends = More(t.ends)] DEF Tasks
<1>2. /\ Tail(q) \in Seq(SessionJobs)
      /\ Has(Tail(q), {"ask"}) => Has(q, {"ask"})
      /\ Has(q, {"root", "created"})
      /\ Once(q, {"root", "created"}) =>
            Once(Tail(q), {"root", "created"}) /\ ~Has(Tail(q), {"root", "created"})
  BY <1>0, TakeJob
<1>3. Alike(q, Tail(q), {"synced"})
  <2>1. Head(q) \notin {"synced"}  OBVIOUS
  <2> QED  BY <1>0, <2>1, TakeJob DEF Alike
<1>4. Typed(s, k, u, d, Tail(q), c)  BY <1>1, <1>2 DEF Good, Typed
<1>5. Announced(s, u, Tail(q))  BY <1>1, <1>2 DEF Good, Announced
<1>6. /\ SyncWaits(u, c) <=> SyncWaits(t, b)
      /\ Syncing(u, Tail(q), c) <=> Syncing(t, q, b)
      /\ Unsynced(u, c) <=> Unsynced(t, b)
  BY <1>1, <1>3 DEF SyncWaits, Syncing, Unsynced, BgAlike, Alike
<1>7. Opining(q, b)  BY <1>2 DEF Opining
<1>8. Downloads(s, u, d, c)  BY <1>1, <1>6 DEF Good, Downloads, HandleIsLast
<1>9. Quiet(u, Tail(q), c)  BY <1>1, AtWork DEF Quiet
<1>10. SyncJobs(u, d, Tail(q), c)
  BY <1>1, <1>3, <1>6 DEF Good, SyncJobs, BgAlike, Alike
<1>11. OpinionJobs(k, u, Tail(q), c)  BY <1>1, <1>7 DEF Good, OpinionJobs
<1>12. Completed(s, k, u, d, Tail(q), c)
  BY <1>1, <1>3, <1>6, CompletedAlike DEF BgAlike, Alike
<1>13. OneEnd(s, u, d, Tail(q), c)
  <2> SUFFICES ASSUME t.completed < 2, ~t.early, NewLast(s)
               PROVE  /\ OpinionOnce(Tail(q), c) /\ ~Opining(Tail(q), c)
                      /\ More(t.ends) = 1 /\ "break" \notin t.removing
                      /\ ~Syncing(t, q, b) /\ t.completed # 0
    BY <1>1, <1>6 DEF OneEnd
  <2>1. t.completed # 0  BY <1>7 DEF Good, OpinionJobs
  <2>2. /\ OpinionOnce(q, b) /\ ~t.calculated /\ "break" \notin t.removing
        /\ t.ends < 2 /\ t.ends # 1
    BY <1>7, <2>1 DEF Good, OneEnd
  <2>3. More(t.ends) = 1  BY <1>0, <2>2 DEF More
  <2>4. ~Has(b, {"save"}) /\ ~Has(Tail(q), {"root", "created"}) /\ ~Has(c, {"save"})
    BY <1>2, <2>2 DEF OpinionOnce, BgAlike, Alike
  <2>5. OpinionOnce(Tail(q), c)
    BY <1>2, <2>2, <2>4 DEF OpinionOnce, BgAlike, Alike
  <2>6. ~Syncing(t, q, b)  BY <2>2 DEF Good, SyncJobs
  <2> QED  BY <2>1, <2>2, <2>3, <2>4, <2>5, <2>6 DEF Opining
<1> QED  BY <1>4, <1>5, <1>8, <1>9, <1>10, <1>11, <1>12, <1>13 DEF Good

\* myRootHashIsCalculated, updateCumulativeUploads
LEMMA RootKeeps ==
    ASSUME NEW s, NEW k, NEW t, NEW d, NEW q, NEW b, Good(s, k, t, d, q, b),
           q # <<>>, Head(q) = "root",
           NEW o, o = t.tree,
           NEW u, u = [t EXCEPT !.opinion = o]
    PROVE  Good(s, k, u, d, Tail(q), Append(b, "save"))
<1>0. t \in Tasks /\ q \in Seq(SessionJobs) /\ b \in Seq(BgJobs)  BY DEF Good, Typed
<1>1. /\ u \in Tasks /\ u.phase = t.phase /\ u.infos = t.infos
      /\ u.current = t.current /\ u.handle = t.handle /\ u.finish = t.finish
      /\ u.first = t.first /\ u.tree = t.tree
      /\ u.opinion = o /\ u.calculated = t.calculated
      /\ u.received = t.received /\ u.interrupted = t.interrupted
      /\ u.removing = t.removing /\ u.completed = t.completed
      /\ u.early = t.early /\ u.ends = t.ends
  <2>1. o \in (SUBSET Contents) \cup {Null}  BY <1>0 DEF Tasks
  <2> QED  BY ONLY <1>0, <2>1, u = [t EXCEPT !.opinion = o] DEF Tasks
<1>2. /\ Tail(q) \in Seq(SessionJobs)
      /\ Has(Tail(q), {"ask"}) => Has(q, {"ask"})
      /\ Has(q, {"root", "created"})
      /\ Once(q, {"root", "created"}) =>
            Once(Tail(q), {"root", "created"}) /\ ~Has(Tail(q), {"root", "created"})
  BY <1>0, TakeJob
<1>3. Alike(q, Tail(q), {"synced"})
  <2>1. Head(q) \notin {"synced"}  OBVIOUS
  <2> QED  BY <1>0, <2>1, TakeJob DEF Alike
<1>4. PICK c : c = Append(b, "save")  OBVIOUS
<1>5. /\ c \in Seq(BgJobs)
      /\ Has(c, {"save"})
      /\ Once(b, {"save"}) /\ ~Has(b, {"save"}) => Once(c, {"save"})
      /\ Alike(b, c, {"sync"})
  <2>1. "save" \in BgJobs /\ "save" \notin {"sync"} /\ "save" \in {"save"}  BY DEF BgJobs
  <2>2. /\ c \in Seq(BgJobs) /\ Has(c, {"save"})
        /\ Once(b, {"save"}) /\ ~Has(b, {"save"}) => Once(c, {"save"})
    BY <1>0, <1>4, <2>1, PostJob
  <2>3. Alike(b, c, {"sync"})  BY <1>0, <1>4, <2>1, PostJob DEF Alike
  <2> QED  BY <2>2, <2>3
<1>6. Typed(s, k, u, d, Tail(q), c)  BY <1>1, <1>2, <1>5 DEF Good, Typed
<1>7. Announced(s, u, Tail(q))  BY <1>1, <1>2 DEF Good, Announced
<1>8. /\ SyncWaits(u, c) <=> SyncWaits(t, b)
      /\ Syncing(u, Tail(q), c) <=> Syncing(t, q, b)
      /\ Unsynced(u, c) <=> Unsynced(t, b)
      /\ Opining(q, b)
  BY <1>1, <1>2, <1>3, <1>5 DEF SyncWaits, Syncing, Unsynced, Alike, Opining
<1>9. Downloads(s, u, d, c)  BY <1>1, <1>8 DEF Good, Downloads, HandleIsLast
<1>10. Quiet(u, Tail(q), c)  BY <1>1, AtWork DEF Quiet
<1>11. SyncJobs(u, d, Tail(q), c)
  BY <1>1, <1>3, <1>5, <1>8 DEF Good, SyncJobs, Alike
<1>12. OpinionJobs(k, u, Tail(q), c)  BY <1>1, <1>8 DEF Good, OpinionJobs
<1>13. Completed(s, k, u, d, Tail(q), c)
  <2>1. Has(c, {"complete"}) => Has(b, {"complete"})
    <3>1. "save" \in BgJobs /\ "save" \notin {"complete"}  BY DEF BgJobs
    <3> QED  BY <1>0, <1>4, <3>1, PostJob
  <2> QED  BY <1>1, <1>3, <1>8, <2>1, CompletedAlike DEF Alike
<1>14. OneEnd(s, u, d, Tail(q), c)
  <2>1. Broken(s, t, d) => Broken(s, u, d)  BY <1>1 DEF Broken
  <2>2. OpinionOnce(q, b) => OpinionOnce(Tail(q), c)  BY <1>2, <1>5 DEF OpinionOnce
  <2> QED  BY <1>1, <1>8, <2>1, <2>2 DEF Good, OneEnd
<1> QED  BY <1>4, <1>6, <1>7, <1>9, <1>10, <1>11, <1>12, <1>13, <1>14 DEF Good

\* The uploads are saved, and the job calls back.
LEMMA SaveKeeps ==
    ASSUME NEW s, NEW k, NEW t, NEW d, NEW q, NEW b, Good(s, k, t, d, q, b),
           b # <<>>, Head(b) = "save"
    PROVE  Good(s, k, t, d, Append(q, "created"), Tail(b))
<1>0. t \in Tasks /\ q \in Seq(SessionJobs) /\ b \in Seq(BgJobs)  BY DEF Good, Typed
<1>1. PICK r : r = Append(q, "created")  OBVIOUS
<1>2. /\ r \in Seq(SessionJobs)
      /\ Has(r, {"ask"}) => Has(q, {"ask"})
      /\ Has(r, {"root", "created"})
      /\ Once(q, {"root", "created"}) /\ ~Has(q, {"root", "created"}) =>
            Once(r, {"root", "created"})
      /\ Alike(q, r, {"synced"})
  <2>1. "created" \in SessionJobs /\ "created" \notin {"synced"} /\ "created" \notin {"ask"}
    BY DEF SessionJobs
  <2>2. /\ r \in Seq(SessionJobs) /\ Has(r, {"root", "created"})
        /\ Once(q, {"root", "created"}) /\ ~Has(q, {"root", "created"}) =>
              Once(r, {"root", "created"})
    BY <1>0, <1>1, <2>1, PostJob
  <2>3. Has(r, {"ask"}) => Has(q, {"ask"})  BY <1>0, <1>1, <2>1, PostJob
  <2>4. Alike(q, r, {"synced"})  BY <1>0, <1>1, <2>1, PostJob DEF Alike
  <2> QED  BY <2>2, <2>3, <2>4
<1>3. /\ Tail(b) \in Seq(BgJobs) /\ Has(b, {"save"})
      /\ Once(b, {"save"}) => Once(Tail(b), {"save"}) /\ ~Has(Tail(b), {"save"})
  BY <1>0, TakeJob
<1>4. Alike(b, Tail(b), {"sync"})
  <2>1. Head(b) \notin {"sync"}  OBVIOUS
  <2> QED  BY <1>0, <2>1, TakeJob DEF Alike
<1>5. Typed(s, k, t, d, r, Tail(b))  BY <1>2, <1>3 DEF Good, Typed
<1>6. Announced(s, t, r)  BY <1>2 DEF Good, Announced
<1>7. /\ SyncWaits(t, Tail(b)) <=> SyncWaits(t, b)
      /\ Syncing(t, r, Tail(b)) <=> Syncing(t, q, b)
      /\ Unsynced(t, Tail(b)) <=> Unsynced(t, b)
      /\ Opining(q, b)
  BY <1>2, <1>3, <1>4 DEF SyncWaits, Syncing, Unsynced, Alike, Opining
<1>8. Downloads(s, t, d, Tail(b))  BY <1>7 DEF Good, Downloads
<1>9. Quiet(t, r, Tail(b))  BY AtWork DEF Quiet
<1>10. SyncJobs(t, d, r, Tail(b))  BY <1>2, <1>4, <1>7 DEF Good, SyncJobs, Alike
<1>11. OpinionJobs(k, t, r, Tail(b))  BY <1>7 DEF Good, OpinionJobs
<1>12. Completed(s, k, t, d, r, Tail(b))
  <2>1. Has(Tail(b), {"complete"}) => Has(b, {"complete"})  BY <1>0, TakeJob
  <2> QED  BY <1>2, <1>7, <2>1, CompletedAlike DEF Alike
<1>13. OneEnd(s, t, d, r, Tail(b))
  <2>1. OpinionOnce(q, b) => OpinionOnce(r, Tail(b))  BY <1>2, <1>3 DEF OpinionOnce
  <2> QED  BY <1>7, <2>1 DEF Good, OneEnd
<1> QED  BY <1>1, <1>5, <1>6, <1>8, <1>9, <1>10, <1>11, <1>12, <1>13 DEF Good

\* myOpinionIsCreated
LEMMA CreatedKeeps ==
    ASSUME NEW s, NEW k, NEW t, NEW d, NEW q, NEW b, Good(s, k, t, d, q, b),
           q # <<>>, Head(q) = "created", ~t.interrupted,
           NEW u, u = [t EXCEPT !.calculated = TRUE]
    PROVE  Good(s, k, u, d, Tail(q), b)
<1>0. t \in Tasks /\ t.ends \in 0..2 /\ q \in Seq(SessionJobs)  BY DEF Good, Typed, Tasks
<1>1. /\ u \in Tasks /\ u.phase = t.phase /\ u.infos = t.infos
      /\ u.current = t.current /\ u.handle = t.handle /\ u.finish = t.finish
      /\ u.first = t.first /\ u.tree = t.tree
      /\ u.opinion = t.opinion /\ u.calculated = TRUE
      /\ u.received = t.received /\ u.interrupted = t.interrupted
      /\ u.removing = t.removing /\ u.completed = t.completed
      /\ u.early = t.early /\ u.ends = t.ends
  BY ONLY <1>0, u = [t EXCEPT !.calculated = TRUE] DEF Tasks
<1>2. /\ Tail(q) \in Seq(SessionJobs)
      /\ Has(Tail(q), {"ask"}) => Has(q, {"ask"})
      /\ Has(q, {"root", "created"})
      /\ Once(q, {"root", "created"}) =>
            Once(Tail(q), {"root", "created"}) /\ ~Has(Tail(q), {"root", "created"})
  BY <1>0, TakeJob
<1>3. Alike(q, Tail(q), {"synced"})
  <2>1. Head(q) \notin {"synced"}  OBVIOUS
  <2> QED  BY <1>0, <2>1, TakeJob DEF Alike
<1>4. Typed(s, k, u, d, Tail(q), b)  BY <1>1, <1>2 DEF Good, Typed
<1>5. Announced(s, u, Tail(q))  BY <1>1, <1>2 DEF Good, Announced
<1>6. /\ SyncWaits(u, b) <=> SyncWaits(t, b)
      /\ Syncing(u, Tail(q), b) <=> Syncing(t, q, b)
      /\ Unsynced(u, b) <=> Unsynced(t, b)
      /\ Opining(q, b)
  BY <1>1, <1>2, <1>3 DEF SyncWaits, Syncing, Unsynced, Alike, Opining
<1>7. Downloads(s, u, d, b)  BY <1>1, <1>6 DEF Good, Downloads, HandleIsLast
<1>8. Quiet(u, Tail(q), b)  BY <1>1, AtWork DEF Quiet
<1>9. SyncJobs(u, d, Tail(q), b)  BY <1>1, <1>3, <1>6 DEF Good, SyncJobs, Alike
<1>10. t.completed # 0  BY <1>6 DEF Good, OpinionJobs
<1>11. OpinionJobs(k, u, Tail(q), b)  BY <1>1, <1>10 DEF Good, OpinionJobs
<1>12. Completed(s, k, u, d, Tail(q), b)
  BY <1>1, <1>3, <1>6, CompletedAlike DEF Alike
<1>13. OneEnd(s, u, d, Tail(q), b)
  <2> SUFFICES ASSUME t.completed < 2, ~t.early, NewLast(s)
               PROVE  /\ OpinionOnce(Tail(q), b) /\ ~Opining(Tail(q), b)
                      /\ t.ends < 2 /\ t.ends # 1 /\ "break" \notin t.removing
    BY <1>1, <1>6 DEF OneEnd
  <2>1. /\ OpinionOnce(q, b) /\ "break" \notin t.removing /\ t.ends < 2 /\ t.ends # 1
    BY <1>6, <1>10 DEF Good, OneEnd
  <2>2. ~Has(b, {"save"}) /\ ~Has(Tail(q), {"root", "created"})
    BY <1>2, <2>1 DEF OpinionOnce
  <2>3. OpinionOnce(Tail(q), b)  BY <1>2, <2>1, <2>2 DEF OpinionOnce
  <2> QED  BY <2>1, <2>2, <2>3 DEF Opining
<1> QED  BY <1>4, <1>5, <1>7, <1>8, <1>9, <1>11, <1>12, <1>13 DEF Good


\* breakTorrentDownloadAndRunNextTask, which may follow an approval: the task
\* is interrupted, and
\*   - its torrents are removed, ...
Breaks(t, u, z) ==
    /\ u \in Tasks /\ u.phase = t.phase /\ u.infos = t.infos
    /\ u.current = t.current /\ u.handle = Null /\ u.finish = t.finish
    /\ u.first = t.first /\ u.tree = t.tree
    /\ u.opinion = t.opinion /\ u.calculated = t.calculated
    /\ u.received = z /\ u.interrupted = TRUE
    /\ u.removing = t.removing \cup {"break"} /\ u.completed = t.completed
    /\ u.early = t.early /\ u.ends = t.ends

\*   - it ends, ...
EndsNow(t, u, z) ==
    /\ u \in Tasks /\ u.phase = t.phase /\ u.infos = t.infos
    /\ u.current = t.current /\ u.handle = t.handle /\ u.finish = t.finish
    /\ u.first = t.first /\ u.tree = t.tree
    /\ u.opinion = t.opinion /\ u.calculated = t.calculated
    /\ u.received = z /\ u.interrupted = TRUE /\ u.removing = t.removing
    /\ u.completed = t.completed /\ u.early = t.early
    /\ u.ends = More(t.ends)

\*   - or it comes to its end later.
EndsLater(t, u, z) ==
    /\ u \in Tasks /\ u.phase = t.phase /\ u.infos = t.infos
    /\ u.current = t.current /\ u.handle = t.handle /\ u.finish = t.finish
    /\ u.first = t.first /\ u.tree = t.tree
    /\ u.opinion = t.opinion /\ u.calculated = t.calculated
    /\ u.received = z /\ u.interrupted = TRUE /\ u.removing = t.removing
    /\ u.completed = t.completed /\ u.early = t.early /\ u.ends = t.ends

MayBreak(t, z) ==
    /\ ~t.interrupted /\ t.phase \in {"running", "syncing"}
    /\ z = t.received \/ (z = TRUE /\ ~t.calculated /\ t.phase = "running")

LEMMA BreaksKeeps ==
    ASSUME NEW s, NEW k, NEW t, NEW d, NEW q, NEW b, Good(s, k, t, d, q, b),
           NEW u, NEW z, MayBreak(t, z), t.handle # Null, Breaks(t, u, z)
    PROVE  Good(s, k, u, d, q, b)
<1>1. Typed(s, k, u, d, q, b)  BY DEF Good, Typed, Breaks
<1>2. Announced(s, u, q)  BY DEF Good, Announced, Breaks
<1>3. /\ SyncWaits(u, b) <=> SyncWaits(t, b)
      /\ Syncing(u, q, b) <=> Syncing(t, q, b)
      /\ Unsynced(u, b) <=> Unsynced(t, b)
  BY DEF SyncWaits, Syncing, Unsynced, Breaks
<1>4. Downloads(s, u, d, b)  BY <1>3 DEF Good, Downloads, HandleIsLast, Breaks
<1>5. Quiet(u, q, b)  BY DEF Quiet, Breaks, MayBreak
<1>6. SyncJobs(u, d, q, b)
  <2>1. "sync" \in u.removing <=> "sync" \in t.removing  BY DEF Breaks
  <2> QED  BY <1>3, <2>1 DEF Good, SyncJobs, Breaks, MayBreak
<1>7. OpinionJobs(k, u, q, b)  BY DEF Good, OpinionJobs, Breaks
<1>8. Completed(s, k, u, d, q, b)  BY <1>3, CompletedAlike DEF Breaks
<1>9. OneEnd(s, u, d, q, b)
  <2> SUFFICES ASSUME t.completed < 2, ~t.early, NewLast(s)
               PROVE  /\ OpinionOnce(q, b) /\ (t.calculated => ~Opining(q, b))
                      /\ t.ends < 2 /\ t.ends = 0 /\ t.completed = 0 /\ Broken(s, u, d)
    BY DEF OneEnd, Breaks
  <2>1. t.completed = 0  BY DEF Good, Completed
  <2>2. t.phase = "running"  BY <2>1 DEF Good, OpinionJobs, SyncJobs, MayBreak
  <2>3. /\ OpinionOnce(q, b) /\ (t.calculated => ~Opining(q, b)) /\ t.ends < 2 /\ t.ends # 1
    BY <2>2 DEF Good, OneEnd, MayBreak
  <2>4. t.ends = 0
    <3>1. t.ends \in 0..2  BY DEF Good, Typed, Tasks
    <3> QED  BY <2>3, <3>1
  <2>5. Broken(s, u, d)
    <3>1. /\ d.map = Passed(s, t.current) /\ t.current # 0
          /\ t.handle = s[t.current] /\ t.handle \notin d.files
      BY <2>2 DEF Good, Downloads, Unsynced, HandleIsLast
    <3>2. /\ s \in Seq(Contents) /\ t.current \in Nat /\ Len(t.infos) \in Nat
          /\ t.current <= Len(t.infos) /\ Len(t.infos) <= Len(s)
      BY DEF Good, Typed, Tasks, Announced
    <3>3. t.current \in 1..Len(s)  BY <3>1, <3>2
    <3>4. t.handle \in Range(s) /\ t.handle \in d.map  BY <3>1, <3>2, <3>3 DEF Range, Passed
    <3> QED  BY <3>1, <3>4 DEF Broken, Breaks
  <2> QED  BY <2>1, <2>3, <2>4, <2>5
<1> QED  BY <1>1, <1>2, <1>4, <1>5, <1>6, <1>7, <1>8, <1>9 DEF Good

LEMMA EndsNowKeeps ==
    ASSUME NEW s, NEW k, NEW t, NEW d, NEW q, NEW b, Good(s, k, t, d, q, b),
           NEW c \in Seq(BgJobs), BgAlike(b, c),
           NEW u, NEW z, MayBreak(t, z), t.calculated, ~z, EndsNow(t, u, z)
    PROVE  Good(s, k, u, d, q, c)
<1>1. Typed(s, k, u, d, q, c)  BY DEF Good, Typed, EndsNow
<1>2. Announced(s, u, q)  BY DEF Good, Announced, EndsNow
<1>3. /\ SyncWaits(u, c) <=> SyncWaits(t, b)
      /\ Syncing(u, q, c) <=> Syncing(t, q, b)
      /\ Unsynced(u, c) <=> Unsynced(t, b)
      /\ Opining(q, c) <=> Opining(q, b)
  BY DEF SyncWaits, Syncing, Unsynced, Opining, EndsNow, BgAlike, Alike
<1>4. Downloads(s, u, d, c)  BY <1>3 DEF Good, Downloads, HandleIsLast, EndsNow
<1>5. Quiet(u, q, c)  BY DEF Quiet, EndsNow, MayBreak
<1>6. t.received = FALSE
  <2>1. t.received \in BOOLEAN  BY DEF Good, Typed, Tasks
  <2> QED  BY <2>1 DEF MayBreak
<1>7. SyncJobs(u, d, q, c)
  BY <1>3 DEF Good, SyncJobs, EndsNow, MayBreak, BgAlike, Alike
<1>8. OpinionJobs(k, u, q, c)  BY <1>3 DEF Good, OpinionJobs, EndsNow
<1>9. Completed(s, k, u, d, q, c)  BY <1>3, CompletedAlike DEF EndsNow, BgAlike
<1>10. OneEnd(s, u, d, q, c)
  <2> SUFFICES ASSUME t.completed < 2, ~t.early, NewLast(s)
               PROVE  /\ OpinionOnce(q, c) /\ ~Opining(q, b) /\ More(t.ends) = 1
                      /\ "break" \notin t.removing /\ ~Syncing(t, q, b) /\ t.completed # 0
    BY <1>3 DEF OneEnd, EndsNow
  <2>1. t.completed # 0  BY DEF Good, OpinionJobs
  <2>2. ~Syncing(t, q, b) /\ t.phase = "running"  BY <1>6 DEF Good, SyncJobs, MayBreak
  <2>3. /\ OpinionOnce(q, b) /\ ~Opining(q, b) /\ "break" \notin t.removing
        /\ t.ends < 2 /\ t.ends # 1
    BY <2>1, <2>2 DEF Good, OneEnd, MayBreak
  <2>4. More(t.ends) = 1
    <3>1. t.ends \in 0..2  BY DEF Good, Typed, Tasks
    <3> QED  BY <2>3, <3>1 DEF More
  <2>5. OpinionOnce(q, c)  BY <2>3 DEF OpinionOnce, BgAlike, Alike
  <2> QED  BY <2>1, <2>2, <2>3, <2>4, <2>5
<1> QED  BY <1>1, <1>2, <1>4, <1>5, <1>7, <1>8, <1>9, <1>10 DEF Good

LEMMA EndsLaterKeeps ==
    ASSUME NEW s, NEW k, NEW t, NEW d, NEW q, NEW b, Good(s, k, t, d, q, b),
           NEW u, NEW z, MayBreak(t, z), EndsLater(t, u, z)
    PROVE  Good(s, k, u, d, q, b)
<1>1. Typed(s, k, u, d, q, b)  BY DEF Good, Typed, EndsLater
<1>2. Announced(s, u, q)  BY DEF Good, Announced, EndsLater
<1>3. /\ SyncWaits(u, b) <=> SyncWaits(t, b)
      /\ Syncing(u, q, b) <=> Syncing(t, q, b)
      /\ Unsynced(u, b) <=> Unsynced(t, b)
  BY DEF SyncWaits, Syncing, Unsynced, EndsLater
<1>4. Downloads(s, u, d, b)  BY <1>3 DEF Good, Downloads, HandleIsLast, EndsLater
<1>5. Quiet(u, q, b)  BY DEF Quiet, EndsLater, MayBreak
<1>6. SyncJobs(u, d, q, b)  BY <1>3 DEF Good, SyncJobs, EndsLater, MayBreak
<1>7. OpinionJobs(k, u, q, b)  BY DEF Good, OpinionJobs, EndsLater
<1>8. Completed(s, k, u, d, q, b)  BY <1>3, CompletedAlike DEF EndsLater
<1>9. OneEnd(s, u, d, q, b)
  <2>1. Broken(s, t, d) => Broken(s, u, d)  BY DEF Broken, EndsLater
  <2> QED  BY <1>3, <2>1 DEF Good, OneEnd, EndsLater, MayBreak
<1> QED  BY <1>1, <1>2, <1>4, <1>5, <1>6, <1>7, <1>8, <1>9 DEF Good

\* The torrents of a task that was interrupted are removed: it ends.
LEMMA BreakEndKeeps ==
    ASSUME NEW s, NEW k, NEW t, NEW d, NEW q, NEW b, Good(s, k, t, d, q, b),
           NEW c \in Seq(BgJobs), BgAlike(b, c), "break" \in t.removing,
           NEW u, u = [t EXCEPT !.removing = @ \ {"break"}, !.ends = More(t.ends)]
    PROVE  Good(s, k, u, d, q, c)
<1>0. t \in Tasks /\ t.ends \in 0..2 /\ t.removing \in SUBSET {"break", "sync"}
  BY DEF Good, Typed, Tasks
<1>1. /\ u \in Tasks /\ u.phase = t.phase /\ u.infos = t.infos
      /\ u.current = t.current /\ u.handle = t.handle /\ u.finish = t.finish
      /\ u.first = t.first /\ u.tree = t.tree
      /\ u.opinion = t.opinion /\ u.calculated = t.calculated
      /\ u.received = t.received /\ u.interrupted = t.interrupted
      /\ u.removing = t.removing \ {"break"} /\ u.completed = t.completed
      /\ u.early = t.early /\ u.ends = More(t.ends)
  <2>1. More(t.ends) \in 0..2  BY <1>0 DEF More
  <2>2. PICK m : m = t.removing \ {"break"}  OBVIOUS
  <2>3. m \in SUBSET {"break", "sync"}  BY <1>0, <2>2
  <2>4. u = [t EXCEPT !.removing = m, !.ends = More(t.ends)]  BY <2>2
  <2>5. t \in Tasks  BY <1>0
  <2> QED  BY ONLY <2>1, <2>2, <2>3, <2>4, <2>5 DEF Tasks
<1>2. "sync" \in u.removing <=> "sync" \in t.removing  BY <1>1
<1>3. /\ SyncWaits(u, c) <=> SyncWaits(t, b)
      /\ Syncing(u, q, c) <=> Syncing(t, q, b)
      /\ Unsynced(u, c) <=> Unsynced(t, b)
      /\ Opining(q, c) <=> Opining(q, b)
  BY <1>1, <1>2 DEF SyncWaits, Syncing, Unsynced, Opining, BgAlike, Alike
<1>4. Typed(s, k, u, d, q, c)  BY <1>1 DEF Good, Typed
<1>5. Announced(s, u, q)  BY <1>1 DEF Good, Announced
<1>6. Downloads(s, u, d, c)  BY <1>1, <1>3 DEF Good, Downloads, HandleIsLast
<1>7. Quiet(u, q, c)  BY <1>1, AtWork DEF Quiet
<1>8. SyncJobs(u, d, q, c)  BY <1>1, <1>2, <1>3 DEF Good, SyncJobs, BgAlike, Alike
<1>9. OpinionJobs(k, u, q, c)  BY <1>1, <1>3 DEF Good, OpinionJobs
<1>10. Completed(s, k, u, d, q, c)  BY <1>1, <1>2, <1>3, CompletedAlike DEF BgAlike
<1>11. OneEnd(s, u, d, q, c)
  <2> SUFFICES ASSUME t.completed < 2, ~t.early, NewLast(s)
               PROVE  /\ OpinionOnce(q, c) /\ ~Opining(q, b) /\ More(t.ends) = 1
                      /\ ~Syncing(t, q, b) /\ Broken(s, u, d) /\ t.interrupted
    BY <1>1, <1>3 DEF OneEnd
  <2>1. /\ OpinionOnce(q, b) /\ t.interrupted /\ t.ends = 0 /\ t.completed = 0
        /\ Broken(s, t, d)
    BY DEF Good, OneEnd
  <2>2. ~Opining(q, b) /\ ~t.calculated  BY <2>1 DEF Good, OpinionJobs
  <2>3. ~Syncing(t, q, b)  BY <2>2 DEF Good, SyncJobs
  <2>4. OpinionOnce(q, c)  BY <2>1 DEF OpinionOnce, BgAlike, Alike
  <2>5. Broken(s, u, d)  BY <1>1, <2>1 DEF Broken
  <2>6. More(t.ends) = 1  BY <2>1 DEF More
  <2> QED  BY <2>1, <2>2, <2>3, <2>4, <2>5, <2>6
<1> QED  BY <1>4, <1>5, <1>6, <1>7, <1>8, <1>9, <1>10, <1>11 DEF Good


\* onApprovalTxPublished: the drive is going to be synchronized with the
\* sandbox, ...
LEMMA SyncStartKeeps ==
    ASSUME NEW s, NEW k, NEW t, NEW d, NEW q, NEW b, Good(s, k, t, d, q, b),
           t.phase = "running", ~t.interrupted, t.calculated,
           NEW u, u = [t EXCEPT !.received = TRUE, !.phase = "syncing",
                                !.removing = @ \cup {"sync"}],
           NEW e, e = [d EXCEPT !.used = d.map \cap t.tree]
    PROVE  Good(s, k, u, e, q, b)
<1>0. t \in Tasks /\ d \in Drives /\ t.removing \in SUBSET {"break", "sync"}
  BY DEF Good, Typed, Tasks
<1>1. /\ u \in Tasks /\ u.phase = "syncing" /\ u.infos = t.infos
      /\ u.current = t.current /\ u.handle = t.handle /\ u.finish = t.finish
      /\ u.first = t.first /\ u.tree = t.tree
      /\ u.opinion = t.opinion /\ u.calculated = t.calculated
      /\ u.received = TRUE /\ u.interrupted = t.interrupted
      /\ u.removing = t.removing \cup {"sync"} /\ u.completed = t.completed
      /\ u.early = t.early /\ u.ends = t.ends
  <2>1. PICK m : m = t.removing \cup {"sync"}  OBVIOUS
  <2>2. m \in SUBSET {"break", "sync"}  BY <1>0, <2>1
  <2>3. u = [t EXCEPT !.received = TRUE, !.phase = "syncing", !.removing = m]  BY <2>1
  <2>4. t \in Tasks  BY <1>0
  <2> QED  BY ONLY <2>1, <2>2, <2>3, <2>4 DEF Tasks, Phases
<1>2. /\ e \in Drives /\ e.map = d.map /\ e.files = d.files
      /\ e.used = d.map \cap t.tree /\ e.tree = d.tree
  BY <1>0 DEF Drives
<1>3. ~Syncing(t, q, b) /\ Unsynced(t, b) /\ t.completed # 0
  BY DEF Good, SyncJobs, OpinionJobs, Unsynced
<1>4. SyncWaits(u, b) /\ Syncing(u, q, b) /\ Unsynced(u, b)
  BY <1>1 DEF SyncWaits, Syncing, Unsynced
<1>5. Typed(s, k, u, e, q, b)  BY <1>1, <1>2 DEF Good, Typed
<1>6. Announced(s, u, q)  BY <1>1 DEF Good, Announced
<1>7. Downloads(s, u, e, b)  BY <1>1, <1>2, <1>3 DEF Good, Downloads, HandleIsLast
<1>8. Quiet(u, q, b)  BY <1>1 DEF Quiet
<1>9. d.tree = Null  BY DEF Good, SyncJobs
<1>10. SyncJobs(u, e, q, b)
  BY <1>1, <1>2, <1>3, <1>4, <1>9 DEF Good, SyncJobs, Syncing, SyncWaits
<1>11. OpinionJobs(k, u, q, b)  BY <1>1 DEF Good, OpinionJobs
<1>12. Completed(s, k, u, e, q, b)
  <2>1. Completed(s, k, t, d, q, b) /\ t.tree = k /\ k \subseteq Range(s)
    BY <1>3 DEF Good, OpinionJobs, Typed
  <2>2. Range(s) \subseteq d.map /\ (~t.early => Range(s) \subseteq d.files)
    BY <1>3, <2>1 DEF Completed
  <2>3. d.map \cap t.tree = k  BY <2>1, <2>2
  <2>4. ASSUME NewLast(s)
        PROVE  /\ t.current = Len(s) /\ (t.handle # Null => t.early /\ t.handle = s[Len(s)])
               /\ Range(s) \subseteq d.files \cup Late(s, t.early)
    <3>1. /\ t.current = Len(s) /\ (t.handle # Null => t.early /\ t.handle = s[Len(s)])
      BY <1>3, <2>1, <2>4 DEF Completed
    <3>2. d.map \subseteq d.files \cup {t.handle}  BY <1>3 DEF Good, Downloads
    <3>3. Null \notin d.map  BY <1>0, StreamAssumption DEF Drives
    <3> QED  BY <2>2, <3>1, <3>2, <3>3 DEF Late
  <2>5. ~Has(q, {"synced"})  BY <1>3 DEF Syncing
  <2> QED  BY <1>1, <1>2, <1>9, <2>2, <2>3, <2>4, <2>5 DEF Completed
<1>13. OneEnd(s, u, e, q, b)
  <2>1. "break" \in u.removing <=> "break" \in t.removing  BY <1>1
  <2> QED  BY <1>1, <1>3, <2>1 DEF Good, OneEnd
<1> QED  BY <1>5, <1>6, <1>7, <1>8, <1>10, <1>11, <1>12, <1>13 DEF Good

\* ... the torrents are removed, ...
LEMMA SyncGoesOn ==
    ASSUME NEW s, NEW k, NEW t, NEW d, NEW q, NEW b, Good(s, k, t, d, q, b),
           "sync" \in t.removing,
           NEW u, u = [t EXCEPT !.removing = @ \ {"sync"}]
    PROVE  Good(s, k, u, d, q, Append(b, "sync"))
<1>0. t \in Tasks /\ b \in Seq(BgJobs) /\ t.removing \in SUBSET {"break", "sync"}
  BY DEF Good, Typed, Tasks
<1>1. /\ u \in Tasks /\ u.phase = t.phase /\ u.infos = t.infos
      /\ u.current = t.current /\ u.handle = t.handle /\ u.finish = t.finish
      /\ u.first = t.first /\ u.tree = t.tree
      /\ u.opinion = t.opinion /\ u.calculated = t.calculated
      /\ u.received = t.received /\ u.interrupted = t.interrupted
      /\ u.removing = t.removing \ {"sync"} /\ u.completed = t.completed
      /\ u.early = t.early /\ u.ends = t.ends
  <2>1. PICK m : m = t.removing \ {"sync"}  OBVIOUS
  <2>2. m \in SUBSET {"break", "sync"}  BY <1>0, <2>1
  <2>3. u = [t EXCEPT !.removing = m]  BY <2>1
  <2>4. t \in Tasks  BY <1>0
  <2> QED  BY ONLY <2>1, <2>2, <2>3, <2>4 DEF Tasks
<1>2. PICK c : c = Append(b, "sync")  OBVIOUS
<1>3. /\ c \in Seq(BgJobs) /\ Has(c, {"sync"})
      /\ Once(b, {"sync"}) /\ ~Has(b, {"sync"}) => Once(c, {"sync"})
      /\ Alike(b, c, {"save"})
  <2>1. "sync" \in BgJobs /\ "sync" \notin {"save"} /\ "sync" \in {"sync"}  BY DEF BgJobs
  <2>2. /\ c \in Seq(BgJobs) /\ Has(c, {"sync"})
        /\ Once(b, {"sync"}) /\ ~Has(b, {"sync"}) => Once(c, {"sync"})
    BY <1>0, <1>2, <2>1, PostJob
  <2>3. Alike(b, c, {"save"})  BY <1>0, <1>2, <2>1, PostJob DEF Alike
  <2> QED  BY <2>2, <2>3
<1>4. /\ SyncWaits(u, c) /\ SyncWaits(t, b)
      /\ Syncing(u, q, c) /\ Syncing(t, q, b)
      /\ Unsynced(u, c) /\ Unsynced(t, b)
      /\ Opining(q, c) <=> Opining(q, b)
  BY <1>3 DEF SyncWaits, Syncing, Unsynced, Opining, Alike
<1>5. Typed(s, k, u, d, q, c)  BY <1>1, <1>3 DEF Good, Typed
<1>6. Announced(s, u, q)  BY <1>1 DEF Good, Announced
<1>7. Downloads(s, u, d, c)  BY <1>1, <1>4 DEF Good, Downloads, HandleIsLast
<1>8. Quiet(u, q, c)  BY <1>1, AtWork DEF Quiet
<1>9. SyncJobs(u, d, q, c)  BY <1>1, <1>3, <1>4 DEF Good, SyncJobs
<1>10. OpinionJobs(k, u, q, c)  BY <1>1, <1>4 DEF Good, OpinionJobs
<1>11. Completed(s, k, u, d, q, c)
  <2>1. Has(c, {"complete"}) => Has(b, {"complete"})
    <3>1. "sync" \in BgJobs /\ "sync" \notin {"complete"}  BY DEF BgJobs
    <3> QED  BY <1>0, <1>2, <3>1, PostJob
  <2> QED  BY <1>1, <1>4, <2>1, CompletedAlike
<1>12. OneEnd(s, u, d, q, c)
  <2>1. "break" \in u.removing <=> "break" \in t.removing  BY <1>1
  <2>2. Broken(s, t, d) => Broken(s, u, d)  BY <1>1 DEF Broken
  <2>3. OpinionOnce(q, b) => OpinionOnce(q, c)  BY <1>3 DEF OpinionOnce, Alike
  <2> QED  BY <1>1, <1>4, <2>1, <2>2, <2>3 DEF Good, OneEnd
<1> QED  BY <1>2, <1>5, <1>6, <1>7, <1>8, <1>9, <1>10, <1>11, <1>12 DEF Good

\* ... the unused files are removed, ...
LEMMA SynchronizeKeeps ==
    ASSUME NEW s, NEW k, NEW t, NEW d, NEW q, NEW b, Good(s, k, t, d, q, b),
           b # <<>>, Head(b) = "sync",
           NEW e, e = [d EXCEPT !.files = @ \ (d.map \ d.used), !.map = d.used]
    PROVE  Good(s, k, t, e, Append(q, "synced"), Tail(b))
<1>0. /\ t \in Tasks /\ d \in Drives /\ q \in Seq(SessionJobs) /\ b \in Seq(BgJobs)
  BY DEF Good, Typed
<1>1. /\ e \in Drives /\ e.map = d.used /\ e.files = d.files \ (d.map \ d.used)
      /\ e.used = d.used /\ e.tree = d.tree
  BY <1>0 DEF Drives
<1>2. PICK r : r = Append(q, "synced")  OBVIOUS
<1>3. /\ r \in Seq(SessionJobs) /\ Has(r, {"synced"})
      /\ Has(r, {"ask"}) => Has(q, {"ask"})
      /\ Once(q, {"synced"}) /\ ~Has(q, {"synced"}) => Once(r, {"synced"})
      /\ Alike(q, r, {"root", "created"})
  <2>1. /\ "synced" \in SessionJobs /\ "synced" \notin {"ask"}
        /\ "synced" \notin {"root", "created"} /\ "synced" \in {"synced"}
    BY DEF SessionJobs
  <2>2. /\ r \in Seq(SessionJobs) /\ Has(r, {"synced"})
        /\ Once(q, {"synced"}) /\ ~Has(q, {"synced"}) => Once(r, {"synced"})
    BY <1>0, <1>2, <2>1, PostJob
  <2>3. Has(r, {"ask"}) => Has(q, {"ask"})  BY <1>0, <1>2, <2>1, PostJob
  <2>4. Alike(q, r, {"root", "created"})  BY <1>0, <1>2, <2>1, PostJob DEF Alike
  <2> QED  BY <2>2, <2>3, <2>4
<1>4. /\ Tail(b) \in Seq(BgJobs) /\ Has(b, {"sync"})
      /\ Once(b, {"sync"}) => Once(Tail(b), {"sync"}) /\ ~Has(Tail(b), {"sync"})
  BY <1>0, TakeJob
<1>5. Alike(b, Tail(b), {"save"})
  <2>1. Head(b) \notin {"save"}  OBVIOUS
  <2> QED  BY <1>0, <2>1, TakeJob DEF Alike
<1>6. /\ SyncWaits(t, b) /\ Syncing(t, q, b) /\ Unsynced(t, b)
      /\ Opining(r, Tail(b)) <=> Opining(q, b)
  BY <1>3, <1>4, <1>5 DEF SyncWaits, Syncing, Unsynced, Opining, Alike
<1>7. /\ t.phase = "syncing" /\ d.tree = Null /\ t.completed # 0
      /\ ~Has(q, {"synced"}) /\ ~Has(Tail(b), {"sync"}) /\ "sync" \notin t.removing
      /\ Once(r, {"synced"}) /\ Once(Tail(b), {"sync"})
  BY <1>3, <1>4, <1>6 DEF Good, SyncJobs, OpinionJobs
<1>8. ~SyncWaits(t, Tail(b)) /\ Syncing(t, r, Tail(b)) /\ ~Unsynced(t, Tail(b))
  BY <1>3, <1>7 DEF SyncWaits, Syncing, Unsynced
<1>9. Typed(s, k, t, e, r, Tail(b))  BY <1>1, <1>3, <1>4 DEF Good, Typed
<1>10. Announced(s, t, r)  BY <1>3 DEF Good, Announced
<1>11. Downloads(s, t, e, Tail(b))  BY <1>8 DEF Downloads
<1>12. Quiet(t, r, Tail(b))  BY <1>7 DEF Quiet
<1>13. SyncJobs(t, e, r, Tail(b))  BY <1>1, <1>7, <1>8 DEF Good, SyncJobs
<1>14. OpinionJobs(k, t, r, Tail(b))  BY <1>6 DEF Good, OpinionJobs
<1>15. Completed(s, k, t, e, r, Tail(b))
  <2>1. Completed(s, k, t, d, q, b) /\ k \subseteq Range(s) /\ d.files \subseteq d.map
    BY <1>6 DEF Good, Typed, Downloads
  <2>2. /\ d.used = k /\ Range(s) \subseteq d.map /\ (~t.early => Range(s) \subseteq d.files)
        /\ NewLast(s) => Range(s) \subseteq d.files \cup Late(s, t.early)
    BY <1>6, <1>7, <2>1 DEF Completed
  <2>3. e.map = k /\ e.files = d.files \cap k  BY <1>1, <2>1, <2>2
  <2>4. Synced(s, k, t, e)  BY <2>1, <2>2, <2>3 DEF Synced
  <2> QED  BY <1>7, <1>8, <2>1, <2>4 DEF Completed
<1>16. OneEnd(s, t, e, r, Tail(b))
  <2>1. OpinionOnce(q, b) => OpinionOnce(r, Tail(b))  BY <1>3, <1>5 DEF OpinionOnce, Alike
  <2> QED  BY <1>6, <1>7, <2>1 DEF Good, OneEnd
<1> QED  BY <1>2, <1>9, <1>10, <1>11, <1>12, <1>13, <1>14, <1>15, <1>16 DEF Good

\* ... and the task ends with the new tree.
LEMMA ModifyIsCompletedKeeps ==
    ASSUME NEW s, NEW k, NEW t, NEW d, NEW q, NEW b, Good(s, k, t, d, q, b),
           q # <<>>, Head(q) = "synced",
           NEW c \in Seq(BgJobs), BgAlike(b, c),
           NEW u, u = [t EXCEPT !.phase = "ending", !.ends = More(t.ends)],
           NEW e, e = [d EXCEPT !.tree = t.tree]
    PROVE  Good(s, k, u, e, Tail(q), c)
<1>0. /\ t \in Tasks /\ d \in Drives /\ q \in Seq(SessionJobs)
      /\ t.ends \in 0..2 /\ t.tree \in SUBSET Contents
  BY DEF Good, Typed, Tasks
<1>1. /\ u \in Tasks /\ u.phase = "ending" /\ u.infos = t.infos
      /\ u.current = t.current /\ u.handle = t.handle /\ u.finish = t.finish
      /\ u.first = t.first /\ u.tree = t.tree
      /\ u.opinion = t.opinion /\ u.calculated = t.calculated
      /\ u.received = t.received /\ u.interrupted = t.interrupted
      /\ u.removing = t.removing /\ u.completed = t.completed
      /\ u.early = t.early /\ u.ends = More(t.ends)
  <2>1. More(t.ends) \in 0..2  BY <1>0 DEF More
  <2>2. t \in Tasks  BY <1>0
  <2> QED  BY ONLY <2>1, <2>2, u = [t EXCEPT !.phase = "ending", !.ends = More(t.ends)]
             DEF Tasks, Phases
<1>2. /\ e \in Drives /\ e.map = d.map /\ e.files = d.files
      /\ e.used = d.used /\ e.tree = t.tree
  BY <1>0 DEF Drives
<1>3. /\ Tail(q) \in Seq(SessionJobs) /\ Has(q, {"synced"})
      /\ Once(q, {"synced"}) => Once(Tail(q), {"synced"}) /\ ~Has(Tail(q), {"synced"})
  BY <1>0, TakeJob
<1>4. Alike(q, Tail(q), {"root", "created"})
  <2>1. Head(q) \notin {"root", "created"}  OBVIOUS
  <2> QED  BY <1>0, <2>1, TakeJob DEF Alike
<1>5. Has(Tail(q), {"ask"}) => Has(q, {"ask"})  BY <1>0, TakeJob
<1>6. /\ Syncing(t, q, b) /\ t.phase = "syncing" /\ t.calculated /\ t.received
      /\ ~SyncWaits(t, b) /\ ~Has(Tail(q), {"synced"}) /\ t.completed # 0
      /\ Once(Tail(q), {"synced"}) /\ Once(c, {"sync"})
  BY <1>3 DEF Good, SyncJobs, OpinionJobs, Syncing, BgAlike, Alike
<1>7. /\ ~SyncWaits(u, c) /\ ~Syncing(u, Tail(q), c) /\ ~Unsynced(u, c)
      /\ Opining(Tail(q), c) <=> Opining(q, b)
  BY <1>1, <1>4, <1>6 DEF SyncWaits, Syncing, Unsynced, Opining, BgAlike, Alike
<1>8. Typed(s, k, u, e, Tail(q), c)  BY <1>1, <1>2, <1>3 DEF Good, Typed
<1>9. Announced(s, u, Tail(q))  BY <1>1, <1>5 DEF Good, Announced
<1>10. Downloads(s, u, e, c)  BY <1>7 DEF Downloads
<1>11. Quiet(u, Tail(q), c)  BY <1>1 DEF Quiet
<1>12. SyncJobs(u, e, Tail(q), c)
  BY <1>1, <1>6, <1>7 DEF SyncJobs, SyncWaits
<1>13. OpinionJobs(k, u, Tail(q), c)  BY <1>1, <1>7 DEF Good, OpinionJobs
<1>14. Completed(s, k, u, e, Tail(q), c)
  <2>1. Completed(s, k, t, d, q, b)  BY DEF Good
  <2>2. Synced(s, k, t, d)  BY <1>3, <1>6, <2>1 DEF Completed
  <2>3. Synced(s, k, u, e)  BY <1>1, <1>2, <2>2 DEF Synced
  <2> QED  BY <1>1, <1>7, <2>1, <2>3 DEF Completed
<1>15. OneEnd(s, u, e, Tail(q), c)
  <2> SUFFICES ASSUME t.completed < 2, ~t.early, NewLast(s)
               PROVE  /\ OpinionOnce(Tail(q), c) /\ ~Opining(q, b) /\ More(t.ends) = 1
                      /\ "break" \notin t.removing
    BY <1>1, <1>6, <1>7 DEF OneEnd
  <2>1. /\ OpinionOnce(q, b) /\ ~Opining(q, b) /\ "break" \notin t.removing
        /\ t.ends < 2 /\ t.ends # 1
    BY <1>6 DEF Good, OneEnd
  <2>2. More(t.ends) = 1  BY <1>0, <2>1 DEF More
  <2>3. OpinionOnce(Tail(q), c)  BY <1>4, <2>1 DEF OpinionOnce, BgAlike, Alike
  <2> QED  BY <2>1, <2>2, <2>3
<1> QED  BY <1>8, <1>9, <1>10, <1>11, <1>12, <1>13, <1>14, <1>15 DEF Good

\* runStreamTask
LEMMA RunKeeps ==
    ASSUME NEW s, NEW k, NEW t, NEW d, NEW q, NEW b, Good(s, k, t, d, q, b),
           t.phase = "deferred", NEW u, u = [t EXCEPT !.phase = "running"]
    PROVE  Good(s, k, u, d, q, b)
<1>1. /\ u \in Tasks /\ u.phase = "running" /\ u.infos = t.infos
      /\ u.current = t.current /\ u.handle = t.handle /\ u.finish = t.finish
      /\ u.first = t.first /\ u.tree = t.tree
      /\ u.opinion = t.opinion /\ u.calculated = t.calculated
      /\ u.received = t.received /\ u.interrupted = t.interrupted
      /\ u.removing = t.removing /\ u.completed = t.completed
      /\ u.early = t.early /\ u.ends = t.ends
  <2>1. t \in Tasks  BY DEF Good, Typed
  <2> QED  BY ONLY <2>1, u = [t EXCEPT !.phase = "running"] DEF Tasks, Phases
<1>2. /\ SyncWaits(u, b) <=> SyncWaits(t, b)
      /\ Syncing(u, q, b) <=> Syncing(t, q, b)
      /\ Unsynced(u, b) /\ Unsynced(t, b)
  BY <1>1 DEF SyncWaits, Syncing, Unsynced
<1>3. Typed(s, k, u, d, q, b)  BY <1>1 DEF Good, Typed
<1>4. Announced(s, u, q)  BY <1>1 DEF Good, Announced
<1>5. Downloads(s, u, d, b)  BY <1>1, <1>2 DEF Good, Downloads, HandleIsLast
<1>6. Quiet(u, q, b)  BY <1>1 DEF Quiet
<1>7. SyncJobs(u, d, q, b)  BY <1>1, <1>2 DEF Good, SyncJobs
<1>8. OpinionJobs(k, u, q, b)  BY <1>1 DEF Good, OpinionJobs
<1>9. Completed(s, k, u, d, q, b)  BY <1>1, <1>2, CompletedAlike
<1>10. OneEnd(s, u, d, q, b)
  <2>1. Broken(s, t, d) => Broken(s, u, d)  BY <1>1 DEF Broken
  <2> QED  BY <1>1, <1>2, <2>1 DEF Good, OneEnd
<1> QED  BY <1>3, <1>4, <1>5, <1>6, <1>7, <1>8, <1>9, <1>10 DEF Good

------------------------------------------------------------------------------
(* The actions *)

\* What a step has to establish, besides that the stream is the same.
Kept(n, c, t, d, q, b) ==
    NetInv(n, Chunks) /\ c \in Chains /\ Good(Chunks, Saved, t, d, q, b)

LEMMA Basics ==
    ASSUME IInv
    PROVE  /\ Chunks \in Seq(Contents) /\ Len(Chunks) \in Nat \ {0} /\ Index = 1..Len(Chunks)
           /\ streamer \in Streamers /\ net \in Nets /\ chain \in Chains
           /\ task \in Tasks /\ drive \in Drives
           /\ session \in Seq(SessionJobs) /\ bg \in Seq(BgJobs)
           /\ Kept(net, chain, task, drive, session, bg)
<1>1. Chunks \in Seq(Contents) /\ Chunks # <<>>  BY DEF IInv, Good, Typed
<1>2. Len(Chunks) \in Nat \ {0}  BY <1>1
<1> QED
  BY <1>1, <1>2 DEF IInv, Good, Typed, NetInv, StreamerInv, Kept, Index

LEMMA NetSteps ==
    ASSUME IInv, NEW i \in Index,
           SendSingleChunkInfo(i) \/ LoseInfo(i) \/ LoseRequest(i)
    PROVE  Kept(net', chain', task', drive', session', bg')
<1>1. UNCHANGED <<chain, drive, task, session, bg>>
  BY DEF SendSingleChunkInfo, LoseInfo, LoseRequest
<1>2. net \in Nets /\ i \in 1..Len(Chunks) /\ i \in Nat  BY Basics
<1>3. NetInv(net', Chunks)
  <2>1. CASE SendSingleChunkInfo(i)
    <3>1. PICK a : a = IF i <= streamer.added THEN net.answers \cup {i} ELSE net.answers
      OBVIOUS
    <3>2. a \subseteq net.answers \cup {i}  BY <3>1
    <3>3. net' = [net EXCEPT !.asks = @ \ {i}, !.answers = a]
      BY <2>1, <3>1 DEF SendSingleChunkInfo
    <3> QED  BY <1>2, <3>2, <3>3 DEF IInv, NetInv, Nets
  <2>2. CASE LoseInfo(i)
    <3>1. PICK l : l = net.lost + 1  OBVIOUS
    <3>2. l \in Nat  BY <1>2, <3>1 DEF Nets
    <3>3. net' = [net EXCEPT !.infos = @ \ {i}, !.missed = @ \cup {i}, !.lost = l]
      BY <2>2, <3>1 DEF LoseInfo
    <3> QED  BY <1>2, <3>2, <3>3 DEF IInv, NetInv, Nets
  <2>3. CASE LoseRequest(i)
    <3>1. PICK l : l = net.lost + 1  OBVIOUS
    <3>2. l \in Nat  BY <1>2, <3>1 DEF Nets
    <3>3. net' = [net EXCEPT !.asks = @ \ {i}, !.answers = @ \ {i}, !.lost = l, !.cut = TRUE]
      BY <2>3, <3>1 DEF LoseRequest
    <3> QED  BY <1>2, <3>2, <3>3 DEF IInv, NetInv, Nets
  <2> QED  BY <2>1, <2>2, <2>3
<1> QED  BY <1>1, <1>3, Basics DEF Kept

LEMMA AcceptStep ==
    ASSUME IInv, NEW i \in Index, AcceptChunkInfo(i)
    PROVE  Kept(net', chain', task', drive', session', bg')
<1>1. /\ net \in Nets /\ i \in 1..Len(Chunks) /\ i \in Nat /\ task \in Tasks
      /\ session \in Seq(SessionJobs) /\ bg \in Seq(BgJobs)
      /\ Chunks \in Seq(Contents) /\ Len(Chunks) \in Nat
  BY Basics
<1>2. NetInv(net', Chunks)
  <2>1. CASE net' = [net EXCEPT !.infos = @ \ {i}, !.answers = @ \ {i}]
    BY <1>1, <2>1 DEF IInv, NetInv, Nets
  <2>2. CASE net' = [net EXCEPT !.infos = @ \ {i}, !.answers = @ \ {i}, !.missed = @ \cup {i}]
    BY <1>1, <2>2 DEF IInv, NetInv, Nets
  <2> QED  BY <2>1, <2>2 DEF AcceptChunkInfo
<1>3. CASE task.phase = "deferred"
  BY <1>2, <1>3, Basics DEF AcceptChunkInfo, Kept
<1>4. CASE task.phase # "deferred"
  <2>1. PICK w : w = WithInfo(task.infos, i)  OBVIOUS
  <2>2. /\ task.infos \in Seq(Contents \cup {Null}) /\ Len(task.infos) \in Nat
        /\ Len(task.infos) <= Len(Chunks) /\ task.current <= Len(task.infos)
        /\ \A j \in 1..Len(task.infos) : task.infos[j] \in {Null, Chunks[j]}
        /\ \A j \in 1..task.current : task.infos[j] = Chunks[j]
        /\ task.current \in Nat
    BY <1>1 DEF IInv, Good, Announced, Tasks
  <2>3. PICK m : m = IF i > Len(task.infos) THEN i ELSE Len(task.infos)  OBVIOUS
  <2>4. m \in Nat /\ m <= Len(Chunks) /\ Len(task.infos) <= m  BY <1>1, <2>2, <2>3
  <2>5. w = [j \in 1..m |-> IF j = i THEN Chunks[i]
                            ELSE IF j <= Len(task.infos) THEN task.infos[j] ELSE Null]
    BY <2>1, <2>3 DEF WithInfo
  <2>6. \A j \in 1..m : w[j] \in {Null, Chunks[j]}  BY <1>1, <2>2, <2>4, <2>5
  <2>7. \A j \in 1..m : w[j] \in Contents \cup {Null}
    <3>1. \A j \in 1..m : Chunks[j] \in Contents  BY <1>1, <2>4
    <3> QED  BY <2>6, <3>1
  <2>8. w \in Seq(Contents \cup {Null}) /\ Len(w) = m  BY <2>4, <2>5, <2>7
  <2>9. \A j \in 1..task.current : w[j] = Chunks[j]  BY <1>1, <2>2, <2>4, <2>5
  <2>10. task' = [task EXCEPT !.infos = w]  BY <1>4, <2>1 DEF AcceptChunkInfo
  <2>11. task' \in Tasks /\ task'.infos = w /\ task'.first = task.first
         /\ task'.finish = task.finish /\ TaskAlike(task, task')
    BY ONLY <1>1, <2>8, <2>10 DEF Tasks, TaskAlike
  <2>12. session' \in Seq(SessionJobs) /\ SessionAlike(session, session')
    BY <1>1, <1>4, TryNext DEF AcceptChunkInfo
  <2>13. drive' = drive /\ chain' = chain /\ bg' = bg  BY DEF AcceptChunkInfo
  <2>14. Announced(Chunks, task', session')
    BY <2>2, <2>4, <2>6, <2>8, <2>9, <2>11, <2>12 DEF IInv, Good, Announced, TaskAlike, SessionAlike
  <2>15. Quiet(task', session', bg')
    BY <1>4, <2>11 DEF AcceptChunkInfo, Quiet, TaskAlike
  <2>16. Good(Chunks, Saved, task', drive, session', bg)
    BY <1>1, <2>11, <2>12, <2>13, <2>14, <2>15, AlikeKeeps, BgAlikeIsChecked, SameIsAlike DEF IInv, SessionAlike
  <2> QED  BY <1>2, <2>13, <2>16, Basics DEF Kept
<1> QED  BY <1>3, <1>4

LEMMA DownloadStep ==
    ASSUME IInv, DownloadNextChunk
    PROVE  Kept(net', chain', task', drive', session', bg')
<1>1. /\ net \in Nets /\ task \in Tasks /\ drive \in Drives
      /\ session \in Seq(SessionJobs) /\ bg \in Seq(BgJobs)
      /\ Chunks \in Seq(Contents) /\ Len(Chunks) \in Nat
      /\ Good(Chunks, Saved, task, drive, session, bg)
  BY Basics DEF IInv
<1>2. session # <<>> /\ Head(session) = "next" /\ chain' = chain /\ bg' = bg
  BY DEF DownloadNextChunk
<1>3. PICK rest : rest = Tail(session)  OBVIOUS
<1>4. rest \in Seq(SessionJobs) /\ SessionAlike(session, rest)
  BY <1>1, <1>2, <1>3, TakeIdleJob
<1>5. PICK n : n = task.current + 1  OBVIOUS
<1>6. task.current \in Nat /\ Len(task.infos) \in Nat /\ Len(task.infos) <= Len(Chunks)
  BY <1>1 DEF Tasks, Good, Announced
<1>7. Good(Chunks, Saved, task, drive, rest, bg)
  <2>1. Announced(Chunks, task, rest)  BY <1>1, <1>4 DEF Good, Announced, SessionAlike
  <2>2. Quiet(task, rest, bg)  BY <1>1, <1>2, AtWork DEF Quiet
  <2>3. TaskAlike(task, task)  BY DEF TaskAlike
  <2> QED  BY <1>1, <1>4, <2>1, <2>2, <2>3, AlikeKeeps, BgAlikeIsChecked, SameIsAlike DEF SessionAlike
<1>8. CASE task.handle # Null \/ n > Len(task.infos)
  <2>1. session' = rest /\ net' = net /\ drive' = drive /\ task' = task
    BY <1>3, <1>5, <1>8 DEF DownloadNextChunk
  <2> QED  BY <1>2, <1>7, <2>1, Basics DEF Kept
<1>9. ASSUME task.handle = Null, n <= Len(task.infos)
      PROVE  Kept(net', chain', task', drive', session', bg')
  <2>1. n \in 1..Len(task.infos)  BY <1>5, <1>6, <1>9
  <2>2. ~(task.handle # Null \/ n > Len(task.infos))  BY <1>6, <1>9, <2>1
  <2>3. CASE task.infos[n] = Null
    <3>1. /\ net' = [net EXCEPT !.asks = @ \cup {n}]
          /\ session' = rest /\ drive' = drive /\ task' = task
      BY <1>3, <1>5, <2>2, <2>3 DEF DownloadNextChunk
    <3>2. n \in 1..Len(Chunks) /\ n \in Nat  BY <1>1, <1>6, <2>1
    <3>3. NetInv(net', Chunks)  BY <1>1, <3>1, <3>2 DEF IInv, NetInv, Nets
    <3> QED  BY <1>2, <1>7, <3>1, <3>3, Basics DEF Kept
  <2>4. CASE task.infos[n] # Null /\ task.infos[n] \in drive.map
    <3>1. /\ task' = [task EXCEPT !.current = n]
          /\ session' = TryDownloadNextChunk(Null, rest)
          /\ net' = net /\ drive' = drive
      BY <1>3, <1>5, <2>2, <2>4 DEF DownloadNextChunk
    <3>2. session' \in Seq(SessionJobs) /\ SessionAlike(session, session')
      BY <1>4, <3>1, TryNext, AlikeTransitive
    <3>3. Good(Chunks, Saved, task', drive, session', bg)
      BY <1>1, <1>2, <1>5, <1>9, <2>4, <3>1, <3>2, SkipKeeps
    <3> QED  BY <1>2, <3>1, <3>3, Basics DEF Kept
  <2>5. CASE task.infos[n] # Null /\ task.infos[n] \notin drive.map
    <3>1. /\ task' = [task EXCEPT !.current = n, !.handle = task.infos[n]]
          /\ drive' = [drive EXCEPT !.map = @ \cup {task.infos[n]}]
          /\ session' = rest /\ net' = net
      BY <1>3, <1>5, <2>2, <2>5 DEF DownloadNextChunk
    <3>2. Good(Chunks, Saved, task', drive', rest, bg)
      BY <1>1, <1>2, <1>4, <1>5, <1>9, <2>5, <3>1, DownloadKeeps
    <3> QED  BY <1>2, <3>1, <3>2, Basics DEF Kept
  <2> QED  BY <2>3, <2>4, <2>5
<1> QED  BY <1>5, <1>6, <1>8, <1>9

LEMMA ChunkStep ==
    ASSUME IInv, ChunkIsDownloaded
    PROVE  Kept(net', chain', task', drive', session', bg')
<1>1. /\ session \in Seq(SessionJobs) /\ bg \in Seq(BgJobs)
      /\ Good(Chunks, Saved, task, drive, session, bg)
  BY Basics DEF IInv
<1>2. session' \in Seq(SessionJobs) /\ SessionAlike(session, session')
  BY <1>1, TryNext DEF ChunkIsDownloaded
<1>3. bg' \in Seq(BgJobs) /\ BgAlike(bg, bg')
  BY <1>1, PostIdleBgJob, SameIsAlike DEF ChunkIsDownloaded
<1>4. /\ task.handle # Null /\ task' = [task EXCEPT !.handle = Null]
      /\ drive' = [drive EXCEPT !.files = @ \cup {task.handle}]
      /\ net' = net /\ chain' = chain
  BY DEF ChunkIsDownloaded
<1>5. Good(Chunks, Saved, task', drive', session', bg')
  BY <1>1, <1>2, <1>3, <1>4, DownloadedKeeps
<1> QED  BY <1>4, <1>5, Basics DEF Kept

\* What is known of the end of the stream changes.
LEMMA FinishKeeps ==
    ASSUME NEW s, NEW k, NEW t, NEW d, NEW q, NEW b, Good(s, k, t, d, q, b),
           t.phase \notin {"deferred", "dead", "over"},
           NEW c, Checked(s, d, b, c),
           NEW f \in Finishes, NEW u, u = [t EXCEPT !.finish = f]
    PROVE  Good(s, k, u, d, q, c)
<1>1. t \in Tasks /\ q \in Seq(SessionJobs)  BY DEF Good, Typed
<1>2. /\ u \in Tasks /\ TaskAlike(t, u) /\ u.infos = t.infos /\ u.first = t.first
      /\ u.phase = t.phase /\ u.current = t.current
  BY ONLY <1>1, f \in Finishes, u = [t EXCEPT !.finish = f] DEF Tasks, TaskAlike
<1>3. Announced(s, u, q)  BY <1>2 DEF Good, Announced
<1>4. Quiet(u, q, c)  BY <1>2 DEF Quiet
<1> QED  BY <1>1, <1>2, <1>3, <1>4, AlikeKeeps, SameIsAlike DEF SessionAlike

LEMMA FinishTxStep ==
    ASSUME IInv, AcceptFinishStreamTx
    PROVE  Kept(net', chain', task', drive', session', bg')
<1>1. /\ bg \in Seq(BgJobs) /\ chain \in Chains
      /\ Good(Chunks, Saved, task, drive, session, bg)
  BY Basics DEF IInv
<1>2. net' = net /\ drive' = drive /\ session' = session /\ bg' = bg
  BY DEF AcceptFinishStreamTx
<1>3. chain' \in Chains
  <2>1. PICK f : f = IF task.phase = "running" THEN "accepted" ELSE "dropped"  OBVIOUS
  <2>2. f \in {"accepted", "dropped"}  BY <2>1
  <2>3. chain' = [chain EXCEPT !.finish = f]  BY <2>1 DEF AcceptFinishStreamTx
  <2> QED  BY ONLY <1>1, <2>2, <2>3 DEF Chains
<1>4. Good(Chunks, Saved, task', drive, session, bg)
  <2>1. CASE task.phase = "running"
    <3>1. task' = [task EXCEPT !.finish = "loading"]
      BY <2>1 DEF AcceptFinishStreamTx
    <3>2. task.phase \notin {"deferred", "dead", "over"} /\ BgAlike(bg, bg)
      BY <2>1, SameIsAlike
    <3>3. PICK f \in Finishes : f = "loading"  BY DEF Finishes
    <3>4. task' = [task EXCEPT !.finish = f]  BY <3>1, <3>3
    <3> QED  BY <1>1, <3>2, <3>4, FinishKeeps, BgAlikeIsChecked
  <2>2. CASE task.phase # "running"
    <3>1. task' = task  BY <2>2 DEF AcceptFinishStreamTx
    <3> QED  BY <1>1, <3>1
  <2> QED  BY <2>1, <2>2
<1> QED  BY <1>2, <1>3, <1>4, Basics DEF Kept

LEMMA FinishInfoStep ==
    ASSUME IInv, FinishInfoIsDownloaded
    PROVE  Kept(net', chain', task', drive', session', bg')
<1>1. bg \in Seq(BgJobs) /\ Good(Chunks, Saved, task, drive, session, bg)
  BY Basics DEF IInv
<1>2. /\ net' = net /\ chain' = chain /\ drive' = drive /\ session' = session
      /\ task' = [task EXCEPT !.finish = "loaded"] /\ bg' = Append(bg, "parse")
      /\ task.finish = "loading" /\ task.phase \notin {"dead", "over"}
  BY DEF FinishInfoIsDownloaded
<1>3. task.phase \notin {"deferred", "dead", "over"}
  BY <1>1, <1>2 DEF Good, Quiet
<1>4. bg' \in Seq(BgJobs) /\ BgAlike(bg, bg')  BY <1>1, <1>2, PostIdleBgJob
<1>5. Good(Chunks, Saved, task', drive, session, bg')
  <2>1. PICK f \in Finishes : f = "loaded"  BY DEF Finishes
  <2>2. task' = [task EXCEPT !.finish = f]  BY <1>2, <2>1
  <2> QED  BY <1>1, <1>3, <1>4, <2>2, FinishKeeps, BgAlikeIsChecked
<1> QED  BY <1>2, <1>5, Basics DEF Kept

\* checkFinishCondition asks for chunks of the stream.
LEMMA FinishCondition ==
    ASSUME IInv, NEW rest \in Seq(BgJobs), CheckFinishCondition(rest)
    PROVE  NetInv(net', Chunks) /\ Checked(Chunks, drive, rest, bg')
<1>1. /\ net \in Nets /\ Len(Chunks) \in Nat /\ Chunks \in Seq(Contents)
      /\ Good(Chunks, Saved, task, drive, session, bg)
  BY Basics DEF IInv
<1>2. PICK missing : missing = {i \in 1..Len(Chunks) : task.infos[i] = Null}
  OBVIOUS
<1>3. NetInv(net', Chunks)
  <2>1. CASE net' = net  BY <2>1 DEF IInv
  <2>2. CASE net' = [net EXCEPT !.asks = @ \cup missing]
    <3>1. missing \subseteq 1..Len(Chunks) /\ missing \subseteq Nat  BY <1>1, <1>2
    <3> QED  BY <1>1, <2>2, <3>1 DEF IInv, NetInv, Nets
  <2> QED  BY <1>2, <2>1, <2>2 DEF CheckFinishCondition
<1>4. CASE bg' = rest  BY <1>3, <1>4 DEF Checked, Alike
<1>5. CASE bg' # rest
  <2>1. /\ bg' = <<"complete">> \o rest /\ missing = {} /\ Len(task.infos) = Len(Chunks)
        /\ \A i \in 1..Len(Chunks) : task.infos[i] \in drive.map
    BY <1>2, <1>5 DEF CheckFinishCondition
  <2>2. \A i \in 1..Len(Chunks) : task.infos[i] \in {Null, Chunks[i]}
    BY <1>1, <2>1 DEF Good, Announced
  <2>3. \A i \in 1..Len(Chunks) : Chunks[i] \in drive.map  BY <1>2, <2>1, <2>2
  <2>4. Range(Chunks) \subseteq drive.map  BY <1>1, <2>3 DEF Range
  <2> QED  BY <1>3, <2>1, <2>4, PostComplete DEF Checked
<1> QED  BY <1>4, <1>5

LEMMA CheckedAfterwards ==
    ASSUME NEW s, NEW d, NEW b, NEW c, NEW e, BgAlike(b, c), Checked(s, d, c, e)
    PROVE  Checked(s, d, b, e)
BY DEF BgAlike, Checked, Alike

LEMMA CheckStep ==
    ASSUME IInv, CheckFinish
    PROVE  Kept(net', chain', task', drive', session', bg')
<1>1. /\ bg \in Seq(BgJobs) /\ task \in Tasks /\ session \in Seq(SessionJobs)
      /\ Good(Chunks, Saved, task, drive, session, bg)
  BY Basics DEF IInv
<1>2. /\ bg # <<>> /\ Head(bg) = "check" /\ CheckFinishCondition(Tail(bg))
      /\ UNCHANGED <<chain, drive, session, task>>
  BY DEF CheckFinish
<1>3. PICK rest : rest = Tail(bg)  OBVIOUS
<1>4. rest \in Seq(BgJobs) /\ BgAlike(bg, rest)  BY <1>1, <1>2, <1>3, TakeIdleBgJob
<1>5. NetInv(net', Chunks) /\ Checked(Chunks, drive, rest, bg')
  BY <1>2, <1>3, <1>4, FinishCondition
<1>6. Checked(Chunks, drive, bg, bg')  BY <1>4, <1>5, CheckedAfterwards
<1>7. Quiet(task, session, bg')  BY <1>1, <1>2, AtWork DEF Quiet
<1>8. TaskAlike(task, task) /\ Announced(Chunks, task, session)
  BY <1>1 DEF TaskAlike, Good
<1>9. Good(Chunks, Saved, task, drive, session, bg')
  BY <1>1, <1>6, <1>7, <1>8, AlikeKeeps, SameIsAlike DEF SessionAlike, Checked
<1> QED  BY <1>2, <1>5, <1>9, Basics DEF Kept

LEMMA Smallest ==
    ASSUME NEW S \in SUBSET Nat, S # {}
    PROVE  \E i \in S : \A j \in S : i <= j
<1> DEFINE Less == OpToRel(<, Nat)
<1>1. IsWellFoundedOn(Less, Nat)  BY NatLessThanWellFounded, Zenon
<1>2. \A i, j \in Nat : <<i, j>> \in Less <=> i < j  BY DEF OpToRel
<1> HIDE DEF Less
<1>3. PICK i \in S : \A j \in S : ~(<<j, i>> \in Less)  BY <1>1, WFMin, Zenon
<1>4. ASSUME NEW j \in S  PROVE i <= j
  <2>1. i \in Nat /\ j \in Nat /\ ~(j < i)  BY <1>2, <1>3
  <2> QED  BY <2>1
<1> QED  BY <1>4

LEMMA ParseStep ==
    ASSUME IInv, ParseFinishInfoFile
    PROVE  Kept(net', chain', task', drive', session', bg')
<1>1. /\ bg \in Seq(BgJobs) /\ task \in Tasks /\ session \in Seq(SessionJobs)
      /\ Len(Chunks) \in Nat
      /\ Good(Chunks, Saved, task, drive, session, bg)
  BY Basics DEF IInv
<1>2. bg # <<>> /\ Head(bg) = "parse" /\ UNCHANGED <<chain, drive>>
  BY DEF ParseFinishInfoFile
<1>3. PICK rest : rest = Tail(bg)  OBVIOUS
<1>4. rest \in Seq(BgJobs) /\ BgAlike(bg, rest)  BY <1>1, <1>2, <1>3, TakeIdleBgJob
<1>5. task.phase \notin {"deferred", "dead", "over"}  BY <1>1, <1>2, AtWork
<1>6. PICK f \in Finishes : f = "parsed"  BY DEF Finishes
<1>7. PICK missing : missing = {i \in 1..Len(Chunks) : Chunks[i] \notin drive.map}
  OBVIOUS
<1>8. CASE missing = {}
  <2>1. /\ CheckFinishCondition(rest) /\ task' = [task EXCEPT !.finish = f]
        /\ session' = session
    BY <1>3, <1>6, <1>7, <1>8 DEF ParseFinishInfoFile
  <2>2. NetInv(net', Chunks) /\ Checked(Chunks, drive, rest, bg')
    BY <1>4, <2>1, FinishCondition
  <2>3. Checked(Chunks, drive, bg, bg')  BY <1>4, <2>2, CheckedAfterwards
  <2>4. Good(Chunks, Saved, task', drive, session, bg')
    BY <1>1, <1>5, <2>1, <2>2, <2>3, FinishKeeps
  <2> QED  BY <1>2, <2>1, <2>2, <2>4, Basics DEF Kept
<1>9. CASE missing # {}
  <2>1. PICK n : n = CHOOSE i \in missing : \A j \in missing : i <= j  OBVIOUS
  <2>2. n \in missing
    <3>1. missing \in SUBSET Nat  BY <1>1, <1>7
    <3>2. \E i \in missing : \A j \in missing : i <= j  BY <1>9, <3>1, Smallest
    <3> QED  BY <2>1, <3>2
  <2>3. n \in 1..Len(Chunks) /\ n \in Nat  BY <1>1, <1>7, <2>2
  <2>4. /\ task' = [task EXCEPT !.finish = f, !.first = n]
        /\ session' = Append(session, "ask") /\ bg' = rest /\ net' = net
    BY <1>3, <1>6, <1>7, <1>9, <2>1 DEF ParseFinishInfoFile
  <2>5. /\ task' \in Tasks /\ TaskAlike(task, task') /\ task'.infos = task.infos
        /\ task'.first = n /\ task'.current = task.current /\ task'.phase = task.phase
    BY ONLY <1>1, <1>6, <2>3, <2>4 DEF Tasks, TaskAlike
  <2>6. PICK job \in SessionJobs : job = "ask"  BY DEF SessionJobs
  <2>7. job \notin {"root", "created"} /\ job \notin {"synced"}  BY <2>6
  <2>8. /\ session' \in Seq(SessionJobs) /\ Alike(session, session', {"root", "created"})
        /\ Alike(session, session', {"synced"})
    BY <1>1, <2>4, <2>6, <2>7, PostJob DEF Alike
  <2>9. Announced(Chunks, task', session')
    BY <1>1, <2>3, <2>5 DEF Good, Announced
  <2>10. Quiet(task', session', rest)  BY <1>5, <2>5 DEF Quiet
  <2>11. Good(Chunks, Saved, task', drive, session', rest)
    BY <1>1, <1>4, <2>5, <2>8, <2>9, <2>10, AlikeKeeps, BgAlikeIsChecked
  <2> QED  BY <1>2, <2>4, <2>11, Basics DEF Kept
<1> QED  BY <1>8, <1>9

LEMMA RequestStep ==
    ASSUME IInv, RequestMissingChunkInfo
    PROVE  Kept(net', chain', task', drive', session', bg')
<1>1. /\ bg \in Seq(BgJobs) /\ task \in Tasks /\ session \in Seq(SessionJobs)
      /\ Len(Chunks) \in Nat /\ net \in Nets
      /\ Good(Chunks, Saved, task, drive, session, bg)
  BY Basics DEF IInv
<1>2. /\ session # <<>> /\ Head(session) = "ask" /\ UNCHANGED <<chain, drive, task, bg>>
      /\ net' = [net EXCEPT !.asks = @ \cup {task.first}]
      /\ session' = Tail(session)
  BY DEF RequestMissingChunkInfo
<1>3. session' \in Seq(SessionJobs) /\ SessionAlike(session, session')
  BY <1>1, <1>2, TakeIdleJob
<1>4. Has(session, {"ask"})
  <2>1. PICK J : J = {"ask"}  OBVIOUS
  <2>2. Head(session) \in J  BY <1>2, <2>1
  <2>3. Has(session, J)  BY <1>1, <1>2, <2>2, TakeJob
  <2> QED  BY <2>1, <2>3
<1>5. PICK i : i = task.first  OBVIOUS
<1>6. i \in 1..Len(Chunks) /\ i \in Nat  BY <1>1, <1>4, <1>5 DEF Good, Announced
<1>7. NetInv(net', Chunks)
  BY <1>1, <1>2, <1>5, <1>6 DEF IInv, NetInv, Nets
<1>8. TaskAlike(task, task) /\ Announced(Chunks, task, session')
  BY <1>1, <1>3 DEF TaskAlike, Good, Announced, SessionAlike
<1>9. Quiet(task, session', bg)  BY <1>1, <1>2, AtWork DEF Quiet
<1>10. Good(Chunks, Saved, task, drive, session', bg)
  BY <1>1, <1>3, <1>8, <1>9, AlikeKeeps, BgAlikeIsChecked, SameIsAlike DEF SessionAlike
<1> QED  BY <1>2, <1>7, <1>10, Basics DEF Kept

LEMMA CompleteStep ==
    ASSUME IInv, CompleteStreamFinishing
    PROVE  Kept(net', chain', task', drive', session', bg')
<1>1. /\ bg \in Seq(BgJobs) /\ task \in Tasks /\ session \in Seq(SessionJobs)
      /\ Chunks \in Seq(Contents)
      /\ Good(Chunks, Saved, task, drive, session, bg)
  BY Basics DEF IInv
<1>2. /\ bg # <<>> /\ Head(bg) = "complete" /\ UNCHANGED <<net, chain, drive>>
  BY DEF CompleteStreamFinishing
<1>3. CASE /\ task' = [task EXCEPT !.phase = "dead", !.handle = Null, !.removing = {}]
           /\ session' = <<>> /\ bg' = <<>>
  <2>1. PICK p \in {"dead", "over"} : p = "dead"  OBVIOUS
  <2>2. task' = [task EXCEPT !.phase = p, !.handle = Null, !.removing = {}]
    BY <1>3, <2>1
  <2>3. Good(Chunks, Saved, task', drive, <<>>, <<>>)  BY <1>1, <2>2, StopKeeps
  <2> QED  BY <1>2, <1>3, <2>3, Basics DEF Kept
<1>4. CASE /\ session' \in {session, Append(session, "root")}
           /\ task' = [task EXCEPT !.tree = Saved,
                                   !.early = @ \/ ~(Range(Chunks) \subseteq drive.files),
                                   !.full = session' = session,
                                   !.completed = IF @ < 2 THEN @ + 1 ELSE @]
           /\ bg' = Tail(bg)
  <2>1. PICK y : y = (task.early \/ ~(Range(Chunks) \subseteq drive.files))  OBVIOUS
  <2>2. PICK f : f = (session' = session)  OBVIOUS
  <2>3. PICK m : m = IF task.completed < 2 THEN task.completed + 1 ELSE task.completed
    OBVIOUS
  <2>4. task' = [task EXCEPT !.tree = Saved, !.early = y, !.full = f, !.completed = m]
    BY ONLY <1>4, <2>1, <2>2, <2>3, Zenon
  <2>5. /\ y \in BOOLEAN /\ (y <=> task.early \/ ~(Range(Chunks) \subseteq drive.files))
        /\ f \in BOOLEAN
    BY ONLY <2>1, <2>2, Zenon
  <2>6. Completion(Chunks, task, drive, Saved, y, f, m, task')
    BY ONLY <2>4, <2>5, Zenon DEF Completion
  <2>7. PICK r : r = session'  OBVIOUS
  <2>8. r \in {session, Append(session, "root")}  BY <1>4, <2>7
  <2>9. Good(Chunks, Saved, task', drive, r, Tail(bg))
    BY <1>1, <1>2, <2>3, <2>6, <2>8, CompleteKeeps
  <2> QED  BY <1>2, <1>4, <2>7, <2>9, Basics DEF Kept
<1> QED  BY <1>3, <1>4 DEF CompleteStreamFinishing

LEMMA RootStep ==
    ASSUME IInv, MyRootHashIsCalculated
    PROVE  Kept(net', chain', task', drive', session', bg')
<1>1. /\ bg \in Seq(BgJobs) /\ task \in Tasks
      /\ Good(Chunks, Saved, task, drive, session, bg)
  BY Basics DEF IInv
<1>2. /\ session # <<>> /\ Head(session) = "root" /\ session' = Tail(session)
      /\ UNCHANGED <<net, chain, drive>>
  BY DEF MyRootHashIsCalculated
<1>3. Good(Chunks, Saved, task', drive, Tail(session), bg')
  <2>1. CASE task.interrupted
    <3>1. PICK m : m = IF task.ends < 2 THEN task.ends + 1 ELSE task.ends  OBVIOUS
    <3>2. task' = [task EXCEPT !.ends = m] /\ bg' = Append(bg, "clear")
      BY <2>1, <3>1 DEF MyRootHashIsCalculated, Ending
    <3>3. task' = [task EXCEPT !.ends = More(task.ends)]  BY <3>1, <3>2 DEF More
    <3>4. bg' \in Seq(BgJobs) /\ BgAlike(bg, bg')  BY <1>1, <3>2, PostIdleBgJob
    <3>5. Head(session) \in {"root", "created"}  BY <1>2
    <3> QED  BY <1>1, <1>2, <2>1, <3>3, <3>4, <3>5, OpinionEndKeeps
  <2>2. CASE ~task.interrupted
    <3>1. PICK o : o = task.tree  OBVIOUS
    <3>2. task' = [task EXCEPT !.opinion = o] /\ bg' = Append(bg, "save")
      BY <2>2, <3>1 DEF MyRootHashIsCalculated
    <3> QED  BY <1>1, <1>2, <3>1, <3>2, RootKeeps
  <2> QED  BY <2>1, <2>2
<1> QED  BY <1>2, <1>3, Basics DEF Kept

LEMMA SaveStep ==
    ASSUME IInv, SaveAndCallBack
    PROVE  Kept(net', chain', task', drive', session', bg')
<1>1. /\ bg \in Seq(BgJobs) /\ task \in Tasks /\ session \in Seq(SessionJobs)
      /\ Good(Chunks, Saved, task, drive, session, bg)
  BY Basics DEF IInv
<1>2. /\ bg # <<>> /\ Head(bg) \in {"save", "clear"} /\ bg' = Tail(bg)
      /\ UNCHANGED <<net, chain, drive, task>>
  BY DEF SaveAndCallBack
<1>3. Good(Chunks, Saved, task, drive, session', Tail(bg))
  <2>1. CASE Head(bg) = "save"
    <3>1. session' = Append(session, "created")  BY <2>1 DEF SaveAndCallBack
    <3> QED  BY <1>1, <1>2, <2>1, <3>1, SaveKeeps
  <2>2. CASE Head(bg) = "clear"
    <3>1. PICK x \in {"next", "finished"} : x = "finished"  OBVIOUS
    <3>2. session' = Append(session, x)  BY <2>2, <3>1 DEF SaveAndCallBack
    <3>3. session' \in Seq(SessionJobs) /\ SessionAlike(session, session')
      BY <1>1, <3>2, PostIdleJob
    <3>4. PICK rest : rest = Tail(bg)  OBVIOUS
    <3>5. rest \in Seq(BgJobs) /\ BgAlike(bg, rest)
      BY <1>1, <1>2, <2>2, <3>4, TakeIdleBgJob
    <3>6. TaskAlike(task, task) /\ Announced(Chunks, task, session')
      BY <1>1, <3>3 DEF TaskAlike, Good, Announced, SessionAlike
    <3>7. Quiet(task, session', rest)  BY <1>1, <1>2, AtWork DEF Quiet
    <3>8. Good(Chunks, Saved, task, drive, session', rest)
      BY <1>1, <3>3, <3>5, <3>6, <3>7, AlikeKeeps, BgAlikeIsChecked DEF SessionAlike
    <3> QED  BY <3>4, <3>8
  <2> QED  BY <1>2, <2>1, <2>2
<1> QED  BY <1>2, <1>3, Basics DEF Kept

LEMMA CreatedStep ==
    ASSUME IInv, MyOpinionIsCreated
    PROVE  Kept(net', chain', task', drive', session', bg')
<1>1. /\ bg \in Seq(BgJobs) /\ task \in Tasks /\ chain \in Chains
      /\ Good(Chunks, Saved, task, drive, session, bg)
  BY Basics DEF IInv
<1>2. /\ session # <<>> /\ Head(session) = "created" /\ session' = Tail(session)
      /\ UNCHANGED <<net, drive>>
  BY DEF MyOpinionIsCreated
<1>3. CASE task.interrupted
  <2>1. PICK m : m = IF task.ends < 2 THEN task.ends + 1 ELSE task.ends  OBVIOUS
  <2>2. task' = [task EXCEPT !.ends = m] /\ bg' = Append(bg, "clear") /\ chain' = chain
    BY <1>3, <2>1 DEF MyOpinionIsCreated, Ending
  <2>3. task' = [task EXCEPT !.ends = More(task.ends)]  BY <2>1, <2>2 DEF More
  <2>4. bg' \in Seq(BgJobs) /\ BgAlike(bg, bg')  BY <1>1, <2>2, PostIdleBgJob
  <2>5. Head(session) \in {"root", "created"}  BY <1>2
  <2>6. Good(Chunks, Saved, task', drive, Tail(session), bg')
    BY <1>1, <1>2, <1>3, <2>3, <2>4, <2>5, OpinionEndKeeps
  <2> QED  BY <1>2, <2>2, <2>6, Basics DEF Kept
<1>4. CASE ~task.interrupted
  <2>1. task' = [task EXCEPT !.calculated = TRUE] /\ bg' = bg
    BY <1>4 DEF MyOpinionIsCreated
  <2>2. PICK alone \in BOOLEAN : chain' = [chain EXCEPT !.sent = @ \/ alone]
    BY <1>4 DEF MyOpinionIsCreated
  <2>3. PICK x : x = (chain.sent \/ alone)  OBVIOUS
  <2>4. chain' = [chain EXCEPT !.sent = x] /\ x \in BOOLEAN
    BY ONLY <2>2, <2>3, Zenon
  <2>5. chain' \in Chains  BY ONLY <1>1, <2>4 DEF Chains
  <2>6. Good(Chunks, Saved, task', drive, Tail(session), bg)
    BY <1>1, <1>2, <1>4, <2>1, CreatedKeeps
  <2> QED  BY <1>2, <2>1, <2>5, <2>6, Basics DEF Kept
<1> QED  BY <1>3, <1>4

LEMMA ApproveStep ==
    ASSUME IInv, ApproveStream
    PROVE  Kept(net', chain', task', drive', session', bg')
<1>1. chain \in Chains  BY Basics
<1>2. /\ chain' = [chain EXCEPT !.approval = "published"]
      /\ UNCHANGED <<net, drive, task, session, bg>>
  BY DEF ApproveStream
<1>3. chain' \in Chains  BY ONLY <1>1, <1>2 DEF Chains
<1> QED  BY <1>2, <1>3, Basics DEF Kept

\* breakTorrentDownloadAndRunNextTask, after an approval or without one.
LEMMA BreakStep ==
    ASSUME IInv, NEW z, MayBreak(task, z),
           NEW t, t = [task EXCEPT !.received = z], BreakTorrentDownload(t)
    PROVE  Good(Chunks, Saved, task', drive, session, bg')
<1>1. /\ bg \in Seq(BgJobs) /\ task \in Tasks
      /\ Good(Chunks, Saved, task, drive, session, bg)
  BY Basics DEF IInv
<1>2. z \in BOOLEAN  BY <1>1 DEF MayBreak, Tasks
<1>3. /\ t \in Tasks /\ t.phase = task.phase /\ t.infos = task.infos
      /\ t.current = task.current /\ t.handle = task.handle /\ t.finish = task.finish
      /\ t.first = task.first /\ t.tree = task.tree
      /\ t.opinion = task.opinion /\ t.calculated = task.calculated
      /\ t.received = z /\ t.removing = task.removing
      /\ t.completed = task.completed /\ t.early = task.early /\ t.ends = task.ends
  BY ONLY <1>1, <1>2, t = [task EXCEPT !.received = z] DEF Tasks
<1>4. CASE t.handle # Null
  <2>1. PICK R : R = t.removing \cup {"break"}  OBVIOUS
  <2>2. R \in SUBSET {"break", "sync"}  BY <1>3, <2>1 DEF Tasks
  <2>3. /\ task' = [t EXCEPT !.interrupted = TRUE, !.handle = Null, !.removing = R]
        /\ bg' = bg
    BY <1>4, <2>1 DEF BreakTorrentDownload
  <2>4. /\ task' \in Tasks /\ task'.phase = t.phase /\ task'.infos = t.infos
        /\ task'.current = t.current /\ task'.handle = Null /\ task'.finish = t.finish
        /\ task'.first = t.first /\ task'.tree = t.tree
        /\ task'.opinion = t.opinion /\ task'.calculated = t.calculated
        /\ task'.received = t.received /\ task'.interrupted = TRUE
        /\ task'.removing = R /\ task'.completed = t.completed
        /\ task'.early = t.early /\ task'.ends = t.ends
    BY ONLY <1>3, <2>2, <2>3 DEF Tasks
  <2>5. Breaks(task, task', z)  BY ONLY <1>3, <2>1, <2>4 DEF Breaks
  <2>6. task.handle # Null  BY <1>3, <1>4
  <2> QED  BY <1>1, <2>3, <2>5, <2>6, BreaksKeeps
<1>5. CASE t.handle = Null /\ t.calculated /\ ~t.received
  <2>1. PICK m : m = IF t.ends < 2 THEN t.ends + 1 ELSE t.ends  OBVIOUS
  <2>2. m \in 0..2 /\ m = More(task.ends)  BY <1>3, <2>1 DEF Tasks, More
  <2>3. PICK x : x = [t EXCEPT !.interrupted = TRUE]  OBVIOUS
  <2>4. task' = Ending(x) /\ bg' = Append(bg, "clear")
    BY <1>5, <2>3 DEF BreakTorrentDownload
  <2>5. /\ x \in Tasks /\ x.phase = t.phase /\ x.infos = t.infos
        /\ x.current = t.current /\ x.handle = t.handle /\ x.finish = t.finish
        /\ x.first = t.first /\ x.tree = t.tree
        /\ x.opinion = t.opinion /\ x.calculated = t.calculated
        /\ x.received = t.received /\ x.interrupted = TRUE
        /\ x.removing = t.removing /\ x.completed = t.completed
        /\ x.early = t.early /\ x.ends = t.ends
    BY ONLY <1>3, <2>3 DEF Tasks
  <2>6. task' = [x EXCEPT !.ends = m]  BY <2>1, <2>4, <2>5 DEF Ending
  <2>7. EndsNow(task, task', z)
    <3>1. /\ task' \in Tasks /\ task'.phase = x.phase /\ task'.infos = x.infos
          /\ task'.current = x.current /\ task'.handle = x.handle /\ task'.finish = x.finish
          /\ task'.first = x.first /\ task'.tree = x.tree
          /\ task'.opinion = x.opinion /\ task'.calculated = x.calculated
          /\ task'.received = x.received /\ task'.interrupted = x.interrupted
          /\ task'.removing = x.removing /\ task'.completed = x.completed
          /\ task'.early = x.early /\ task'.ends = m
      BY ONLY <2>2, <2>5, <2>6 DEF Tasks
    <3> QED  BY ONLY <1>3, <2>2, <2>5, <3>1 DEF EndsNow
  <2>8. bg' \in Seq(BgJobs) /\ BgAlike(bg, bg')  BY <1>1, <2>4, PostIdleBgJob
  <2>9. task.calculated /\ ~z  BY <1>3, <1>5
  <2> QED  BY <1>1, <2>7, <2>8, <2>9, EndsNowKeeps
<1>6. CASE t.handle = Null /\ ~(t.calculated /\ ~t.received)
  <2>1. task' = [t EXCEPT !.interrupted = TRUE] /\ bg' = bg
    BY <1>6 DEF BreakTorrentDownload
  <2>2. /\ task' \in Tasks /\ task'.phase = t.phase /\ task'.infos = t.infos
        /\ task'.current = t.current /\ task'.handle = t.handle /\ task'.finish = t.finish
        /\ task'.first = t.first /\ task'.tree = t.tree
        /\ task'.opinion = t.opinion /\ task'.calculated = t.calculated
        /\ task'.received = t.received /\ task'.interrupted = TRUE
        /\ task'.removing = t.removing /\ task'.completed = t.completed
        /\ task'.early = t.early /\ task'.ends = t.ends
    BY ONLY <1>3, <2>1 DEF Tasks
  <2>3. EndsLater(task, task', z)  BY ONLY <1>3, <2>2 DEF EndsLater
  <2> QED  BY <1>1, <2>1, <2>3, EndsLaterKeeps
<1> QED  BY <1>4, <1>5, <1>6

LEMMA ApprovalStep ==
    ASSUME IInv, OnApprovalTxPublished
    PROVE  Kept(net', chain', task', drive', session', bg')
<1>1. /\ bg \in Seq(BgJobs) /\ task \in Tasks /\ chain \in Chains
      /\ Good(Chunks, Saved, task, drive, session, bg)
  BY Basics DEF IInv
<1>2. net' = net /\ session' = session /\ chain' = [chain EXCEPT !.approval = "delivered"]
  BY DEF OnApprovalTxPublished
<1>3. chain' \in Chains  BY ONLY <1>1, <1>2 DEF Chains
<1>4. Good(Chunks, Saved, task', drive', session, bg')
  <2>1. CASE task.phase = "deferred"
    <3>1. PICK p \in {"dead", "over"} : p = "over"  OBVIOUS
    <3>2. task' = [task EXCEPT !.phase = p] /\ drive' = drive /\ bg' = bg
      BY <2>1, <3>1 DEF OnApprovalTxPublished
    <3>3. session = <<>> /\ bg = <<>> /\ task.handle = Null /\ task.removing = {}
      BY <1>1, <2>1 DEF Good, Quiet
    <3>4. task' = [task EXCEPT !.phase = p, !.handle = Null, !.removing = {}]
      BY ONLY <1>1, <3>2, <3>3 DEF Tasks
    <3> QED  BY <1>1, <3>2, <3>3, <3>4, StopKeeps
  <2>2. CASE task.phase # "deferred" /\ (task.phase # "running" \/ task.interrupted)
    <3>1. task' = [task EXCEPT !.phase = task.phase] /\ drive' = drive /\ bg' = bg
      BY <2>2 DEF OnApprovalTxPublished
    <3>2. task' = task  BY ONLY <1>1, <3>1 DEF Tasks
    <3> QED  BY <1>1, <3>1, <3>2
  <2>3. CASE task.phase = "running" /\ ~task.interrupted /\ task.calculated
    <3>1. /\ task' = [task EXCEPT !.received = TRUE, !.phase = "syncing",
                                  !.removing = @ \cup {"sync"}]
          /\ drive' = [drive EXCEPT !.used = drive.map \cap task.tree] /\ bg' = bg
      BY <2>3 DEF OnApprovalTxPublished
    <3> QED  BY <1>1, <2>3, <3>1, SyncStartKeeps
  <2>4. CASE task.phase = "running" /\ ~task.interrupted /\ ~task.calculated
    <3>1. PICK z : z = TRUE  OBVIOUS
    <3>2. PICK t : t = [task EXCEPT !.received = z]  OBVIOUS
    <3>3. BreakTorrentDownload(t) /\ drive' = drive
      BY <2>4, <3>1, <3>2 DEF OnApprovalTxPublished
    <3>4. MayBreak(task, z)  BY <2>4, <3>1 DEF MayBreak
    <3> QED  BY <3>2, <3>3, <3>4, BreakStep
  <2> QED  BY <2>1, <2>2, <2>3, <2>4
<1> QED  BY <1>2, <1>3, <1>4, Basics DEF Kept

LEMMA CancelStep ==
    ASSUME IInv, CancelStream
    PROVE  Kept(net', chain', task', drive', session', bg')
<1>1. task \in Tasks  BY Basics
<1>2. /\ net' = net /\ session' = session /\ chain' = chain /\ drive' = drive
      /\ BreakTorrentDownload(task) /\ task.phase \in {"running", "syncing"}
      /\ ~task.interrupted
  BY DEF CancelStream
<1>3. PICK z : z = task.received  OBVIOUS
<1>4. task = [task EXCEPT !.received = z]  BY ONLY <1>1, <1>3 DEF Tasks
<1>5. MayBreak(task, z)  BY <1>2, <1>3 DEF MayBreak
<1>6. Good(Chunks, Saved, task', drive, session, bg')
  BY <1>2, <1>4, <1>5, BreakStep
<1> QED  BY <1>2, <1>6, Basics DEF Kept

LEMMA RemovedStep ==
    ASSUME IInv, TorrentsAreRemoved
    PROVE  Kept(net', chain', task', drive', session', bg')
<1>1. /\ bg \in Seq(BgJobs) /\ task \in Tasks
      /\ Good(Chunks, Saved, task, drive, session, bg)
  BY Basics DEF IInv
<1>2. net' = net /\ chain' = chain /\ drive' = drive /\ session' = session
  BY DEF TorrentsAreRemoved
<1>3. CASE /\ "break" \in task.removing
           /\ task' = Ending([task EXCEPT !.removing = @ \ {"break"}])
           /\ bg' = Append(bg, "clear")
  <2>1. PICK R : R = task.removing \ {"break"}  OBVIOUS
  <2>2. PICK t : t = [task EXCEPT !.removing = R]  OBVIOUS
  <2>3. task' = Ending(t)  BY <1>3, <2>1, <2>2
  <2>4. t.ends = task.ends  BY ONLY <1>1, <2>2 DEF Tasks
  <2>5. PICK m : m = More(task.ends)  OBVIOUS
  <2>6. task' = [t EXCEPT !.ends = m]  BY <2>3, <2>4, <2>5 DEF Ending, More
  <2>7. task' = [task EXCEPT !.removing = R, !.ends = m]
    BY ONLY <1>1, <2>2, <2>6 DEF Tasks
  <2>8. bg' \in Seq(BgJobs) /\ BgAlike(bg, bg')  BY <1>1, <1>3, PostIdleBgJob
  <2>9. Good(Chunks, Saved, task', drive, session, bg')
    BY <1>1, <1>3, <2>1, <2>5, <2>7, <2>8, BreakEndKeeps
  <2> QED  BY <1>2, <2>9, Basics DEF Kept
<1>4. CASE /\ "sync" \in task.removing
           /\ task' = [task EXCEPT !.removing = @ \ {"sync"}]
           /\ bg' = Append(bg, "sync")
  <2>1. Good(Chunks, Saved, task', drive, session, bg')  BY <1>1, <1>4, SyncGoesOn
  <2> QED  BY <1>2, <2>1, Basics DEF Kept
<1> QED  BY <1>3, <1>4 DEF TorrentsAreRemoved

LEMMA ContinueStep ==
    ASSUME IInv, ContinueSynchronizing
    PROVE  Kept(net', chain', task', drive', session', bg')
<1>1. Good(Chunks, Saved, task, drive, session, bg)  BY DEF IInv
<1>2. /\ bg # <<>> /\ Head(bg) = "sync" /\ bg' = Tail(bg)
      /\ session' = Append(session, "synced")
      /\ drive' = [drive EXCEPT !.files = @ \ (drive.map \ drive.used), !.map = drive.used]
      /\ UNCHANGED <<net, chain, task>>
  BY DEF ContinueSynchronizing
<1>3. Good(Chunks, Saved, task, drive', session', bg')  BY <1>1, <1>2, SynchronizeKeeps
<1> QED  BY <1>2, <1>3, Basics DEF Kept

LEMMA ModifyStep ==
    ASSUME IInv, ModifyIsCompleted
    PROVE  Kept(net', chain', task', drive', session', bg')
<1>1. /\ bg \in Seq(BgJobs) /\ task \in Tasks
      /\ Good(Chunks, Saved, task, drive, session, bg)
  BY Basics DEF IInv
<1>2. /\ session # <<>> /\ Head(session) = "synced" /\ session' = Tail(session)
      /\ drive' = [drive EXCEPT !.tree = task.tree]
      /\ task' = Ending([task EXCEPT !.phase = "ending"])
      /\ bg' = Append(bg, "clear")
      /\ UNCHANGED <<net, chain>>
  BY DEF ModifyIsCompleted
<1>3. PICK t : t = [task EXCEPT !.phase = "ending"]  OBVIOUS
<1>4. t.ends = task.ends  BY ONLY <1>1, <1>3 DEF Tasks
<1>5. PICK m : m = More(task.ends)  OBVIOUS
<1>6. task' = [t EXCEPT !.ends = m]  BY <1>2, <1>3, <1>4, <1>5 DEF Ending, More
<1>7. task' = [task EXCEPT !.phase = "ending", !.ends = m]
  BY ONLY <1>1, <1>3, <1>6 DEF Tasks
<1>8. bg' \in Seq(BgJobs) /\ BgAlike(bg, bg')  BY <1>1, <1>2, PostIdleBgJob
<1>9. Good(Chunks, Saved, task', drive', session', bg')
  BY <1>1, <1>2, <1>5, <1>7, <1>8, ModifyIsCompletedKeeps
<1> QED  BY <1>2, <1>9, Basics DEF Kept

LEMMA RunNextStep ==
    ASSUME IInv, RunNextTask
    PROVE  Kept(net', chain', task', drive', session', bg')
<1>1. Good(Chunks, Saved, task, drive, session, bg)  BY DEF IInv
<1>2. PICK p \in {"dead", "over"} : p = "over"  OBVIOUS
<1>3. /\ task' = [task EXCEPT !.phase = p, !.handle = Null, !.removing = {}]
      /\ session' = <<>> /\ bg' = <<>> /\ UNCHANGED <<net, chain, drive>>
  BY <1>2 DEF RunNextTask
<1>4. Good(Chunks, Saved, task', drive, <<>>, <<>>)  BY <1>1, <1>3, StopKeeps
<1> QED  BY <1>3, <1>4, Basics DEF Kept

LEMMA RunStep ==
    ASSUME IInv, RunStreamTask
    PROVE  Kept(net', chain', task', drive', session', bg')
<1>1. Good(Chunks, Saved, task, drive, session, bg)  BY DEF IInv
<1>2. /\ task.phase = "deferred" /\ task' = [task EXCEPT !.phase = "running"]
      /\ UNCHANGED <<net, chain, drive, session, bg>>
  BY DEF RunStreamTask
<1>3. Good(Chunks, Saved, task', drive, session, bg)  BY <1>1, <1>2, RunKeeps
<1> QED  BY <1>2, <1>3, Basics DEF Kept

\* The streamer announces its next chunk, or publishes the end.
LEMMA StreamerSteps ==
    ASSUME IInv, AddMediaToStream \/ FinishStream
    PROVE  /\ Kept(net', chain', task', drive', session', bg')
           /\ StreamerInv(streamer') /\ streamer'.stream = streamer.stream
<1>1. /\ net \in Nets /\ chain \in Chains /\ streamer \in Streamers
      /\ Len(Chunks) \in Nat /\ StreamerInv(streamer)
      /\ Good(Chunks, Saved, task, drive, session, bg)
  BY Basics DEF IInv
<1>2. UNCHANGED <<drive, task, session, bg>>  BY DEF AddMediaToStream, FinishStream
<1>3. CASE AddMediaToStream
  <2>1. PICK n : n = streamer.added + 1  OBVIOUS
  <2>2. streamer' = [streamer EXCEPT !.added = n] /\ streamer.added < Len(Chunks)
    BY <1>3, <2>1 DEF AddMediaToStream
  <2>3. n \in Nat /\ n \in 1..Len(Chunks)
    BY ONLY <1>1, <2>1, <2>2 DEF Streamers
  <2>4. streamer' \in Streamers /\ streamer'.added = n /\ streamer'.stream = streamer.stream
    BY ONLY <1>1, <2>2, <2>3 DEF Streamers
  <2>5. n <= Len(streamer'.stream.chunks)  BY <1>1, <2>3, <2>4 DEF Chunks
  <2>6. net' = [net EXCEPT !.infos = @ \cup {n}] /\ chain' = chain
    BY <1>3, <2>4 DEF AddMediaToStream
  <2>7. NetInv(net', Chunks)  BY <1>1, <2>3, <2>6 DEF IInv, NetInv, Nets
  <2> QED  BY <1>1, <1>2, <2>4, <2>5, <2>6, <2>7 DEF Kept, StreamerInv
<1>4. CASE FinishStream
  <2>1. /\ streamer' = [streamer EXCEPT !.finished = TRUE]
        /\ chain' = [chain EXCEPT !.finish = "published"] /\ net' = net
    BY <1>4 DEF FinishStream
  <2>2. chain' \in Chains  BY ONLY <1>1, <2>1 DEF Chains
  <2>3. /\ streamer' \in Streamers /\ streamer'.added = streamer.added
        /\ streamer'.stream = streamer.stream
    BY ONLY <1>1, <2>1 DEF Streamers
  <2> QED  BY <1>1, <1>2, <2>1, <2>2, <2>3 DEF Kept, StreamerInv, IInv
<1> QED  BY <1>3, <1>4

------------------------------------------------------------------------------
(* The theorems *)

LEMMA InitGood ==
    ASSUME Init
    PROVE  IInv
<1>1. /\ streamer \in Streamers /\ streamer.added = 0 /\ streamer.stream \in Streams
  <2>1. PICK F : F = {FALSE}  OBVIOUS
  <2>2. F \subseteq BOOLEAN  BY <2>1
  <2>3. streamer \in [stream : Streams, added : {0}, finished : F]  BY <2>1 DEF Init
  <2> QED  BY ONLY <2>2, <2>3 DEF Streamers
<1>2. /\ Chunks \in Seq(Contents) /\ Chunks # <<>>
      /\ streamer.stream.from \in 1..Len(Chunks) /\ streamer.stream.to \in 1..Len(Chunks)
  BY <1>1, StreamAssumption DEF Chunks
<1>3. Len(Chunks) \in Nat /\ Saved \subseteq Range(Chunks)
  <2>1. \A i \in streamer.stream.from..streamer.stream.to : i \in 1..Len(Chunks)
    BY <1>2
  <2> QED  BY <1>2, <2>1 DEF Saved, Range
<1>4. StreamerInv(streamer)  BY <1>1, <1>3 DEF StreamerInv, Chunks
<1>5. NetInv(net, Chunks)  BY <1>3 DEF Init, NetInv, Nets
<1>6. chain \in Chains  BY DEF Init, Chains
<1>7. PICK s : s = Chunks  OBVIOUS
<1>8. /\ drive \in Drives /\ drive.map = {} /\ drive.files = {} /\ drive.tree = Null
  <2>1. PICK e \in SUBSET Contents : e = {}  OBVIOUS
  <2>2. drive = [map |-> e, files |-> e, used |-> e, tree |-> Null]  BY <2>1 DEF Init
  <2>3. Null \in (SUBSET Contents) \cup {Null}  OBVIOUS
  <2>4. /\ drive \in Drives /\ drive.map = e /\ drive.files = e /\ drive.tree = Null
    BY ONLY e \in SUBSET Contents, <2>2, <2>3 DEF Drives
  <2> QED  BY <2>1, <2>4
<1>9. PICK p : p = IF streamer.stream.waits THEN "deferred" ELSE "running"  OBVIOUS
<1>10. PICK no \in BOOLEAN : no = FALSE  OBVIOUS
<1>11. /\ task \in Tasks /\ task.phase = p /\ p \in {"deferred", "running"}
       /\ task.infos = <<>> /\ task.current = 0 /\ task.handle = Null
       /\ task.finish = "none" /\ task.opinion = Null
       /\ ~task.calculated /\ ~task.received /\ ~task.interrupted
       /\ task.removing = {} /\ task.completed = 0 /\ ~task.early /\ task.ends = 0
  <2>1. p \in {"deferred", "running"}  BY <1>9
  <2>2. PICK none \in Seq(Contents \cup {Null}) : none = <<>>
    <3>1. <<>> \in Seq(Contents \cup {Null})  OBVIOUS
    <3> QED  BY ONLY <3>1, Zenon
  <2>3. PICK e \in SUBSET Contents : e = {}  OBVIOUS
  <2>4. PICK r \in SUBSET {"break", "sync"} : r = {}  OBVIOUS
  <2>5. PICK f \in Finishes : f = "none"  BY DEF Finishes
  <2>6. task = [phase |-> p, infos |-> none, current |-> 0, handle |-> Null,
                finish |-> f, first |-> 0, tree |-> e,
                opinion |-> Null, calculated |-> no, received |-> no,
                interrupted |-> no, removing |-> r, completed |-> 0,
                early |-> no, full |-> no, ends |-> 0]
    <3>1. task = [phase |-> p, infos |-> <<>>, current |-> 0, handle |-> Null,
                  finish |-> "none", first |-> 0, tree |-> {},
                  opinion |-> Null, calculated |-> FALSE, received |-> FALSE,
                  interrupted |-> FALSE, removing |-> {}, completed |-> 0,
                  early |-> FALSE, full |-> FALSE, ends |-> 0]
      BY <1>9 DEF Init, NewTask
    <3> QED  BY ONLY <1>10, <2>2, <2>3, <2>4, <2>5, <3>1, Zenon
  <2>7. /\ task \in Tasks /\ task.phase = p /\ task.infos = none /\ task.current = 0
        /\ task.handle = Null /\ task.finish = f /\ task.opinion = Null
        /\ task.calculated = no /\ task.received = no /\ task.interrupted = no
        /\ task.removing = r /\ task.completed = 0 /\ task.early = no /\ task.ends = 0
    BY ONLY <1>10, <2>1, <2>2, <2>3, <2>4, <2>5, <2>6 DEF Tasks, Phases
  <2> QED  BY ONLY <1>10, <2>1, <2>2, <2>4, <2>5, <2>7, Zenon
<1>12. session = <<>> /\ bg = <<>>  BY DEF Init
<1>13. \A J : ~Has(<<>>, J) /\ Once(<<>>, J)  BY HasNone
<1>14. /\ ~SyncWaits(task, <<>>) /\ ~Syncing(task, <<>>, <<>>) /\ ~Opining(<<>>, <<>>)
  BY <1>11, <1>13 DEF SyncWaits, Syncing, Opining
<1>15. Typed(s, Saved, task, drive, <<>>, <<>>)
  BY <1>2, <1>3, <1>7, <1>8, <1>11 DEF Typed
<1>16. Announced(s, task, <<>>)
  <2>1. Len(task.infos) = 0  BY <1>11
  <2> QED  BY <1>3, <1>7, <1>11, <1>13, <2>1 DEF Announced
<1>17. Downloads(s, task, drive, <<>>)
  <2>1. Passed(s, 0) = {}  BY DEF Passed
  <2> QED  BY <1>8, <1>11, <2>1 DEF Downloads, HandleIsLast
<1>18. Quiet(task, <<>>, <<>>)  BY <1>11 DEF Quiet
<1>19. SyncJobs(task, drive, <<>>, <<>>)  BY <1>8, <1>11, <1>13, <1>14 DEF SyncJobs
<1>20. OpinionJobs(Saved, task, <<>>, <<>>)  BY <1>11, <1>14 DEF OpinionJobs
<1>21. Completed(s, Saved, task, drive, <<>>, <<>>)  BY <1>11, <1>13 DEF Completed
<1>22. OneEnd(s, task, drive, <<>>, <<>>)
  BY <1>11, <1>13, <1>14 DEF OneEnd, OpinionOnce
<1>23. Good(s, Saved, task, drive, <<>>, <<>>)
  BY <1>15, <1>16, <1>17, <1>18, <1>19, <1>20, <1>21, <1>22 DEF Good
<1> QED  BY <1>4, <1>5, <1>6, <1>7, <1>12, <1>23 DEF IInv

LEMMA NextGood ==
    ASSUME IInv, [Next]_vars
    PROVE  IInv'
<1>1. /\ StreamerInv(streamer') /\ streamer'.stream = streamer.stream
      /\ Kept(net', chain', task', drive', session', bg')
  <2>1. StreamerInv(streamer)  BY DEF IInv
  <2>2. CASE AddMediaToStream \/ FinishStream  BY <2>2, StreamerSteps
  <2>3. ASSUME NEW i \in Index,
               SendSingleChunkInfo(i) \/ LoseInfo(i) \/ LoseRequest(i) \/ AcceptChunkInfo(i)
        PROVE  /\ StreamerInv(streamer') /\ streamer'.stream = streamer.stream
               /\ Kept(net', chain', task', drive', session', bg')
    <3>1. streamer' = streamer
      BY <2>3 DEF SendSingleChunkInfo, LoseInfo, LoseRequest, AcceptChunkInfo
    <3> QED  BY <2>1, <2>3, <3>1, NetSteps, AcceptStep
  <2>4. CASE SessionThread
    <3>1. streamer' = streamer
      BY <2>4 DEF SessionThread, DownloadNextChunk, RequestMissingChunkInfo,
            MyRootHashIsCalculated, MyOpinionIsCreated, ModifyIsCompleted, RunNextTask
    <3> QED  BY <2>1, <2>4, <3>1, DownloadStep, RequestStep, RootStep, CreatedStep,
               ModifyStep, RunNextStep DEF SessionThread
  <2>5. CASE BackgroundThread
    <3>1. streamer' = streamer
      BY <2>5 DEF BackgroundThread, ParseFinishInfoFile, CheckFinish,
            CompleteStreamFinishing, SaveAndCallBack, ContinueSynchronizing
    <3> QED  BY <2>1, <2>5, <3>1, ParseStep, CheckStep, CompleteStep, SaveStep,
               ContinueStep DEF BackgroundThread
  <2>6. CASE Torrents
    <3>1. streamer' = streamer
      BY <2>6 DEF Torrents, ChunkIsDownloaded, FinishInfoIsDownloaded, TorrentsAreRemoved
    <3> QED  BY <2>1, <2>6, <3>1, ChunkStep, FinishInfoStep, RemovedStep DEF Torrents
  <2>7. CASE AcceptFinishStreamTx \/ ApproveStream \/ OnApprovalTxPublished
    <3>1. streamer' = streamer
      BY <2>7 DEF AcceptFinishStreamTx, ApproveStream, OnApprovalTxPublished
    <3> QED  BY <2>1, <2>7, <3>1, FinishTxStep, ApproveStep, ApprovalStep
  <2>8. CASE RunStreamTask \/ CancelStream
    <3>1. streamer' = streamer  BY <2>8 DEF RunStreamTask, CancelStream
    <3> QED  BY <2>1, <2>8, <3>1, RunStep, CancelStep
  <2>9. CASE UNCHANGED vars
    <3>1. /\ streamer' = streamer /\ net' = net /\ chain' = chain /\ drive' = drive
          /\ task' = task /\ session' = session /\ bg' = bg
      BY <2>9 DEF vars
    <3> QED  BY <2>1, <3>1, Basics
  <2> QED  BY <2>2, <2>3, <2>4, <2>5, <2>6, <2>7, <2>8, <2>9 DEF Next
<1>2. Chunks' = Chunks /\ Saved' = Saved
  <2>1. Chunks' = Chunks  BY <1>1 DEF Chunks
  <2> QED  BY <1>1, <2>1 DEF Saved
<1>3. /\ StreamerInv(streamer)' /\ NetInv(net, Chunks)' /\ chain' \in Chains
      /\ Good(Chunks, Saved, task, drive, session, bg)'
  BY <1>1, <1>2 DEF Kept
<1> QED  BY <1>3 DEF IInv

LEMMA AlwaysGood == Spec => []IInv
<1>1. Init => IInv  BY InitGood
<1>2. IInv /\ [Next]_vars => IInv'  BY NextGood
<1> QED  BY <1>1, <1>2, PTL DEF Spec

LEMMA GoodIsInOrder ==
    ASSUME IInv
    PROVE  ChunksInOrder
<1>1. /\ task \in Tasks /\ drive \in Drives /\ net \in Nets /\ streamer \in Streamers
      /\ Chunks \in Seq(Contents) /\ Len(Chunks) \in Nat
      /\ Good(Chunks, Saved, task, drive, session, bg)
  BY Basics DEF IInv
<1>2. TypeOK
  <2>1. streamer.added \in 0..Len(Chunks)
    BY <1>1 DEF IInv, StreamerInv, Streamers, Chunks
  <2>2. net.infos \cup net.asks \cup net.answers \cup net.missed \subseteq Index
    BY DEF IInv, NetInv, Index
  <2>3. drive.used \subseteq Contents /\ drive.map \subseteq Contents
    BY <1>1 DEF Drives
  <2>4. /\ task.current <= Len(task.infos) /\ Len(task.infos) <= Len(Chunks)
        /\ task.infos \in Seq(Contents \cup {Null}) /\ task.handle \in Contents \cup {Null}
    BY <1>1 DEF Good, Announced, Tasks
  <2> QED  BY <2>1, <2>2, <2>3, <2>4 DEF TypeOK
<1> SUFFICES ASSUME task.phase = "running", ~task.interrupted
             PROVE  /\ \A i \in 1..task.current :
                        /\ task.infos[i] = Chunks[i]
                        /\ \/ task.infos[i] \in drive.files
                           \/ i = task.current /\ task.handle = task.infos[i]
                    /\ task.handle # Null => task.handle \notin drive.files
                    /\ drive.map = {task.infos[i] : i \in 1..task.current}
  BY <1>2 DEF ChunksInOrder
<1>3. /\ drive.map = Passed(Chunks, task.current)
      /\ HandleIsLast(Chunks, task, drive)
      /\ Passed(Chunks, task.current) \subseteq drive.files \cup {task.handle}
  BY <1>1 DEF Good, Downloads, Unsynced
<1>4. /\ task.current \in Nat /\ task.current <= Len(Chunks)
      /\ \A i \in 1..task.current : task.infos[i] = Chunks[i]
  <2>1. Len(task.infos) \in Nat  BY <1>1 DEF Tasks
  <2> QED  BY <1>1, <2>1 DEF Good, Announced, Tasks
<1>5. ASSUME NEW i \in 1..task.current, Chunks[i] \notin drive.files
      PROVE  i = task.current /\ task.handle = Chunks[i]
  <2>1. task.handle = Chunks[i]  BY <1>3, <1>5 DEF Passed
  <2>2. Chunks[i] \in Contents /\ Chunks[i] # Null
    BY <1>1, <1>4, StreamAssumption
  <2>3. task.handle \notin Passed(Chunks, task.current - 1)
    BY <1>3, <2>1, <2>2 DEF HandleIsLast
  <2>4. i \notin 1..(task.current - 1)  BY <2>1, <2>3 DEF Passed
  <2> QED  BY <1>4, <2>1, <2>4
<1>6. drive.map = {task.infos[i] : i \in 1..task.current}
  BY <1>3, <1>4 DEF Passed
<1>7. task.handle # Null => task.handle \notin drive.files  BY <1>3 DEF HandleIsLast
<1> QED  BY <1>4, <1>5, <1>6, <1>7

\* Chunks are downloaded one by one: m_downloadingChunkInfoIt only passes
\* chunks that are announced and complete, however the announcements come, and
\* no chunk is downloaded twice.
THEOREM ChunksInOrderTheorem == Spec => []ChunksInOrder
<1>1. IInv => ChunksInOrder  BY GoodIsInOrder
<1> QED  BY <1>1, AlwaysGood, PTL

\* continueSynchronizingDriveWithSandbox leaves on the drive the chunks that the
\* finish-info file keeps, and if the last chunk is new no others: for streams of any
\* length, also when checkFinishCondition took the last chunk for received while it was
\* downloaded; only of that one nothing is claimed then.
THEOREM DriveIsTheStreamTheorem == Spec => []DriveIsTheStream
<1>1. IInv => DriveIsTheStream
  <2> SUFFICES ASSUME IInv, drive.tree # Null
               PROVE  /\ Saved \subseteq drive.map
                      /\ LastIsNew => /\ drive.map = Saved
                                      /\ drive.files \cup Late(Chunks, task.early)
                                             = Saved \cup Late(Chunks, task.early)
                      /\ ~task.early => Saved \subseteq drive.files
    BY DEF DriveIsTheStream, Late, Last
  <2>1. Good(Chunks, Saved, task, drive, session, bg)  BY DEF IInv
  <2>2. task.completed # 0  BY <2>1 DEF Good, SyncJobs, OpinionJobs
  <2>3. Synced(Chunks, Saved, task, drive)  BY <2>1, <2>2 DEF Good, Completed
  <2>4. LastIsNew => NewLast(Chunks)  BY DEF LastIsNew, NewLast
  <2> QED  BY <2>3, <2>4 DEF Synced
<1> QED  BY <1>1, AlwaysGood, PTL

\* finishTask is called once for a stream that is completed once, with all its
\* chunks: the ways to the end (a synchronization, an opinion that meets the
\* interruption, the removal of the torrents) exclude each other.
THEOREM EndsOnceTheorem == Spec => []EndsOnce
<1>1. IInv => EndsOnce
  <2> SUFFICES ASSUME IInv, task.completed < 2, ~task.early, LastIsNew
               PROVE  task.ends < 2
    BY DEF EndsOnce
  <2>1. NewLast(Chunks)  BY DEF LastIsNew, NewLast
  <2> QED  BY <2>1 DEF IInv, Good, OneEnd
<1> QED  BY <1>1, AlwaysGood, PTL

------------------------------------------------------------------------------
(* The viewer of a stream *)

Viewers == [infos : 0..N, next : 0..N, handle : Handles \cup {NoDownload},
            files : SUBSET Indices, marked : SUBSET Indices, playlist : SUBSET Indices,
            saved : BOOLEAN, votes : SUBSET Replicators, received : BOOLEAN,
            hash : BOOLEAN, posted : BOOLEAN, complete : BOOLEAN]

\* What may be on the way to the viewer, when n chunks were announced.
Answers(n) == {Infos(f, l) : f \in 1..(N + 1), l \in 0..n} \cup {Ended}
                  \cup {PlaylistHash(r) : r \in Replicators}

Loads(v, kind) == v.handle # NoDownload /\ v.handle.kind = kind

\* The chunk that is downloaded live is the one the viewer counts as the next
\* one, and all before it are marked.
Watches(v) ==
    /\ v.next <= v.infos
    /\ Loads(v, "live") => v.next \in Nat \ {0} /\ v.handle.chunk = v.next
    /\ v.marked = IF Loads(v, "live") THEN 1..(v.next - 1) ELSE 1..v.next
    /\ v.marked \subseteq v.files

\* While the saved stream is downloaded nothing else is; before that, only
\* chunks that are marked are there.
Replays(v) ==
    /\ Loads(v, "saved") => v.saved
    /\ v.saved /\ ~v.complete => Loads(v, "saved")
    /\ ~v.saved => v.playlist \subseteq v.files
    /\ ~v.saved /\ ~v.complete => v.files = v.marked
    /\ ~v.saved /\ ~v.complete /\ v.playlist # {} =>
           \E i \in v.playlist : \A j \in v.files : j <= i

Watching(n, answered, v) ==
    /\ n \in 0..N /\ answered \subseteq Answers(n)
    /\ v \in Viewers /\ v.infos <= n
    /\ Watches(v) /\ Replays(v)

WInv == /\ ended \subseteq Replicators /\ kept \subseteq Indices
        /\ Watching(announced, answers, viewer)

\* Of chunks that are all marked the playlist has the last ones.
LEMMA PlaylistOfMarked ==
    ASSUME NEW last \in Nat \ {0}
    PROVE  /\ UpdatePlaylist(last, 1..last) \subseteq 1..last
           /\ last \in UpdatePlaylist(last, 1..last)
<1> DEFINE before == {f \in 1..last : /\ last - f <= MaxWindow
                                      /\ \A i \in f..(last - 1) : i \in 1..last}
           first == IF last - 1 <= MaxWindow THEN 1 ELSE last - MaxWindow
           full == CHOOSE f \in before : \A g \in before : f <= g
<1>1. MaxWindow \in Nat \ {0}  BY ViewerAssumption
<1>2. before = {f \in 1..last : last - f <= MaxWindow}  OBVIOUS
<1>3. first \in before /\ \A g \in before : first <= g  BY <1>1, <1>2
<1> HIDE DEF before
<1>4. full \in before /\ \A g \in before : full <= g  BY <1>3
<1>5. full <= first /\ full \in 1..last /\ last - full <= MaxWindow  BY <1>2, <1>3, <1>4
<1>6. ~(full > 1 /\ last - full < MaxWindow)  BY <1>1, <1>5
<1>7. UpdatePlaylist(last, 1..last) = full..last  BY <1>6 DEF UpdatePlaylist, before
<1> QED  BY <1>5, <1>7

LEMMA HandleKinds ==
    /\ Playlist \in Handles /\ Playlist # NoDownload /\ Playlist.kind = "playlist"
    /\ \A i \in Indices : /\ Live(i) \in Handles /\ Live(i) # NoDownload
                          /\ Live(i).kind = "live" /\ Live(i).chunk = i
                          /\ SavedChunk(i) \in Handles /\ SavedChunk(i) # NoDownload
                          /\ SavedChunk(i).kind = "saved" /\ SavedChunk(i).chunk = i
    /\ \A h \in Handles : h.kind # "playlist" => h.chunk \in Indices
<1>1. Playlist \in Handles /\ \A i \in Indices : Live(i) \in Handles /\ SavedChunk(i) \in Handles
  BY DEF Handles
<1>2. \A h \in Handles : h # NoDownload  BY ViewerAssumption
<1>3. /\ Playlist.kind = "playlist"
      /\ \A i \in Indices : /\ Live(i).kind = "live" /\ Live(i).chunk = i
                            /\ SavedChunk(i).kind = "saved" /\ SavedChunk(i).chunk = i
  BY DEF Live, SavedChunk, Playlist
<1>4. \A h \in Handles : h.kind # "playlist" => h.chunk \in Indices
  BY <1>3 DEF Handles
<1> QED  BY <1>1, <1>2, <1>3, <1>4

\* tryLoadNextChunk goes on with the next chunk or with the saved playlist.
LEMMA TryLoadWatches ==
    ASSUME NEW v \in Viewers, Watches(v), Replays(v)
    PROVE  /\ TryLoadNextChunk(v) \in Viewers
           /\ Watches(TryLoadNextChunk(v)) /\ Replays(TryLoadNextChunk(v))
           /\ TryLoadNextChunk(v).infos = v.infos
<1> DEFINE w == TryLoadNextChunk(v)
<1>1. CASE w = v  BY <1>1
<1>2. CASE v.handle = NoDownload /\ v.hash /\ w = [v EXCEPT !.handle = Playlist]
  BY <1>2, HandleKinds DEF Viewers, Watches, Replays, Loads
<1>3. CASE /\ v.handle = NoDownload /\ v.infos > v.next
           /\ w = [v EXCEPT !.next = @ + 1, !.handle = Live(v.next + 1)]
  <2> DEFINE n == v.next + 1
  <2>1. n \in Indices /\ n \in Nat \ {0} /\ n \in 0..N /\ n - 1 = v.next /\ n <= v.infos
    BY <1>3, ViewerAssumption DEF Viewers, Indices
  <2>2. /\ w = [v EXCEPT !.next = n, !.handle = Live(n)]
        /\ Live(n) \in Handles /\ Live(n) # NoDownload
        /\ Live(n).kind = "live" /\ Live(n).chunk = n
    BY <1>3, <2>1, HandleKinds
  <2> HIDE DEF n
  <2>3. w \in Viewers  BY <2>1, <2>2 DEF Viewers
  <2>4. /\ w.next = n /\ w.handle = Live(n) /\ w.infos = v.infos /\ w.marked = v.marked
        /\ w.files = v.files /\ w.playlist = v.playlist /\ w.saved = v.saved
        /\ w.complete = v.complete
    BY <2>2 DEF Viewers
  <2> HIDE DEF w
  <2>5. Watches(w)  BY <1>3, <2>1, <2>2, <2>4 DEF Watches, Loads
  <2>6. Replays(w)  BY <1>3, <2>2, <2>4 DEF Replays, Loads
  <2> QED  BY <2>3, <2>4, <2>5, <2>6 DEF w
<1> QED  BY <1>1, <1>2, <1>3 DEF TryLoadNextChunk, Viewers

\* continueDownloadChunks goes on with a chunk that is not marked, or ends.
LEMMA ContinueWatches ==
    ASSUME NEW v \in Viewers, NEW after, v.saved, v.next <= v.infos,
           v.marked = 1..v.next, v.marked \subseteq v.files
    PROVE  /\ ContinueDownloadChunks(v, after) \in Viewers
           /\ Watches(ContinueDownloadChunks(v, after))
           /\ Replays(ContinueDownloadChunks(v, after))
           /\ ContinueDownloadChunks(v, after).infos = v.infos
<1> DEFINE w == ContinueDownloadChunks(v, after)
           left == {i \in Indices : i > after /\ i \notin v.marked}
<1>1. CASE left = {}
  <2>1. w = [v EXCEPT !.handle = NoDownload, !.complete = TRUE]
    BY <1>1 DEF ContinueDownloadChunks
  <2> QED  BY <2>1 DEF Viewers, Watches, Replays, Loads
<1>2. CASE left # {}
  <2> DEFINE c == CHOOSE i \in left : \A j \in left : i <= j
  <2>1. left \in SUBSET Nat  BY ViewerAssumption DEF Indices
  <2>2. \E i \in left : \A j \in left : i <= j  BY <1>2, <2>1, Smallest
  <2>3. c \in Indices  BY <2>2
  <2>4. w = [v EXCEPT !.handle = SavedChunk(c)]  BY <1>2 DEF ContinueDownloadChunks
  <2>5. /\ SavedChunk(c) \in Handles /\ SavedChunk(c) # NoDownload
        /\ SavedChunk(c).kind = "saved"
    BY <2>3, HandleKinds
  <2> HIDE DEF c
  <2> QED  BY <2>4, <2>5 DEF Viewers, Watches, Replays, Loads
<1> QED  BY <1>1, <1>2

LEMMA LiveWatches ==
    ASSUME WInv, LiveChunkIsDownloaded
    PROVE  viewer' \in Viewers /\ viewer'.infos = viewer.infos
           /\ Watches(viewer') /\ Replays(viewer')
<1> DEFINE n == viewer.next
           files == viewer.files \cup {viewer.handle.chunk}
           marked == viewer.marked \cup {n}
           list == UpdatePlaylist(n, marked)
           v == [viewer EXCEPT !.handle = NoDownload, !.files = files, !.marked = marked,
                               !.playlist = list, !.saved = FALSE]
<1>1. viewer \in Viewers /\ Watches(viewer) /\ Replays(viewer) /\ Loads(viewer, "live")
  BY DEF WInv, Watching, LiveChunkIsDownloaded, Loads
<1>2. n \in Nat \ {0} /\ n \in Indices /\ viewer.handle.chunk = n /\ viewer.marked = 1..(n - 1)
  BY <1>1, ViewerAssumption DEF Watches, Viewers, Indices
<1>3. marked = 1..n /\ files = viewer.files \cup {n}  BY <1>2
<1>4. list \subseteq 1..n /\ n \in list  BY <1>2, <1>3, PlaylistOfMarked
<1>5. 1..n \subseteq Indices /\ marked \subseteq Indices /\ files \subseteq Indices
      /\ list \subseteq Indices
  BY <1>1, <1>2, <1>3, <1>4, ViewerAssumption DEF Viewers, Indices
<1>6. viewer' = TryLoadNextChunk(v)  BY DEF LiveChunkIsDownloaded
<1> HIDE DEF files, marked, list
<1>7. v \in Viewers  BY <1>1, <1>5 DEF Viewers
<1>8. /\ v.handle = NoDownload /\ v.files = files /\ v.marked = marked /\ v.playlist = list
      /\ v.saved = FALSE /\ v.next = n /\ v.infos = viewer.infos
      /\ v.complete = viewer.complete
  BY <1>1 DEF Viewers
<1> HIDE DEF v
<1>9. Watches(v)  BY <1>1, <1>2, <1>3, <1>8 DEF Watches, Loads
<1>10. ~viewer.complete => files = marked
  BY <1>1, <1>2, <1>3 DEF Watches, Replays, Loads
<1>11. list \subseteq files  BY <1>1, <1>2, <1>3, <1>4 DEF Watches
<1>12. files = marked => \A j \in files : j <= n  BY <1>2, <1>3
<1>13. Replays(v)  BY <1>4, <1>8, <1>10, <1>11, <1>12 DEF Replays, Loads
<1> QED  BY <1>6, <1>7, <1>8, <1>9, <1>13, TryLoadWatches

LEMMA PlaylistWatches ==
    ASSUME WInv, PlaylistIsDownloaded
    PROVE  viewer' \in Viewers /\ viewer'.infos = viewer.infos
           /\ Watches(viewer') /\ Replays(viewer')
<1> DEFINE v == [viewer EXCEPT !.hash = FALSE, !.playlist = Indices, !.saved = TRUE]
<1>1. viewer \in Viewers /\ Watches(viewer)  BY DEF WInv, Watching
<1>2. ~Loads(viewer, "live")  BY HandleKinds DEF PlaylistIsDownloaded, Loads
<1>3. v \in Viewers /\ v.saved /\ v.next <= v.infos /\ v.marked = 1..v.next
      /\ v.marked \subseteq v.files /\ v.infos = viewer.infos
  BY <1>1, <1>2 DEF Viewers, Watches
<1>4. viewer' = ContinueDownloadChunks(v, 0)  BY DEF PlaylistIsDownloaded
<1> HIDE DEF v
<1> QED  BY <1>3, <1>4, ContinueWatches

LEMMA SavedWatches ==
    ASSUME WInv, SavedChunkIsDownloaded
    PROVE  viewer' \in Viewers /\ viewer'.infos = viewer.infos
           /\ Watches(viewer') /\ Replays(viewer')
<1> DEFINE c == viewer.handle.chunk
           v == [viewer EXCEPT !.files = @ \cup {c}]
<1>1. viewer \in Viewers /\ Watches(viewer) /\ Replays(viewer) /\ Loads(viewer, "saved")
  BY DEF WInv, Watching, SavedChunkIsDownloaded, Loads
<1>2. c \in Indices /\ ~Loads(viewer, "live")
  BY <1>1, HandleKinds DEF Viewers, Loads
<1>3. viewer' = ContinueDownloadChunks(v, c)  BY DEF SavedChunkIsDownloaded
<1> HIDE DEF c
<1>4. v \in Viewers /\ v.saved /\ v.next <= v.infos /\ v.marked = 1..v.next
      /\ v.marked \subseteq v.files /\ v.infos = viewer.infos
  BY <1>1, <1>2 DEF Viewers, Watches, Replays
<1> HIDE DEF v
<1> QED  BY <1>3, <1>4, ContinueWatches

LEMMA InfosWatches ==
    ASSUME WInv, NEW m \in answers, HandleInfos(m)
    PROVE  viewer' \in Viewers /\ viewer'.infos <= announced
           /\ Watches(viewer') /\ Replays(viewer')
<1> DEFINE v == [viewer EXCEPT !.infos = IF m.last > @ THEN m.last ELSE @]
<1>1. /\ viewer \in Viewers /\ viewer.infos <= announced /\ announced \in 0..N
      /\ Watches(viewer) /\ Replays(viewer)
  BY DEF WInv, Watching
<1>2. m \in Answers(announced) /\ m.query = "infos"  BY DEF WInv, Watching, HandleInfos
<1>3. m.last \in 0..announced
  BY <1>2 DEF Answers, Infos, Ended, PlaylistHash
<1>4. CASE m.first > viewer.infos + 1
  BY <1>1, <1>4 DEF HandleInfos, AddChunkInfos
<1>5. CASE ~(m.first > viewer.infos + 1)
  <2>1. viewer' = TryLoadNextChunk(v)  BY <1>5 DEF HandleInfos, AddChunkInfos
  <2>2. PICK i : i = v.infos  OBVIOUS
  <2>3. v = [viewer EXCEPT !.infos = i] /\ i \in 0..N /\ i <= announced /\ viewer.infos <= i
    BY <1>1, <1>3, <2>2, ViewerAssumption DEF Viewers
  <2> HIDE DEF v
  <2>4. v \in Viewers  BY <1>1, <2>3 DEF Viewers
  <2>5. /\ v.next = viewer.next /\ v.handle = viewer.handle /\ v.files = viewer.files
        /\ v.marked = viewer.marked /\ v.playlist = viewer.playlist /\ v.saved = viewer.saved
        /\ v.complete = viewer.complete
    BY <1>1, <2>3 DEF Viewers
  <2>6. v.next <= v.infos  BY <1>1, <2>2, <2>3, <2>5 DEF Watches, Viewers
  <2>7. Watches(v) /\ Replays(v)  BY <1>1, <2>5, <2>6 DEF Watches, Replays, Loads
  <2> QED  BY <2>1, <2>2, <2>3, <2>4, <2>7, TryLoadWatches
<1> QED  BY <1>4, <1>5

LEMMA HashWatches ==
    ASSUME WInv, NEW m \in answers, HandlePlaylistHash(m)
    PROVE  viewer' \in Viewers /\ viewer'.infos = viewer.infos
           /\ Watches(viewer') /\ Replays(viewer')
<1> DEFINE votes == viewer.votes \cup {m.from}
           yes == Accepted(votes)
<1>1. viewer \in Viewers /\ Watches(viewer) /\ Replays(viewer)  BY DEF WInv, Watching
<1>2. m \in Answers(announced) /\ m.query = "hash"  BY DEF WInv, Watching, HandlePlaylistHash
<1>3. m.from \in Replicators  BY <1>2 DEF Answers, Infos, Ended, PlaylistHash
<1>4. votes \in SUBSET Replicators  BY <1>1, <1>3 DEF Viewers
<1>5. yes \in BOOLEAN  BY DEF Accepted
<1>6. viewer' = viewer \/ viewer' = [viewer EXCEPT !.votes = votes, !.received = yes,
                                                   !.hash = yes, !.posted = yes]
  BY DEF HandlePlaylistHash
<1> HIDE DEF votes, yes
<1> QED  BY <1>1, <1>4, <1>5, <1>6 DEF Viewers, Watches, Replays, Loads

LEMMA StartWatches ==
    ASSUME WInv, StartDownloadFinishedStream
    PROVE  viewer' \in Viewers /\ viewer'.infos = viewer.infos
           /\ Watches(viewer') /\ Replays(viewer')
<1>1. viewer \in Viewers /\ Watches(viewer) /\ Replays(viewer)  BY DEF WInv, Watching
<1>2. \/ viewer' = [viewer EXCEPT !.posted = FALSE]
      \/ /\ viewer.handle = NoDownload
         /\ viewer' = [viewer EXCEPT !.posted = FALSE, !.handle = Playlist]
  BY <1>1 DEF StartDownloadFinishedStream, Viewers
<1>3. CASE viewer' = [viewer EXCEPT !.posted = FALSE]
  BY <1>1, <1>3 DEF Viewers, Watches, Replays, Loads
<1>4. CASE /\ viewer.handle = NoDownload
           /\ viewer' = [viewer EXCEPT !.posted = FALSE, !.handle = Playlist]
  BY <1>1, <1>4, HandleKinds DEF Viewers, Watches, Replays, Loads
<1> QED  BY <1>2, <1>3, <1>4

LEMMA AnswersGrow == \A n \in Nat, k \in Nat : n <= k => Answers(n) \subseteq Answers(k)
<1> SUFFICES ASSUME NEW n \in Nat, NEW k \in Nat, n <= k  PROVE Answers(n) \subseteq Answers(k)
  OBVIOUS
<1>1. \A l \in 0..n : l \in 0..k  OBVIOUS
<1> QED  BY <1>1 DEF Answers

LEMMA NextWatches == WInv /\ [ViewerNext]_viewerVars => WInv'
<1> SUFFICES ASSUME WInv, [ViewerNext]_viewerVars  PROVE WInv'
  OBVIOUS
<1>1. /\ ended \subseteq Replicators /\ kept \subseteq Indices
      /\ announced \in 0..N /\ announced \in Nat
      /\ answers \subseteq Answers(announced) /\ viewer \in Viewers
      /\ viewer.infos <= announced /\ viewer.infos \in Nat /\ Watches(viewer) /\ Replays(viewer)
  BY ViewerAssumption DEF WInv, Watching, Viewers
<1>2. CASE Announce
  <2>1. announced' \in 0..N /\ announced' \in Nat /\ announced <= announced'
        /\ viewer.infos <= announced'
    BY <1>1, <1>2, ViewerAssumption DEF Announce
  <2>2. answers \subseteq Answers(announced')  BY <1>1, <2>1, AnswersGrow
  <2> QED  BY <1>1, <1>2, <2>1, <2>2 DEF Announce, WInv, Watching
<1>3. ASSUME NEW r \in Replicators, EndStream(r)  PROVE WInv'
  BY <1>1, <1>3 DEF EndStream, WInv, Watching
<1>4. ASSUME NEW last \in Indices, AnswerInfos(last)  PROVE WInv'
  <2>1. Requested \in 1..(N + 1) /\ last \in 0..announced
    BY <1>1, <1>4, ViewerAssumption DEF AnswerInfos, Requested
  <2>2. Infos(Requested, last) \in Answers(announced)  BY <2>1 DEF Answers
  <2> QED  BY <1>1, <1>4, <2>2 DEF AnswerInfos, WInv, Watching
<1>5. CASE AnswerEnded
  BY <1>1, <1>5 DEF AnswerEnded, WInv, Watching, Answers
<1>6. CASE HandleEnded
  BY <1>1, <1>6 DEF HandleEnded, WInv, Watching, Answers
<1>7. ASSUME NEW m \in answers, HandleInfos(m)  PROVE WInv'
  BY <1>1, <1>7, InfosWatches DEF HandleInfos, WInv, Watching
<1>8. ASSUME NEW m \in answers, HandlePlaylistHash(m)  PROVE WInv'
  <2>1. answers' \subseteq answers /\ UNCHANGED <<announced, kept, ended>>
    BY <1>8, Zenon DEF HandlePlaylistHash
  <2>2. viewer' \in Viewers /\ viewer'.infos = viewer.infos /\ Watches(viewer') /\ Replays(viewer')
    BY <1>8, HashWatches
  <2> QED  BY <1>1, <2>1, <2>2 DEF WInv, Watching
<1>9. CASE LiveChunkIsDownloaded
  BY <1>1, <1>9, LiveWatches DEF LiveChunkIsDownloaded, WInv, Watching
<1>10. CASE PlaylistIsDownloaded
  BY <1>1, <1>10, PlaylistWatches DEF PlaylistIsDownloaded, WInv, Watching
<1>11. CASE SavedChunkIsDownloaded
  BY <1>1, <1>11, SavedWatches DEF SavedChunkIsDownloaded, WInv, Watching
<1>12. CASE StartDownloadFinishedStream
  BY <1>1, <1>12, StartWatches DEF StartDownloadFinishedStream, WInv, Watching
<1>13. CASE UNCHANGED viewerVars
  BY <1>1, <1>13 DEF viewerVars, WInv, Watching
<1> QED
  BY <1>2, <1>3, <1>4, <1>5, <1>6, <1>7, <1>8, <1>9, <1>10, <1>11, <1>12, <1>13
     DEF ViewerNext, Deliver, Download

\* The playlist a viewer writes while it watches (updatePlaylist) never names a
\* chunk that is not there, and it ends with the last one, until the playlist of the
\* saved stream takes its place: for streams of any length and any window of the
\* playlist, whichever chunks are kept, whatever answers are lost or late.
THEOREM PlaylistIsPlayableTheorem == ViewerSpec => []PlaylistIsPlayable
<1>1. ViewerInit => WInv
  <2> SUFFICES ASSUME ViewerInit  PROVE WInv
    OBVIOUS
  <2>1. kept \subseteq Indices  BY ViewerAssumption DEF ViewerInit, Indices
  <2> QED
    BY <2>1, ViewerAssumption
       DEF ViewerInit, WInv, Watching, Viewers, Answers, Watches, Replays, Loads
<1>2. WInv => PlaylistIsPlayable
  <2> SUFFICES ASSUME WInv  PROVE PlaylistIsPlayable
    OBVIOUS
  <2>1. /\ viewer \in Viewers /\ viewer.infos <= announced /\ announced \in 0..N
        /\ ended \subseteq Replicators /\ kept \subseteq Indices
        /\ Watches(viewer) /\ Replays(viewer)
    BY DEF WInv, Watching
  <2>2. ViewerTypeOK  BY <2>1 DEF ViewerTypeOK, Viewers
  <2> QED  BY <2>1, <2>2 DEF PlaylistIsPlayable, Watches, Replays, Loads
<1> QED  BY <1>1, <1>2, NextWatches, PTL DEF ViewerSpec

==============================================================================
