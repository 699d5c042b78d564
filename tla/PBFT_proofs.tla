----------------------------- MODULE PBFT_proofs -----------------------------
(***************************************************************************)
(* What the count of votes in PBFTServer.go guarantees, for every number   *)
(* of notaries: f is len(allNotaries) / 3 (NewPBFTService), and prepared,  *)
(* committed and NewView ask for more than 2f different senders.  And what *)
(* no message, timer or restart does to a replica: its database never      *)
(* forgets a nonce, and it always has a stable checkpoint.  Then that the  *)
(* state is well formed and views only grow, and last the agreement of the *)
(* replicas in their first view.                                           *)
(***************************************************************************)
EXTENDS PBFT, FiniteSetTheorems, TLAPS

(* A vote set is a finite set of at most N replicas.                       *)
LEMMA VoteSets ==
    ASSUME NEW S \in SUBSET Replicas
    PROVE  /\ IsFiniteSet(S) /\ Cardinality(S) \in Nat
           /\ IsFiniteSet(Replicas) /\ Cardinality(Replicas) = N
<1>1. IsFiniteSet(Replicas) /\ Cardinality(Replicas) = N
  <2>1. N \in Nat \ {0}
    BY PBFTNumbers
  <2>2. /\ IsFiniteSet(0 .. N - 1)
        /\ Cardinality(0 .. N - 1) = IF 0 > N - 1 THEN 0 ELSE N - 1 - 0 + 1
    BY <2>1, FS_Interval
  <2> QED
    BY <2>1, <2>2 DEF Replicas
<1>2. IsFiniteSet(S)
  BY <1>1, FS_Subset
<1> QED
  BY <1>1, <1>2, FS_CardinalityType

(* Two vote sets together exceed the replicas by what they share.          *)
LEMMA SharedVotes ==
    ASSUME NEW S \in SUBSET Replicas, NEW T \in SUBSET Replicas
    PROVE  /\ Cardinality(S \cap T) \in Nat
           /\ Cardinality(S \cap T) >= Cardinality(S) + Cardinality(T) - N
<1>1. /\ IsFiniteSet(S) /\ IsFiniteSet(T) /\ IsFiniteSet(S \cup T)
      /\ Cardinality(S) \in Nat /\ Cardinality(T) \in Nat
      /\ Cardinality(S \cup T) \in Nat /\ Cardinality(S \cap T) \in Nat
  BY VoteSets, S \cup T \in SUBSET Replicas, S \cap T \in SUBSET Replicas
<1>2. Cardinality(S \cup T) <= N
  BY VoteSets, FS_Subset, S \cup T \in SUBSET Replicas
<1>3. Cardinality(S \cup T) = Cardinality(S) + Cardinality(T) - Cardinality(S \cap T)
  BY <1>1, FS_Union
<1>4. N \in Nat
  BY PBFTNumbers
<1> QED
  BY <1>1, <1>2, <1>3, <1>4

(* Two sets of votes that are enough share a replica, so that one view     *)
(* cannot prepare or commit two operations at one Seq (prepared, committed *)
(* and the one vote per entry of PrePrepare) and a new view hears of what  *)
(* an earlier one committed (NewView).  With two notaries f is 0 and one   *)
(* vote is enough: there it fails.                                         *)
THEOREM QuorumsIntersect ==
    ASSUME N # 2,
           NEW S \in SUBSET Replicas, Enough(S),
           NEW T \in SUBSET Replicas, Enough(T)
    PROVE  S \cap T # {}
<1>1. N \in Nat \ {0} /\ f \in Nat /\ N < 3 * f + 3 /\ 3 * f <= N
  BY PBFTNumbers DEF f
<1>2. Cardinality(S) \in Nat /\ Cardinality(T) \in Nat
  BY VoteSets
<1>3. Cardinality(S) + Cardinality(T) > N
  BY <1>1, <1>2 DEF Enough
<1>4. Cardinality(S \cap T) >= 1
  BY <1>1, <1>2, <1>3, SharedVotes
<1> QED
  BY <1>4, FS_EmptySet

(* With 3f + 1 notaries they share more replicas than may be faulty.  With *)
(* 3f + 2, which len(allNotaries) / 3 allows, they need not.               *)
THEOREM QuorumsShareACorrectReplica ==
    ASSUME N % 3 = 1,
           NEW S \in SUBSET Replicas, Enough(S),
           NEW T \in SUBSET Replicas, Enough(T)
    PROVE  Cardinality(S \cap T) > f
<1>1. N \in Nat \ {0} /\ f \in Nat /\ N = 3 * f + 1
  BY PBFTNumbers DEF f
<1>2. Cardinality(S) \in Nat /\ Cardinality(T) \in Nat
  BY VoteSets
<1>3. Cardinality(S) + Cardinality(T) >= 4 * f + 2
  BY <1>1, <1>2 DEF Enough
<1>4. /\ Cardinality(S \cap T) \in Nat
      /\ Cardinality(S \cap T) >= Cardinality(S) + Cardinality(T) - N
  BY SharedVotes
<1> QED
  BY <1>1, <1>2, <1>3, <1>4

-----------------------------------------------------------------------------
(* What is kept by everything a replica does.                              *)

\* A view change names a checkpoint and says what was prepared after it.
ChangeOK(vc)  == vc.cp \in Int /\ IsFiniteSet(DOMAIN vc.P) /\ DOMAIN vc.P \subseteq Int
ChangesOK(V)  == /\ V \in Seq({V[k] : k \in DOMAIN V})
                 /\ \A k \in DOMAIN V : ChangeOK(V[k])

Numbered == {"PrePrepare", "Prepare", "Commit", "CheckPoint"}
MessageOK(m) ==
    /\ m.type \in Numbered \cup {"Request", "ViewChange", "NewView", "Response"}
    /\ m.type \in Numbered => m.seq \in Int
    /\ m.type = "ViewChange" => ChangeOK(m.vc)
    /\ m.type = "NewView" => ChangesOK(m.V) /\ m.V # <<>>

\* Only a replica that has recorded a nonce answers with it.
Honest(m, s) == m.type = "Response" => m.rid = s.id /\ m.seq \in Int /\ m.seq <= s.db.nonce

EntriesOK(log, nonce) ==
    /\ IsFiniteSet(DOMAIN log)
    /\ \A k \in DOMAIN log : /\ k[2] \in Int /\ "r" \in DOMAIN log[k]
                             /\ log[k].r => k[2] <= nonce

Fields == {"id", "tSeq", "seqmap", "apply", "log", "cps", "vcs", "applyQueue", "db", "out"}
Core(s) ==
    /\ Fields \subseteq DOMAIN s
    /\ s.tSeq \in Int /\ s.apply \in Int
    /\ \A op \in DOMAIN s.seqmap : s.seqmap[op] \in Int
    /\ "nonce" \in DOMAIN s.db /\ s.db.nonce \in Int /\ s.db.nonce >= -1
    /\ EntriesOK(s.log, s.db.nonce)
    /\ DOMAIN s.cps \subseteq Int /\ \A n \in DOMAIN s.cps : "Stable" \in DOMAIN s.cps[n]
    /\ IsFiniteSet(s.applyQueue) /\ \A task \in s.applyQueue : task.seq \in Int
    /\ \A v \in DOMAIN s.vcs : ChangesOK(s.vcs[v])
    /\ \A m \in s.out : MessageOK(m) /\ Honest(m, s)

\* What is stable was executed, and something is.
HasStable(s) == /\ \A n \in DOMAIN s.cps : s.cps[n].Stable => n <= s.apply
                /\ \E n \in DOMAIN s.cps : s.cps[n].Stable
ReplicaOK(s) == Core(s) /\ HasStable(s)

\* What a replica is after one step, or after one that leaves its checkpoints
\* alone.
Later(s, t)  == ReplicaOK(t) /\ t.id = s.id /\ s.db.nonce <= t.db.nonce
Steady(s, t) == /\ Core(t) /\ t.id = s.id /\ s.db.nonce <= t.db.nonce
                /\ t.cps = s.cps /\ t.apply = s.apply

LEMMA SteadyTwice ==
    ASSUME NEW s, NEW t, NEW u, Core(s), Steady(s, t), Steady(t, u)
    PROVE  Steady(s, u)
BY DEF Steady, Core

LEMMA LaterTwice ==
    ASSUME NEW s, NEW t, NEW u, Core(s), Later(s, t), Later(t, u)
    PROVE  Later(s, u)
BY DEF Later, ReplicaOK, Core

LEMMA SteadyIsLater ==
    ASSUME NEW s, NEW t, ReplicaOK(s), Steady(s, t)
    PROVE  Later(s, t)
BY DEF Later, Steady, ReplicaOK, HasStable

LEMMA NothingIsSteady == \A s : Core(s) => Steady(s, s)
BY DEF Steady, Core

\* The fields that are not listed may change, and something may be sent.
LEMMA OtherFields ==
    ASSUME NEW s, Core(s), NEW t, DOMAIN s = DOMAIN t,
           t.id = s.id, t.tSeq = s.tSeq, t.seqmap = s.seqmap, t.apply = s.apply, t.log = s.log,
           t.cps = s.cps, t.vcs = s.vcs, t.applyQueue = s.applyQueue, t.db = s.db,
           \A m \in t.out : m \in s.out \/ (MessageOK(m) /\ Honest(m, s))
    PROVE  Steady(s, t)
BY DEF Steady, Core, Honest

-----------------------------------------------------------------------------
(* The helpers.                                                            *)
Replying(s, task, t) == replyByPendingTask(task, t)
Replies == INSTANCE Folds_proofs WITH Op <- Replying, Good <- Steady

LEMMA Finite == \A S : IsFiniteSet(S) <=> Replies!IsFiniteSet(S)
BY DEF IsFiniteSet, Replies!IsFiniteSet

LEMMA SmallestBadSubset ==
    ASSUME NEW S, IsFiniteSet(S), NEW Bad, Bad \subseteq SUBSET S, Bad # {}
    PROVE  \E T \in Bad : IsFiniteSet(T) /\ \A U \in Bad : U \subseteq T => U = T
BY Finite, Replies!SmallestBadSubset

LEMMA HasALargest ==
    ASSUME NEW S, IsFiniteSet(S), S # {}, NEW w \in [S -> Int]
    PROVE  \E m \in S : \A n \in S : w[m] >= w[n]
<1> DEFINE Bad == {T \in SUBSET S : T # {} /\ ~ \E m \in T : \A n \in T : w[m] >= w[n]}
<1> SUFFICES ASSUME Bad # {} PROVE FALSE
  OBVIOUS
<1>1. PICK T \in Bad : IsFiniteSet(T) /\ \A U \in Bad : U \subseteq T => U = T
  <2>1. Bad \subseteq SUBSET S
    OBVIOUS
  <2> HIDE DEF Bad
  <2> QED
    BY <2>1, SmallestBadSubset
<1>2. PICK x \in T : TRUE
  OBVIOUS
<1>3. T \ {x} # {}
  <2> SUFFICES ASSUME T = {x} PROVE \E m \in T : \A n \in T : w[m] >= w[n]
    BY <1>1, <1>2
  <2>1. w[x] \in Int
    BY <1>1, <1>2
  <2> QED
    BY <2>1
<1>4. PICK y \in T \ {x} : \A n \in T \ {x} : w[y] >= w[n]
  <2>1. T \ {x} \in SUBSET S /\ T \ {x} # T /\ T \ {x} \subseteq T
    BY <1>1, <1>2
  <2>2. T \ {x} \notin Bad
    BY <1>1, <2>1
  <2> QED
    BY <1>3, <2>1, <2>2
<1>5. /\ x \in T /\ y \in T /\ w[x] \in Int /\ w[y] \in Int
      /\ \A n \in T : n \in S /\ w[n] \in Int /\ (n = x \/ w[y] >= w[n])
  BY <1>1, <1>2, <1>4
<1>6. CASE w[x] >= w[y]
  BY <1>1, <1>5, <1>6
<1>7. CASE w[y] >= w[x]
  BY <1>1, <1>5, <1>7
<1> QED
  BY <1>5, <1>6, <1>7

LEMMA MaxIsMaximum ==
    ASSUME NEW S, IsFiniteSet(S), S # {}, S \subseteq Int
    PROVE  Max(S) \in S /\ \A n \in S : Max(S) >= n
<1> DEFINE w == [n \in S |-> n]
<1>1. w \in [S -> Int] /\ \A n \in S : w[n] = n
  OBVIOUS
<1> HIDE DEF w
<1>2. \E m \in S : \A n \in S : w[m] >= w[n]
  BY <1>1, HasALargest
<1>3. \E m \in S : \A n \in S : m >= n
  BY <1>1, <1>2
<1> QED
  BY <1>3 DEF Max

LEMMA MaxOfTwo ==
    ASSUME NEW m \in Int, NEW n \in Int
    PROVE  Max({m, n}) \in Int /\ Max({m, n}) >= m /\ Max({m, n}) >= n
<1>1. \E x \in {m, n} : \A y \in {m, n} : x >= y
  OBVIOUS
<1> QED
  BY <1>1 DEF Max

LEMMA OverKeeps ==
    ASSUME NEW m, NEW g, NEW x \in DOMAIN m
    PROVE  Over(m, g)[x] = m[x]
BY DEF Over

\* What a replica sends.
LEMMA Sends ==
    ASSUME NEW s, Core(s), NEW m, NEW to, MessageOK(m), Honest(m, s),
           "type" \in DOMAIN m,
           m.type \in Numbered \cup {"Response"} => "seq" \in DOMAIN m,
           m.type = "Response" => "rid" \in DOMAIN m,
           m.type = "ViewChange" => "vc" \in DOMAIN m,
           m.type = "NewView" => "V" \in DOMAIN m
    PROVE  Steady(s, Send(s, m, to))
<1> DEFINE t == Send(s, m, to)
<1>1. /\ DOMAIN t = DOMAIN s /\ t.id = s.id /\ t.tSeq = s.tSeq /\ t.seqmap = s.seqmap
      /\ t.apply = s.apply /\ t.log = s.log /\ t.cps = s.cps /\ t.vcs = s.vcs
      /\ t.applyQueue = s.applyQueue /\ t.db = s.db
      /\ \A x \in t.out : x \in s.out \/ \E j : x = Over(m, [from |-> s.id, to |-> j])
  BY DEF Send, Core, Fields
<1>2. ASSUME NEW j PROVE MessageOK(Over(m, [from |-> s.id, to |-> j]))
                         /\ Honest(Over(m, [from |-> s.id, to |-> j]), s)
  BY OverKeeps DEF MessageOK, Honest, Numbered
<1>3. \A x \in t.out : x \in s.out \/ (MessageOK(x) /\ Honest(x, s))
  BY <1>1, <1>2
<1> QED
  BY <1>1, <1>3, OtherFields

LEMMA StopTimerIsSteady ==
    ASSUME NEW s, Core(s)
    PROVE  Steady(s, stopTimer(s))
<1> DEFINE t == stopTimer(s)
<1>1. /\ DOMAIN t = DOMAIN s /\ t.id = s.id /\ t.tSeq = s.tSeq /\ t.seqmap = s.seqmap
      /\ t.apply = s.apply /\ t.log = s.log /\ t.cps = s.cps /\ t.vcs = s.vcs
      /\ t.applyQueue = s.applyQueue /\ t.db = s.db /\ t.out = s.out
  BY DEF stopTimer
<1> QED
  BY <1>1, OtherFields

LEMMA NewNonceForOpIsSteady ==
    ASSUME NEW s, Core(s), NEW v, NEW n, NEW op
    PROVE  Steady(s, NewNonceForOp(s, v, n, op))
<1> DEFINE t == NewNonceForOp(s, v, n, op)
<1>1. /\ t.db.nonce = s.db.nonce /\ "nonce" \in DOMAIN t.db
      /\ DOMAIN t = DOMAIN s /\ t.id = s.id /\ t.tSeq = s.tSeq /\ t.seqmap = s.seqmap
      /\ t.apply = s.apply /\ t.log = s.log /\ t.cps = s.cps /\ t.vcs = s.vcs
      /\ t.applyQueue = s.applyQueue /\ t.out = s.out
  BY DEF NewNonceForOp, Core, Fields
<1> HIDE DEF t
<1>2. Steady(s, t)
  BY <1>1 DEF Steady, Core, Honest
<1> QED
  BY <1>2 DEF t

\* The entries of the log.
Entry(e, n, s) == "r" \in DOMAIN e /\ (e.r => n <= s.db.nonce)

LEMMA GetsAnEntry ==
    ASSUME NEW s, Core(s), NEW v, NEW n
    PROVE  Entry(getEntry(s, v, n), n, s)
BY DEF getEntry, Entry, Core, EntriesOK, NewEntry

LEMMA PutsAnEntry ==
    ASSUME NEW s, Core(s), NEW v, NEW n \in Int, NEW e, Entry(e, n, s)
    PROVE  Steady(s, putEntry(s, v, n, e))
<1> DEFINE t == putEntry(s, v, n, e)
<1>1. /\ DOMAIN t = DOMAIN s /\ t.id = s.id /\ t.tSeq = s.tSeq /\ t.seqmap = s.seqmap
      /\ t.apply = s.apply /\ t.cps = s.cps /\ t.vcs = s.vcs
      /\ t.applyQueue = s.applyQueue /\ t.db = s.db /\ t.out = s.out
      /\ t.log = Put(s.log, <<v, n>>, e)
  BY DEF putEntry, Core, Fields
<1>2. EntriesOK(t.log, s.db.nonce)
  <2> DEFINE key == <<v, n>>
             log == Put(s.log, key, e)
  <2>1. EntriesOK(s.log, s.db.nonce) /\ IsFiniteSet(DOMAIN s.log) /\ key[2] = n
    BY DEF Core, EntriesOK
  <2> HIDE DEF key
  <2>2. /\ IsFiniteSet(DOMAIN log) /\ DOMAIN log = DOMAIN s.log \cup {key}
        /\ \A k \in DOMAIN log : log[k] = IF k = key THEN e ELSE s.log[k]
    BY <2>1, FS_AddElement DEF Put
  <2> HIDE DEF log
  <2>3. EntriesOK(log, s.db.nonce)
    BY <2>1, <2>2 DEF EntriesOK, Entry
  <2> QED
    BY <1>1, <2>3 DEF log, key
<1> HIDE DEF t
<1>3. Steady(s, t)
  BY <1>1, <1>2 DEF Steady, Core, Honest
<1> QED
  BY <1>3 DEF t

(* The database keeps the highest nonce it has seen (UpdateSeq).           *)
LEMMA UpdateSeqIsSteady ==
    ASSUME NEW s, Core(s), NEW n \in Int
    PROVE  /\ Steady(s, UpdateSeq(s, n)) /\ UpdateSeq(s, n).db.nonce >= n
           /\ UpdateSeq(s, n).log = s.log
<1> DEFINE t == UpdateSeq(s, n)
<1>1. s.db.nonce \in Int
  BY DEF Core
<1>2. /\ t.db.nonce = Max({s.db.nonce, n}) /\ "nonce" \in DOMAIN t.db
      /\ DOMAIN t = DOMAIN s /\ t.id = s.id /\ t.tSeq = s.tSeq /\ t.seqmap = s.seqmap
      /\ t.apply = s.apply /\ t.log = s.log /\ t.cps = s.cps /\ t.vcs = s.vcs
      /\ t.applyQueue = s.applyQueue /\ t.out = s.out
  BY DEF UpdateSeq, Core, Fields
<1>3. t.db.nonce \in Int /\ t.db.nonce >= s.db.nonce /\ t.db.nonce >= n
  BY <1>1, <1>2, MaxOfTwo
<1> HIDE DEF t
<1>4. EntriesOK(t.log, t.db.nonce)
  BY <1>1, <1>2, <1>3 DEF Core, EntriesOK
<1>5. \A m \in t.out : MessageOK(m) /\ Honest(m, t)
  BY <1>1, <1>2, <1>3 DEF Core, Honest
<1> QED
  BY <1>1, <1>2, <1>3, <1>4, <1>5 DEF Steady, Core, t

LEMMA ReplyIsSteady ==
    ASSUME NEW s, Core(s), NEW task, task.seq \in Int, task.seq <= s.db.nonce
    PROVE  Steady(s, reply(s, task))
<1>1. CASE task.req = NoRequest
  BY <1>1, NothingIsSteady DEF reply
<1>2. CASE task.req # NoRequest
  <2> DEFINE m == Response(s, task)
  <2>1. /\ MessageOK(m) /\ Honest(m, s) /\ m.type = "Response"
        /\ "type" \in DOMAIN m /\ "rid" \in DOMAIN m /\ "seq" \in DOMAIN m
    BY DEF Response, MessageOK, Honest, Numbered
  <2> HIDE DEF m
  <2>2. Steady(s, Send(s, m, {task.req.client} \cap Up))
    BY <2>1, Sends
  <2> QED
    BY <1>2, <2>2 DEF reply, m
<1> QED
  BY <1>1, <1>2

(* An operation is answered after its nonce is in the database.            *)
LEMMA ReplyByPendingTaskIsSteady ==
    ASSUME NEW s, Core(s), NEW task, task.seq \in Int
    PROVE  Steady(s, replyByPendingTask(task, s))
<1> DEFINE u == UpdateSeq(s, task.seq)
           log == [k \in DOMAIN u.log |-> IF k = <<task.view, task.seq>>
                                          THEN [u.log[k] EXCEPT !.r = TRUE] ELSE u.log[k]]
           t == [u EXCEPT !.log = log]
<1>1. Steady(s, u) /\ u.db.nonce >= task.seq
  BY UpdateSeqIsSteady
<1> HIDE DEF u
<1>2. Steady(u, t)
  <2>1. Core(u)
    BY <1>1 DEF Steady
  <2>2. EntriesOK(log, u.db.nonce)
    BY <1>1, <2>1 DEF Core, EntriesOK
  <2> HIDE DEF log
  <2>3. /\ DOMAIN t = DOMAIN u /\ t.id = u.id /\ t.tSeq = u.tSeq /\ t.seqmap = u.seqmap
        /\ t.apply = u.apply /\ t.cps = u.cps /\ t.vcs = u.vcs
        /\ t.applyQueue = u.applyQueue /\ t.db = u.db /\ t.out = u.out /\ t.log = log
    BY <2>1 DEF Core, Fields
  <2> HIDE DEF t
  <2> QED
    BY <2>1, <2>2, <2>3 DEF Steady, Core, Honest
<1>3. t.db = u.db
  OBVIOUS
<1> HIDE DEF t
<1>4. Steady(t, reply(t, task))
  BY <1>1, <1>2, <1>3, ReplyIsSteady DEF Steady
<1>5. replyByPendingTask(task, s) = reply(t, task)
  BY DEF replyByPendingTask, t, u
<1> QED
  BY <1>1, <1>2, <1>4, <1>5, SteadyTwice DEF Steady

LEMMA RepliesAreSteady ==
    ASSUME NEW s, Core(s), NEW S, IsFiniteSet(S), \A task \in S : task.seq \in Int
    PROVE  Steady(s, FoldSet(replyByPendingTask, s, S))
<1>1. FoldSet(replyByPendingTask, s, S) = Replies!Fold(s, s, S)
  BY DEF FoldSet, MapThenFoldSet, Replies!Fold, Replies!Defines, Replies!First, Replying
<1>2. \A task \in S : \A t : Steady(s, t) => Steady(s, Replying(s, task, t))
  <2> SUFFICES ASSUME NEW task \in S, NEW t, Steady(s, t)
               PROVE  Steady(s, replyByPendingTask(task, t))
    BY DEF Replying
  <2>1. Core(t)
    BY DEF Steady
  <2>2. Steady(t, replyByPendingTask(task, t))
    BY <2>1, ReplyByPendingTaskIsSteady
  <2> QED
    BY <2>2, SteadyTwice
<1>3. Steady(s, s)
  BY NothingIsSteady
<1>4. Steady(s, Replies!Fold(s, s, S))
  BY <1>2, <1>3, Finite, Replies!FoldKeeps
<1> QED
  BY <1>1, <1>4

-----------------------------------------------------------------------------
(* Checkpoints.                                                            *)
LEMMA RemoveOldLogIsSteady ==
    ASSUME NEW s, Core(s), NEW n
    PROVE  Steady(s, removeOldLog(s, n))
<1> DEFINE t == removeOldLog(s, n)
           kept == {k \in DOMAIN s.log : k[2] >= n}
<1>1. /\ DOMAIN t = DOMAIN s /\ t.id = s.id /\ t.tSeq = s.tSeq /\ t.seqmap = s.seqmap
      /\ t.apply = s.apply /\ t.cps = s.cps /\ t.vcs = s.vcs
      /\ t.applyQueue = s.applyQueue /\ t.db = s.db /\ t.out = s.out
      /\ t.log = [k \in kept |-> s.log[k]]
  BY DEF removeOldLog, Core, Fields
<1>2. EntriesOK(s.log, s.db.nonce) /\ IsFiniteSet(kept)
  BY FS_Subset DEF Core, EntriesOK
<1> HIDE DEF t
<1>3. EntriesOK(t.log, s.db.nonce)
  BY <1>1, <1>2 DEF EntriesOK
<1>4. Steady(s, t)
  BY <1>1, <1>3 DEF Steady, Core, Honest
<1> QED
  BY <1>4 DEF t

(* A majority's checkpoint becomes the stable one, and everything up to it *)
(* counts as executed.                                                     *)
LEMMA StablizeCPIsLater ==
    ASSUME NEW s, Core(s), NEW n \in DOMAIN s.cps, NEW p,
           \A k \in DOMAIN s.cps \ {n} : s.cps[k].Stable => k <= s.apply
    PROVE  Later(s, stablizeCP(s, n, p))
<1> DEFINE t == IF p.view > s.view
                THEN stopTimer([s EXCEPT !.view = p.view, !.changing = FALSE]) ELSE s
           t2 == removeOldLog(t, n)
           cps == [k \in {j \in DOMAIN t2.cps : j >= n} |->
                      IF k = n THEN Stabilized(t2.cps[k], p) ELSE t2.cps[k]]
           seqmap == [op \in {o \in DOMAIN t2.seqmap : t2.seqmap[o] > n - 2 * CheckpointDiv}
                         |-> t2.seqmap[op]]
           queue == {task \in t2.applyQueue : task.seq > n}
           u == [t2 EXCEPT
                   !.cps = cps,
                   !.apply = Max({@, n}),
                   !.state = <<[seq |-> n, digest |-> p.digest]>> \o removeOldState(t, n),
                   !.seqmap = seqmap,
                   !.h = n, !.lastcp = n,
                   !.applyQueue = queue]
<1>1. Steady(s, t)
  <2> DEFINE w == [s EXCEPT !.view = p.view, !.changing = FALSE]
  <2>1. Steady(s, w)
    <3>1. /\ DOMAIN w = DOMAIN s /\ w.id = s.id /\ w.tSeq = s.tSeq /\ w.seqmap = s.seqmap
          /\ w.apply = s.apply /\ w.log = s.log /\ w.cps = s.cps /\ w.vcs = s.vcs
          /\ w.applyQueue = s.applyQueue /\ w.db = s.db /\ w.out = s.out
      OBVIOUS
    <3> QED
      BY <3>1, OtherFields
  <2> HIDE DEF w
  <2>2. Core(w) /\ Steady(w, stopTimer(w))
    BY <2>1, StopTimerIsSteady DEF Steady
  <2> QED
    BY <2>1, <2>2, SteadyTwice, NothingIsSteady DEF w
<1> HIDE DEF t
<1>2. Steady(s, t2) /\ Core(t2)
  <2>1. Core(t)
    BY <1>1 DEF Steady
  <2>2. Steady(t, t2)
    BY <2>1, RemoveOldLogIsSteady
  <2> QED
    BY <1>1, <2>2, SteadyTwice DEF Steady
<1> HIDE DEF t2
<1>3. n \in Int /\ t2.cps = s.cps /\ t2.apply = s.apply /\ s.apply \in Int
  BY <1>2 DEF Steady, Core
<1>4. /\ DOMAIN u = DOMAIN t2 /\ u.id = t2.id /\ u.tSeq = t2.tSeq /\ u.log = t2.log
      /\ u.vcs = t2.vcs /\ u.db = t2.db /\ u.out = t2.out
      /\ u.cps = cps /\ u.seqmap = seqmap /\ u.applyQueue = queue /\ u.apply = Max({t2.apply, n})
  BY <1>2 DEF Core, Fields
<1>5. u.apply \in Int /\ u.apply >= n /\ u.apply >= s.apply
  BY <1>3, <1>4, MaxOfTwo
<1>6. /\ DOMAIN cps \subseteq Int /\ \A k \in DOMAIN cps : "Stable" \in DOMAIN cps[k]
      /\ n \in DOMAIN cps /\ cps[n].Stable
      /\ \A k \in DOMAIN cps : cps[k].Stable => k <= u.apply
  <2>1. /\ "Stable" \in DOMAIN Stabilized(s.cps[n], p) /\ Stabilized(s.cps[n], p).Stable
    BY DEF Core, Stabilized
  <2>2. \A k \in DOMAIN s.cps : k \in Int /\ "Stable" \in DOMAIN s.cps[k]
    BY DEF Core
  <2> HIDE DEF u
  <2> QED
    BY <1>3, <1>5, <2>1, <2>2
<1>7. \A op \in DOMAIN seqmap : seqmap[op] \in Int
  BY <1>2 DEF Core
<1>8. IsFiniteSet(queue) /\ \A task \in queue : task.seq \in Int
  BY <1>2, FS_Subset DEF Core
<1> HIDE DEF u, cps, seqmap, queue
<1>9. Core(u) /\ HasStable(u)
  <2>1. Core(u)
    BY <1>2, <1>4, <1>5, <1>6, <1>7, <1>8 DEF Core, Honest
  <2> QED
    BY <1>4, <1>6, <2>1 DEF HasStable
<1>10. Steady(u, FoldSet(replyByPendingTask, u, s.applyQueue \ u.applyQueue))
  <2>1. IsFiniteSet(s.applyQueue \ u.applyQueue) /\ \A task \in s.applyQueue : task.seq \in Int
    BY FS_Subset DEF Core
  <2> QED
    BY <1>9, <2>1, RepliesAreSteady
<1>11. stablizeCP(s, n, p) = FoldSet(replyByPendingTask, u, s.applyQueue \ u.applyQueue)
  BY DEF stablizeCP, u, t, t2, cps, seqmap, queue
<1>12. Later(s, u)
  BY <1>2, <1>4, <1>9 DEF Later, ReplicaOK, Steady
<1>13. Later(u, FoldSet(replyByPendingTask, u, s.applyQueue \ u.applyQueue))
  BY <1>9, <1>10, SteadyIsLater DEF ReplicaOK
<1> QED
  BY <1>11, <1>12, <1>13, LaterTwice

LEMMA GetCheckPointIsLater ==
    ASSUME NEW s, ReplicaOK(s), NEW n \in Int
    PROVE  LET t == getCheckPoint(s, n)
           IN  /\ Later(s, t) /\ n \in DOMAIN t.cps /\ t.apply = s.apply
               /\ \A k \in DOMAIN s.cps : k \in DOMAIN t.cps /\ (s.cps[k].Stable => t.cps[k].Stable)
<1> DEFINE t == getCheckPoint(s, n)
           old == IF n \in DOMAIN s.cps THEN s.cps[n]
                  ELSE [Stable |-> FALSE, Digest |-> Nil, Proof |-> {}]
           cp == [old EXCEPT !.Digest = checkPointDigest(s, n)]
<1>1. /\ DOMAIN t = DOMAIN s /\ t.id = s.id /\ t.tSeq = s.tSeq /\ t.seqmap = s.seqmap
      /\ t.apply = s.apply /\ t.log = s.log /\ t.vcs = s.vcs
      /\ t.applyQueue = s.applyQueue /\ t.db = s.db /\ t.out = s.out
      /\ t.cps = Put(s.cps, n, cp)
  BY DEF getCheckPoint, ReplicaOK, Core, Fields
<1>2. \A k \in DOMAIN s.cps : k \in Int /\ "Stable" \in DOMAIN s.cps[k]
  BY DEF ReplicaOK, Core
<1>3. /\ "Stable" \in DOMAIN cp
      /\ n \in DOMAIN s.cps => cp.Stable = s.cps[n].Stable
      /\ n \notin DOMAIN s.cps => ~cp.Stable
  BY <1>2
<1> HIDE DEF t, cp
<1>4. /\ DOMAIN t.cps = DOMAIN s.cps \cup {n}
      /\ \A k \in DOMAIN t.cps : t.cps[k] = IF k = n THEN cp ELSE s.cps[k]
  BY <1>1 DEF Put
<1>5. Core(t)
  BY <1>1, <1>2, <1>3, <1>4 DEF ReplicaOK, Core, Honest
<1>6. HasStable(t)
  BY <1>1, <1>3, <1>4 DEF ReplicaOK, HasStable
<1>7. Later(s, t)
  BY <1>1, <1>5, <1>6 DEF Later, ReplicaOK, Core
<1> QED
  BY <1>1, <1>3, <1>4, <1>7 DEF t

\* Nothing but the proof of a checkpoint changes, or it is not stable any more.
LEMMA ChangedCheckpoint ==
    ASSUME NEW s, ReplicaOK(s), NEW t, NEW n \in DOMAIN s.cps,
           DOMAIN t = DOMAIN s, t.id = s.id, t.tSeq = s.tSeq, t.seqmap = s.seqmap,
           t.apply = s.apply, t.log = s.log, t.vcs = s.vcs, t.applyQueue = s.applyQueue,
           t.db = s.db, t.out = s.out,
           DOMAIN t.cps = DOMAIN s.cps, DOMAIN t.cps[n] = DOMAIN s.cps[n],
           \A k \in DOMAIN s.cps \ {n} : t.cps[k] = s.cps[k],
           t.cps[n].Stable = s.cps[n].Stable
             \/ (~t.cps[n].Stable /\ \E k \in DOMAIN s.cps \ {n} : s.cps[k].Stable)
    PROVE  Later(s, t)
<1>1. Core(t)
  BY DEF ReplicaOK, Core, Honest
<1>2. HasStable(t)
  BY DEF ReplicaOK, HasStable
<1> QED
  BY <1>1, <1>2 DEF Later, ReplicaOK, Core

LEMMA CheckPointIsLater ==
    ASSUME NEW s, ReplicaOK(s), NEW n \in Int, NEW p
    PROVE  Later(s, CheckPoint(s, n, p))
<1> DEFINE t == getCheckPoint(s, n)
           u == [t EXCEPT !.cps[n].Proof = @ \cup {p}]
           agreed == {q \in u.cps[n].Proof :
                        /\ Enough({r \in u.cps[n].Proof : r.digest = q.digest})
                        /\ Enough({r \in u.cps[n].Proof : r.view = q.view})}
<1>1. Later(s, t) /\ ReplicaOK(t) /\ n \in DOMAIN t.cps
  BY GetCheckPointIsLater DEF Later
<1> HIDE DEF t
<1>2. Later(t, u) /\ n \in DOMAIN u.cps
  <2>1. /\ DOMAIN u = DOMAIN t /\ u.id = t.id /\ u.tSeq = t.tSeq /\ u.seqmap = t.seqmap
        /\ u.apply = t.apply /\ u.log = t.log /\ u.vcs = t.vcs
        /\ u.applyQueue = t.applyQueue /\ u.db = t.db /\ u.out = t.out
        /\ DOMAIN u.cps = DOMAIN t.cps /\ DOMAIN u.cps[n] = DOMAIN t.cps[n]
        /\ \A k \in DOMAIN t.cps \ {n} : u.cps[k] = t.cps[k]
        /\ u.cps[n].Stable = t.cps[n].Stable
    BY <1>1 DEF ReplicaOK, Core, Fields
  <2> HIDE DEF u
  <2> QED
    BY <1>1, <2>1, ChangedCheckpoint
<1> HIDE DEF u, agreed
<1>3. Later(s, u) /\ Core(s) /\ ReplicaOK(s) /\ Core(u)
  BY <1>1, <1>2, LaterTwice DEF Later, ReplicaOK
<1>4. \A q : Later(u, stablizeCP(u, n, q))
  BY <1>2, <1>3, StablizeCPIsLater DEF Later, ReplicaOK, HasStable
<1>5. \A q : Later(s, stablizeCP(u, n, q))
  BY <1>3, <1>4, LaterTwice
<1>6. Later(s, s)
  BY <1>3, NothingIsSteady, SteadyIsLater
<1>7. CheckPoint(s, n, p) = IF tooOld(s, n) THEN s
                            ELSE IF t.cps[n].Stable THEN t
                            ELSE IF agreed = {} THEN u ELSE stablizeCP(u, n, CHOOSE q \in agreed : TRUE)
  BY DEF CheckPoint, t, u, agreed
<1> QED
  BY <1>1, <1>3, <1>5, <1>6, <1>7

(* A replica that makes a checkpoint has another stable one, or none would *)
(* be left.                                                                *)
LEMMA StartCheckPointIsLater ==
    ASSUME NEW s, ReplicaOK(s), NEW n \in Int, \E k \in DOMAIN s.cps \ {n} : s.cps[k].Stable
    PROVE  Later(s, startCheckPoint(s, n))
<1> DEFINE t == getCheckPoint(s, n)
           u == [t EXCEPT !.cps[n].Stable = FALSE]
           p == [rid |-> s.id, digest |-> u.cps[n].Digest, view |-> s.view]
           m == [type |-> "CheckPoint", seq |-> n, proof |-> p]
           w == Send(u, m, Others(s))
<1>1. /\ Later(s, t) /\ ReplicaOK(t) /\ n \in DOMAIN t.cps
      /\ \E k \in DOMAIN t.cps \ {n} : t.cps[k].Stable
  <2>1. PICK k \in DOMAIN s.cps \ {n} : s.cps[k].Stable
    OBVIOUS
  <2> QED
    BY <2>1, GetCheckPointIsLater DEF Later
<1> HIDE DEF t
<1>2. Later(t, u)
  <2>1. /\ DOMAIN u = DOMAIN t /\ u.id = t.id /\ u.tSeq = t.tSeq /\ u.seqmap = t.seqmap
        /\ u.apply = t.apply /\ u.log = t.log /\ u.vcs = t.vcs
        /\ u.applyQueue = t.applyQueue /\ u.db = t.db /\ u.out = t.out
        /\ DOMAIN u.cps = DOMAIN t.cps /\ DOMAIN u.cps[n] = DOMAIN t.cps[n]
        /\ \A k \in DOMAIN t.cps \ {n} : u.cps[k] = t.cps[k]
        /\ ~u.cps[n].Stable
    BY <1>1 DEF ReplicaOK, Core, Fields
  <2> HIDE DEF u
  <2> QED
    BY <1>1, <2>1, ChangedCheckpoint
<1> HIDE DEF u
<1>3. Later(u, w)
  <2>1. Core(u) /\ ReplicaOK(u)
    BY <1>2 DEF Later, ReplicaOK
  <2>2. MessageOK(m) /\ Honest(m, u) /\ m.type = "CheckPoint" /\ "type" \in DOMAIN m /\ "seq" \in DOMAIN m
    BY DEF MessageOK, Honest, Numbered
  <2> HIDE DEF m
  <2>3. Steady(u, w)
    BY <2>1, <2>2, Sends
  <2> QED
    BY <2>1, <2>3, SteadyIsLater
<1> HIDE DEF w, m, p
<1>4. Later(w, CheckPoint(w, n, p))
  BY <1>3, CheckPointIsLater DEF Later
<1>5. Core(s) /\ Core(t) /\ Core(u) /\ Later(s, s)
  BY <1>1, <1>2, NothingIsSteady, SteadyIsLater DEF Later, ReplicaOK
<1>6. Later(s, CheckPoint(w, n, p))
  BY <1>1, <1>2, <1>3, <1>4, <1>5, LaterTwice
<1>7. startCheckPoint(s, n) = IF tooOld(s, n) THEN s ELSE CheckPoint(w, n, p)
  BY DEF startCheckPoint, t, u, w, m, p
<1> QED
  BY <1>5, <1>6, <1>7

-----------------------------------------------------------------------------
(* Execution.                                                              *)
First(Q) == CHOOSE task \in Q : \A other \in Q : task.seq <= other.seq

LEMMA FirstIsFirst ==
    ASSUME NEW Q, IsFiniteSet(Q), Q # {}, \A task \in Q : task.seq \in Int
    PROVE  First(Q) \in Q /\ \A task \in Q : First(Q).seq <= task.seq
<1> DEFINE w == [task \in Q |-> -task.seq]
<1>1. w \in [Q -> Int] /\ \A task \in Q : w[task] = -task.seq
  OBVIOUS
<1> HIDE DEF w
<1>2. PICK m \in Q : \A n \in Q : w[m] >= w[n]
  BY <1>1, HasALargest
<1>3. \A n \in Q : m.seq <= n.seq
  BY <1>1, <1>2
<1> QED
  BY <1>3 DEF First

(* The next operation in order, if it has come: nothing that is stable is  *)
(* made a checkpoint again.                                                *)
LEMMA ExecuteNextIsLater ==
    ASSUME NEW s, ReplicaOK(s), NEW k
    PROVE  Later(s, executeNext(k, s))
<1> DEFINE next == First(s.applyQueue)
           queue == s.applyQueue \ {next}
           t == [s EXCEPT !.apply = next.seq,
                          !.state = IF next.req = NoRequest THEN @
                                    ELSE Append(@, [seq |-> next.seq, digest |-> next.req.op]),
                          !.applyQueue = queue,
                          !.db.executed = Append(@, <<next.seq, next.req.op>>)]
           u == replyByPendingTask(next, t)
           w == [s EXCEPT !.panicked = TRUE]
<1>1. Later(s, s) /\ Core(s)
  BY NothingIsSteady, SteadyIsLater DEF ReplicaOK
<1>2. Later(s, w)
  <2>1. /\ DOMAIN w = DOMAIN s /\ w.id = s.id /\ w.tSeq = s.tSeq /\ w.seqmap = s.seqmap
        /\ w.apply = s.apply /\ w.log = s.log /\ w.cps = s.cps /\ w.vcs = s.vcs
        /\ w.applyQueue = s.applyQueue /\ w.db = s.db /\ w.out = s.out
    OBVIOUS
  <2> HIDE DEF w
  <2> QED
    BY <1>1, <2>1, OtherFields, SteadyIsLater
<1> HIDE DEF w, next
<1>3. ASSUME s.applyQueue # {}, ~(s.apply + 1 < next.seq), ~(s.apply + 1 > next.seq)
      PROVE  Later(s, u) /\ Later(s, startCheckPoint(u, next.seq))
  <2>1. next.seq \in Int /\ s.apply \in Int /\ next.seq = s.apply + 1
    <3>1. next \in s.applyQueue
      BY <1>1, <1>3, FirstIsFirst DEF Core, next
    <3>2. next.seq \in Int /\ s.apply \in Int
      BY <1>1, <3>1 DEF Core
    <3> QED
      BY <1>3, <3>2
  <2>2. /\ DOMAIN t = DOMAIN s /\ t.id = s.id /\ t.tSeq = s.tSeq /\ t.seqmap = s.seqmap
        /\ t.log = s.log /\ t.cps = s.cps /\ t.vcs = s.vcs /\ t.out = s.out
        /\ t.apply = next.seq /\ t.applyQueue = queue
        /\ t.db.nonce = s.db.nonce /\ "nonce" \in DOMAIN t.db
    BY <1>1 DEF Core, Fields
  <2>3. IsFiniteSet(queue) /\ \A task \in queue : task.seq \in Int
    BY <1>1, FS_Subset DEF Core
  <2> HIDE DEF t, queue
  <2>4. Core(t) /\ HasStable(t)
    BY <1>1, <2>1, <2>2, <2>3 DEF Core, Honest, ReplicaOK, HasStable
  <2>5. Steady(t, u)
    BY <2>1, <2>4, ReplyByPendingTaskIsSteady
  <2>6. Later(t, u) /\ Later(s, t)
    BY <1>1, <2>2, <2>4, <2>5, SteadyIsLater DEF Later, ReplicaOK, Core
  <2> HIDE DEF u
  <2>7. Later(s, u) /\ ReplicaOK(u)
    BY <1>1, <2>6, LaterTwice DEF Later
  <2>8. \E n \in DOMAIN u.cps \ {next.seq} : u.cps[n].Stable
    <3>1. PICK n \in DOMAIN s.cps : s.cps[n].Stable /\ n <= s.apply
      BY DEF ReplicaOK, HasStable
    <3>2. n \in Int /\ n # next.seq
      BY <1>1, <2>1, <3>1 DEF Core
    <3> QED
      BY <2>2, <2>5, <3>1, <3>2 DEF Steady
  <2>9. Later(u, startCheckPoint(u, next.seq))
    BY <2>1, <2>7, <2>8, StartCheckPointIsLater
  <2> QED
    BY <1>1, <2>7, <2>9, LaterTwice
<1>4. executeNext(k, s) = IF s.applyQueue = {} \/ s.apply + 1 < next.seq THEN s
                          ELSE IF s.apply + 1 > next.seq THEN w
                          ELSE IF next.seq % CheckpointDiv = 0 THEN startCheckPoint(u, next.seq) ELSE u
  BY DEF executeNext, First, next, t, u, w, queue
<1> HIDE DEF t, u
<1> QED
  BY <1>1, <1>2, <1>3, <1>4

Executing(s, k, t) == executeNext(k, t)
Executes == INSTANCE Folds_proofs WITH Op <- Executing, Good <- Later

LEMMA ExecuteIsLater ==
    ASSUME NEW s, ReplicaOK(s), NEW v, NEW n \in Int
    PROVE  Later(s, execute(s, v, n))
<1> DEFINE e == [getEntry(s, v, n) EXCEPT !.sendReply = TRUE, !.c = {}]
           p == putEntry(s, v, n, e)
           task == [seq |-> n, view |-> v, req |-> getEntry(s, v, n).pp]
           t == [p EXCEPT !.applyQueue = @ \cup {task}]
           w == [s EXCEPT !.panicked = TRUE]
           r == FoldSet(executeNext, t, 1 .. Cardinality(t.applyQueue))
<1>1. Later(s, s) /\ Core(s)
  BY NothingIsSteady, SteadyIsLater DEF ReplicaOK
<1>2. Later(s, w)
  <2>1. /\ DOMAIN w = DOMAIN s /\ w.id = s.id /\ w.tSeq = s.tSeq /\ w.seqmap = s.seqmap
        /\ w.apply = s.apply /\ w.log = s.log /\ w.cps = s.cps /\ w.vcs = s.vcs
        /\ w.applyQueue = s.applyQueue /\ w.db = s.db /\ w.out = s.out
    OBVIOUS
  <2> HIDE DEF w
  <2> QED
    BY <1>1, <2>1, OtherFields, SteadyIsLater
<1>3. Steady(s, p) /\ Core(p)
  <2>1. Entry(e, n, s)
    BY <1>1, GetsAnEntry DEF Entry
  <2> HIDE DEF e
  <2> QED
    BY <1>1, <2>1, PutsAnEntry DEF Steady
<1> HIDE DEF p
<1>4. Steady(p, t)
  <2> DEFINE queue == p.applyQueue \cup {task}
  <2>1. IsFiniteSet(queue) /\ \A x \in queue : x.seq \in Int
    <3>1. IsFiniteSet(p.applyQueue) /\ \A x \in p.applyQueue : x.seq \in Int
      BY <1>3 DEF Core
    <3>2. task.seq \in Int
      OBVIOUS
    <3> HIDE DEF task
    <3> QED
      BY <3>1, <3>2, FS_AddElement
  <2>2. /\ DOMAIN t = DOMAIN p /\ t.id = p.id /\ t.tSeq = p.tSeq /\ t.seqmap = p.seqmap
        /\ t.apply = p.apply /\ t.log = p.log /\ t.cps = p.cps /\ t.vcs = p.vcs
        /\ t.applyQueue = queue /\ t.db = p.db /\ t.out = p.out
    BY <1>3 DEF Core, Fields
  <2> HIDE DEF queue, t
  <2> QED
    BY <1>3, <2>1, <2>2 DEF Steady, Core, Honest
<1>5. Later(s, t)
  BY <1>1, <1>3, <1>4, SteadyTwice, SteadyIsLater
<1> HIDE DEF t
<1>6. Later(s, r)
  <2>1. IsFiniteSet(1 .. Cardinality(t.applyQueue))
    <3>1. Cardinality(t.applyQueue) \in Nat
      BY <1>5, FS_CardinalityType DEF Later, ReplicaOK, Core
    <3> QED
      BY <3>1, FS_Interval
  <2>2. ASSUME NEW k, NEW x, Later(s, x) PROVE Later(s, Executing(s, k, x))
    <3>1. Later(x, executeNext(k, x))
      BY <2>2, ExecuteNextIsLater DEF Later
    <3> QED
      BY <1>1, <2>2, <3>1, LaterTwice DEF Executing
  <2>3. r = Executes!Fold(s, t, 1 .. Cardinality(t.applyQueue))
    BY DEF FoldSet, MapThenFoldSet, Executes!Fold, Executes!Defines, Executes!First, Executing
  <2>4. Executes!IsFiniteSet(1 .. Cardinality(t.applyQueue))
    BY <2>1 DEF IsFiniteSet, Executes!IsFiniteSet
  <2> DEFINE S == 1 .. Cardinality(t.applyQueue)
  <2> HIDE DEF S, r
  <2>5. Later(s, Executes!Fold(s, t, S))
    BY <1>5, <2>2, <2>4, Executes!FoldKeeps DEF S
  <2> QED
    BY <2>3, <2>5 DEF S
<1>7. execute(s, v, n) = IF n <= s.apply THEN s
                         ELSE IF \E other \in s.applyQueue : other.seq = n THEN w ELSE r
  BY DEF execute, w, r, t, p, e, task
<1> HIDE DEF r, w
<1> QED
  BY <1>1, <1>2, <1>6, <1>7

-----------------------------------------------------------------------------
(* The three phases.                                                       *)
LEMMA Still == \A s : ReplicaOK(s) => Later(s, s) /\ Core(s)
BY NothingIsSteady, SteadyIsLater DEF ReplicaOK

LEMMA LaterOn == \A s, t : Later(s, t) => ReplicaOK(t) /\ Core(t)
BY DEF Later, ReplicaOK

LEMMA EntryLasts ==
    ASSUME NEW s, NEW t, Core(s), Later(s, t), NEW n \in Int, NEW e, Entry(e, n, s)
    PROVE  Entry(e, n, t)
BY DEF Entry, Later, ReplicaOK, Core

LEMMA PutsItLater ==
    ASSUME NEW s, ReplicaOK(s), NEW v, NEW n \in Int, NEW e, Entry(e, n, s)
    PROVE  Later(s, putEntry(s, v, n, e))
BY PutsAnEntry, SteadyIsLater DEF ReplicaOK

LEMMA StopTimerIsLater == \A s : ReplicaOK(s) => Later(s, stopTimer(s))
BY StopTimerIsSteady, SteadyIsLater DEF ReplicaOK

LEMMA CommitIsLater ==
    ASSUME NEW s, ReplicaOK(s), NEW v, NEW n \in Int, NEW digest, NEW rid
    PROVE  Later(s, Commit(s, v, n, digest, rid))
<1> DEFINE t == stopTimer(s)
           e == [getEntry(s, v, n) EXCEPT !.c = @ \cup {<<rid, digest>>}]
           u == putEntry(t, v, n, e)
           w == execute(u, v, n)
<1>1. Later(s, t) /\ Core(s) /\ ReplicaOK(t) /\ Later(s, s)
  BY StopTimerIsLater, Still, LaterOn
<1>2. Entry(e, n, s)
  BY <1>1, GetsAnEntry DEF Entry
<1> HIDE DEF t, e
<1>3. Later(t, u)
  BY <1>1, <1>2, EntryLasts, PutsItLater
<1> HIDE DEF u
<1>4. Later(u, w)
  BY <1>3, LaterOn, ExecuteIsLater DEF w
<1>5. Commit(s, v, n, digest, rid) =
        IF s.changing THEN s
        ELSE IF e.sendReply \/ ~Fits(s, v, n, digest) THEN t
        ELSE IF e.sendCommit /\ committed(e) THEN w
        ELSE u
  BY DEF Commit, t, e, u, w
<1> HIDE DEF w
<1>6. Later(s, u) /\ Later(s, w)
  BY <1>1, <1>3, <1>4, LaterTwice
<1> QED
  BY <1>1, <1>5, <1>6

LEMMA SeqmapIsSteady ==
    ASSUME NEW s, Core(s), NEW op, NEW n \in Int
    PROVE  Steady(s, [s EXCEPT !.seqmap = Put(@, op, n)])
<1> DEFINE seqmap == Put(s.seqmap, op, n)
           t == [s EXCEPT !.seqmap = seqmap]
<1>1. \A x \in DOMAIN seqmap : seqmap[x] \in Int
  BY DEF Core, Put
<1> HIDE DEF seqmap
<1>2. /\ DOMAIN t = DOMAIN s /\ t.id = s.id /\ t.tSeq = s.tSeq /\ t.seqmap = seqmap
      /\ t.apply = s.apply /\ t.log = s.log /\ t.cps = s.cps /\ t.vcs = s.vcs
      /\ t.applyQueue = s.applyQueue /\ t.db = s.db /\ t.out = s.out
  BY DEF Core, Fields
<1> HIDE DEF t
<1>3. Steady(s, t)
  BY <1>1, <1>2 DEF Steady, Core, Honest
<1> QED
  BY <1>3 DEF t, seqmap

LEMMA SendCommitIsLater ==
    ASSUME NEW s, ReplicaOK(s), NEW v, NEW n \in Int, NEW e
    PROVE  Later(s, sendCommit(s, v, n, e))
<1> DEFINE t0 == NewNonceForOp(s, v, n, e.pp.op)
           t == [t0 EXCEPT !.seqmap = Put(@, e.pp.op, n)]
           m == [type |-> "Commit", view |-> v, seq |-> n, digest |-> e.pp.op]
           w == Send(t, m, Others(s))
           u == Commit(w, v, n, e.pp.op, s.id)
           f1 == [getEntry(u, v, n) EXCEPT !.sendCommit = TRUE, !.p = {}]
<1>1. Core(s) /\ Steady(s, t0) /\ Core(t0)
  BY Still, NewNonceForOpIsSteady DEF Steady
<1> HIDE DEF t0
<1>2. Steady(t0, t) /\ Core(t)
  BY <1>1, SeqmapIsSteady DEF Steady
<1> HIDE DEF t
<1>3. Steady(t, w)
  <2>1. MessageOK(m) /\ Honest(m, t) /\ m.type = "Commit" /\ "type" \in DOMAIN m /\ "seq" \in DOMAIN m
    BY DEF MessageOK, Honest, Numbered
  <2> HIDE DEF m
  <2> QED
    BY <1>2, <2>1, Sends
<1> HIDE DEF w
<1>4. Later(s, w) /\ ReplicaOK(w)
  <2>1. Steady(s, w)
    BY <1>1, <1>2, <1>3, SteadyTwice
  <2> QED
    BY <2>1, SteadyIsLater, LaterOn
<1>5. Later(w, u) /\ ReplicaOK(u) /\ Core(u)
  BY <1>4, CommitIsLater, LaterOn
<1> HIDE DEF u
<1>6. Entry(f1, n, u)
  BY <1>5, GetsAnEntry DEF Entry
<1> HIDE DEF f1
<1>7. Later(u, putEntry(u, v, n, f1))
  BY <1>5, <1>6, PutsItLater
<1>8. sendCommit(s, v, n, e) = putEntry(u, v, n, f1)
  BY DEF sendCommit, t0, t, m, w, u, f1
<1> QED
  BY <1>1, <1>4, <1>5, <1>7, <1>8, LaterTwice

LEMMA PrepareIsLater ==
    ASSUME NEW s, ReplicaOK(s), NEW v, NEW n \in Int, NEW digest, NEW rid
    PROVE  Later(s, Prepare(s, v, n, digest, rid))
<1> DEFINE t == stopTimer(s)
           e == [getEntry(s, v, n) EXCEPT !.p = @ \cup {<<rid, digest>>}]
           u == putEntry(t, v, n, e)
           w == [u EXCEPT !.timeouts = @ + 1]
           x == sendCommit(u, v, n, e)
<1>1. Later(s, t) /\ Core(s) /\ ReplicaOK(t) /\ Later(s, s)
  BY StopTimerIsLater, Still, LaterOn
<1>2. Entry(e, n, s)
  BY <1>1, GetsAnEntry DEF Entry
<1> HIDE DEF t, e
<1>3. Later(t, u) /\ ReplicaOK(u) /\ Core(u)
  BY <1>1, <1>2, EntryLasts, PutsItLater, LaterOn
<1> HIDE DEF u
<1>4. Later(u, w)
  <2>1. /\ DOMAIN w = DOMAIN u /\ w.id = u.id /\ w.tSeq = u.tSeq /\ w.seqmap = u.seqmap
        /\ w.apply = u.apply /\ w.log = u.log /\ w.cps = u.cps /\ w.vcs = u.vcs
        /\ w.applyQueue = u.applyQueue /\ w.db = u.db /\ w.out = u.out
    OBVIOUS
  <2> HIDE DEF w
  <2> QED
    BY <1>3, <2>1, OtherFields, SteadyIsLater
<1>5. Later(u, x)
  BY <1>3, SendCommitIsLater
<1>6. Prepare(s, v, n, digest, rid) =
        IF s.changing THEN s
        ELSE IF e.sendCommit \/ ~Fits(s, v, n, digest) THEN t
        ELSE IF e.pp = Nil \/ ~prepared(e) THEN u
        ELSE IF Refuses(s, v, n, e.pp.op) THEN w
        ELSE x
  BY DEF Prepare, t, e, u, w, x
<1> HIDE DEF w, x
<1>7. Later(s, u) /\ Later(s, w) /\ Later(s, x)
  BY <1>1, <1>3, <1>4, <1>5, LaterTwice
<1> QED
  BY <1>1, <1>6, <1>7

LEMMA PrePrepareIsLater ==
    ASSUME NEW s, ReplicaOK(s), NEW v, NEW n \in Int, NEW req
    PROVE  Later(s, PrePrepare(s, v, n, req))
<1> DEFINE t0 == NewNonceForOp(s, v, n, req.op)
           t == stopTimer(t0)
           e == [getEntry(s, v, n) EXCEPT !.pp = req]
           u == putEntry(t, v, n, e)
           m == [type |-> "Prepare", view |-> v, seq |-> n, digest |-> req.op]
           w == Send(u, m, Others(s))
           x == Prepare(w, v, n, req.op, s.id)
<1>1. Later(s, s) /\ Core(s) /\ Later(s, t0) /\ ReplicaOK(t0)
  BY Still, NewNonceForOpIsSteady, SteadyIsLater, LaterOn
<1> HIDE DEF t0
<1>2. Later(t0, t) /\ Later(s, t) /\ ReplicaOK(t)
  BY <1>1, StopTimerIsLater, LaterOn, LaterTwice
<1>3. Entry(e, n, s)
  BY <1>1, GetsAnEntry DEF Entry
<1> HIDE DEF t, e
<1>4. Later(t, u) /\ Later(s, u) /\ ReplicaOK(u) /\ Core(u)
  <2>1. Later(t, u)
    BY <1>1, <1>2, <1>3, EntryLasts, PutsItLater
  <2> QED
    BY <1>1, <1>2, <2>1, LaterOn, LaterTwice
<1> HIDE DEF u
<1>5. Later(u, w)
  <2>1. MessageOK(m) /\ Honest(m, u) /\ m.type = "Prepare" /\ "type" \in DOMAIN m /\ "seq" \in DOMAIN m
    BY DEF MessageOK, Honest, Numbered
  <2> HIDE DEF m
  <2> QED
    BY <1>4, <2>1, Sends, SteadyIsLater
<1> HIDE DEF w
<1>6. Later(w, x)
  BY <1>5, LaterOn, PrepareIsLater
<1> HIDE DEF x
<1>7. Later(s, x)
  BY <1>1, <1>4, <1>5, <1>6, LaterTwice
<1>8. PrePrepare(s, v, n, req) = IF s.changing \/ Refuses(s, v, n, req.op) THEN s
                                 ELSE IF ~Fits(s, v, n, req.op) THEN t ELSE x
  BY DEF PrePrepare, t0, t, e, u, m, w, x
<1> QED
  BY <1>1, <1>2, <1>7, <1>8

LEMMA ProposeIsLater ==
    ASSUME NEW s, ReplicaOK(s), NEW n \in Int, NEW req
    PROVE  Later(s, propose(s, n, req))
<1> DEFINE m == [type |-> "PrePrepare", view |-> s.view, seq |-> n, req |-> req]
           t == Send(s, m, Others(s))
<1>1. Later(s, t) /\ Core(s)
  <2>1. MessageOK(m) /\ Honest(m, s) /\ m.type = "PrePrepare" /\ "type" \in DOMAIN m /\ "seq" \in DOMAIN m
    BY DEF MessageOK, Honest, Numbered
  <2> HIDE DEF m
  <2> QED
    BY <2>1, Still, Sends, SteadyIsLater
<1> HIDE DEF t
<1>2. Later(t, PrePrepare(t, s.view, n, req))
  BY <1>1, LaterOn, PrePrepareIsLater
<1>3. propose(s, n, req) = PrePrepare(t, s.view, n, req)
  BY DEF propose, t
<1> QED
  BY <1>1, <1>2, <1>3, LaterTwice

LEMMA HandleRequestLeaderIsLater ==
    ASSUME NEW s, ReplicaOK(s), NEW req
    PROVE  Later(s, handleRequestLeader(s, req))
<1> DEFINE map == Put(s.seqmap, req.op, s.tSeq)
           t == [s EXCEPT !.seqmap = map, !.tSeq = @ + 1]
           x == propose(t, s.tSeq, req)
           n == s.seqmap[req.op]
           e == getEntry(s, s.view, n)
           y == propose(s, n, e.pp)
           z == reply(s, [seq |-> n, view |-> s.view, req |-> e.pp])
<1>1. Later(s, s) /\ Core(s) /\ s.tSeq \in Int
  BY Still DEF Core
<1>2. Later(s, t)
  <2>1. \A op \in DOMAIN map : map[op] \in Int
    BY <1>1 DEF Core, Put
  <2> HIDE DEF map
  <2>2. /\ DOMAIN t = DOMAIN s /\ t.id = s.id /\ t.tSeq = s.tSeq + 1 /\ t.seqmap = map
        /\ t.apply = s.apply /\ t.log = s.log /\ t.cps = s.cps /\ t.vcs = s.vcs
        /\ t.applyQueue = s.applyQueue /\ t.db = s.db /\ t.out = s.out
    BY <1>1 DEF Core, Fields
  <2> HIDE DEF t
  <2>3. Steady(s, t)
    BY <1>1, <2>1, <2>2 DEF Steady, Core, Honest
  <2> QED
    BY <2>3, SteadyIsLater
<1> HIDE DEF t
<1>3. Later(t, x)
  BY <1>1, <1>2, LaterOn, ProposeIsLater
<1>4. Later(s, x)
  BY <1>1, <1>2, <1>3, LaterTwice
<1>5. ASSUME req.op \in DOMAIN s.seqmap
      PROVE  Later(s, y) /\ (e.r => Later(s, z))
  <2>1. n \in Int
    BY <1>1, <1>5 DEF Core
  <2>2. Entry(e, n, s)
    BY <1>1, GetsAnEntry
  <2> HIDE DEF e, n
  <2>3. Later(s, y)
    BY <2>1, ProposeIsLater
  <2>4. ASSUME e.r PROVE Later(s, z)
    <3> DEFINE task == [seq |-> n, view |-> s.view, req |-> e.pp]
    <3>1. task.seq \in Int /\ task.seq <= s.db.nonce
      BY <2>1, <2>2, <2>4 DEF Entry
    <3> HIDE DEF task
    <3>2. Steady(s, reply(s, task))
      BY <1>1, <3>1, ReplyIsSteady
    <3> QED
      BY <3>2, SteadyIsLater DEF task
  <2> QED
    BY <2>3, <2>4
<1>6. handleRequestLeader(s, req) =
        IF req.op \notin DOMAIN s.seqmap
        THEN IF s.tSeq >= H(s) THEN s ELSE x
        ELSE IF n <= s.lastcp \/ e.pp \in {Nil, NoRequest} THEN s
             ELSE IF ~e.sendReply THEN y
             ELSE IF e.r THEN z ELSE s
  BY DEF handleRequestLeader, map, t, x, n, e, y, z
<1> HIDE DEF x, n, e, y, z
<1> QED
  BY <1>1, <1>4, <1>5, <1>6

LEMMA RequestIsLater ==
    ASSUME NEW s, ReplicaOK(s), NEW req
    PROVE  Later(s, Request(s, req))
<1> DEFINE t == [s EXCEPT !.monitor = TRUE, !.ticking = TRUE]
           m == [type |-> "Request", req |-> req]
           u == Send(t, m, {Primary(s.view)} \cap Up)
<1>1. Later(s, s) /\ Core(s)
  BY Still
<1>2. Steady(s, t) /\ Core(t)
  <2>1. /\ DOMAIN t = DOMAIN s /\ t.id = s.id /\ t.tSeq = s.tSeq /\ t.seqmap = s.seqmap
        /\ t.apply = s.apply /\ t.log = s.log /\ t.cps = s.cps /\ t.vcs = s.vcs
        /\ t.applyQueue = s.applyQueue /\ t.db = s.db /\ t.out = s.out
    OBVIOUS
  <2> HIDE DEF t
  <2> QED
    BY <1>1, <2>1, OtherFields DEF Steady
<1> HIDE DEF t
<1>3. Steady(t, u)
  <2>1. MessageOK(m) /\ Honest(m, t) /\ m.type = "Request" /\ "type" \in DOMAIN m
    BY DEF MessageOK, Honest, Numbered
  <2> HIDE DEF m
  <2> QED
    BY <1>2, <2>1, Sends DEF Numbered
<1> HIDE DEF u
<1>4. Later(s, u)
  BY <1>1, <1>2, <1>3, SteadyTwice, SteadyIsLater
<1>5. Later(s, handleRequestFollower(s, req))
  BY <1>1, <1>4 DEF handleRequestFollower, t, m, u
<1> QED
  BY <1>1, <1>5, HandleRequestLeaderIsLater DEF Request

-----------------------------------------------------------------------------
(* View changes.                                                           *)
LEMMA ImageIsFinite ==
    ASSUME NEW g, IsFiniteSet(DOMAIN g), NEW T, T = {g[x] : x \in DOMAIN g}
    PROVE  IsFiniteSet(T)
<1> DEFINE h == [x \in DOMAIN g |-> g[x]]
<1>1. h \in Surjection(DOMAIN g, T)
  BY DEF Surjection
<1> QED
  BY <1>1, FS_Surjection

LEMMA StableCheckPointIsStable ==
    ASSUME NEW s, ReplicaOK(s)
    PROVE  /\ stableCheckPoint(s) \in DOMAIN s.cps /\ stableCheckPoint(s) \in Int
           /\ s.cps[stableCheckPoint(s)].Stable
BY DEF ReplicaOK, HasStable, Core, stableCheckPoint

LEMMA PreparedListsAreFinite ==
    ASSUME NEW s, ReplicaOK(s), NEW P \in PreparedLists(s)
    PROVE  IsFiniteSet(DOMAIN P) /\ DOMAIN P \subseteq Int
<1> DEFINE g == [k \in Prepareds(s) |-> k[2]]
           seqs == {k[2] : k \in Prepareds(s)}
<1>1. Prepareds(s) \subseteq DOMAIN s.log /\ IsFiniteSet(Prepareds(s))
  <2>1. Prepareds(s) \subseteq DOMAIN s.log
    BY DEF Prepareds
  <2>2. IsFiniteSet(DOMAIN s.log)
    BY DEF ReplicaOK, Core, EntriesOK
  <2> QED
    BY <2>1, <2>2, FS_Subset
<1>2. seqs \subseteq Int
  BY <1>1 DEF ReplicaOK, Core, EntriesOK
<1>3. DOMAIN g = Prepareds(s) /\ seqs = {g[k] : k \in DOMAIN g}
  OBVIOUS
<1>4. DOMAIN P = seqs
  BY DEF PreparedLists
<1> HIDE DEF g, seqs
<1>5. IsFiniteSet(seqs)
  BY <1>1, <1>3, ImageIsFinite
<1> QED
  BY <1>2, <1>4, <1>5

(* A new view starts with a highest checkpoint and a highest Seq.          *)
LEMMA NewViewStarts ==
    ASSUME NEW V, ChangesOK(V), V # <<>>
    PROVE  /\ mins(V) \in Int /\ maxs(V) \in Int /\ maxs(V) >= mins(V)
           /\ \E k \in DOMAIN V : mins(V) = V[k].cp
           /\ IsFiniteSet(DOMAIN V) /\ DOMAIN V \subseteq Int
<1> DEFINE cps == {V[k].cp : k \in DOMAIN V}
           Ps == {DOMAIN V[k].P : k \in DOMAIN V}
           g == [k \in DOMAIN V |-> V[k].cp]
           h == [k \in DOMAIN V |-> DOMAIN V[k].P]
<1>1. IsFiniteSet(DOMAIN V) /\ DOMAIN V # {} /\ DOMAIN V \subseteq Int
  <2>1. DOMAIN V = 1 .. Len(V) /\ Len(V) \in Nat /\ Len(V) # 0
    BY DEF ChangesOK
  <2>2. IsFiniteSet(1 .. Len(V))
    BY <2>1, FS_Interval
  <2> QED
    BY <2>1, <2>2
<1>2. \A k \in DOMAIN V : V[k].cp \in Int /\ IsFiniteSet(DOMAIN V[k].P) /\ DOMAIN V[k].P \subseteq Int
  BY DEF ChangesOK, ChangeOK
<1>3. /\ DOMAIN g = DOMAIN V /\ cps = {g[k] : k \in DOMAIN g}
      /\ DOMAIN h = DOMAIN V /\ Ps = {h[k] : k \in DOMAIN h}
  OBVIOUS
<1>4. cps # {} /\ cps \subseteq Int /\ \A T \in Ps : IsFiniteSet(T) /\ T \subseteq Int
  BY <1>1, <1>2
<1>5. mins(V) = Max(cps) /\ maxs(V) = Max({mins(V)} \cup UNION Ps)
  BY DEF mins, maxs
<1> HIDE DEF g, h, cps, Ps
<1>6. IsFiniteSet(cps) /\ IsFiniteSet(Ps)
  BY <1>1, <1>3, ImageIsFinite
<1>7. mins(V) \in Int /\ mins(V) \in cps
  BY <1>4, <1>5, <1>6, MaxIsMaximum
<1> DEFINE all == (UNION Ps) \cup {mins(V)}
<1>8. IsFiniteSet(all)
  BY <1>4, <1>6, FS_UNION, FS_AddElement
<1>9. all # {} /\ all \subseteq Int /\ all = {mins(V)} \cup UNION Ps
  BY <1>4, <1>7
<1> HIDE DEF all
<1>10. maxs(V) \in Int /\ maxs(V) >= mins(V)
  BY <1>5, <1>7, <1>8, <1>9, MaxIsMaximum
<1>11. \E k \in DOMAIN V : mins(V) = V[k].cp
  BY <1>7 DEF cps
<1> QED
  BY <1>1, <1>7, <1>10, <1>11

\* What a replica takes over from the view changes V when it enters view v.
Entered(t, i, v, V) ==
    LET pps == calcPPS(V)
    IN  [t EXCEPT
            !.tSeq = maxs(V) + 1,
            !.seqmap = Over([op \in {pps[n].op : n \in DOMAIN pps} |->
                                Max({n \in DOMAIN pps : pps[n].op = op})], @),
            !.log = Over([k \in {<<v, n>> : n \in DOMAIN pps} |->
                             [getEntry(t, v, k[2]) EXCEPT !.pp = pps[k[2]]]], @),
            !.view = v, !.changing = FALSE,
            !.vcs = [w \in {x \in DOMAIN @ : x > v} |-> @[w]],
            !.out = @ \cup {[type |-> "Prepare", view |-> v, seq |-> n, digest |-> pps[n].op,
                             from |-> i, to |-> j] : n \in DOMAIN pps, j \in Up}]

LEMMA EnteredIsSteady ==
    ASSUME NEW t, Core(t), NEW i, NEW v, NEW V, ChangesOK(V), V # <<>>
    PROVE  Steady(t, Entered(t, i, v, V))
<1> DEFINE pps == calcPPS(V)
           seqmap == Over([op \in {pps[n].op : n \in DOMAIN pps} |->
                               Max({n \in DOMAIN pps : pps[n].op = op})], t.seqmap)
           log == Over([k \in {<<v, n>> : n \in DOMAIN pps} |->
                            [getEntry(t, v, k[2]) EXCEPT !.pp = pps[k[2]]]], t.log)
           vcs == [w \in {x \in DOMAIN t.vcs : x > v} |-> t.vcs[w]]
           out == t.out \cup {[type |-> "Prepare", view |-> v, seq |-> n, digest |-> pps[n].op,
                               from |-> i, to |-> j] : n \in DOMAIN pps, j \in Up}
           u == [t EXCEPT !.tSeq = maxs(V) + 1, !.seqmap = seqmap, !.log = log, !.view = v,
                          !.changing = FALSE, !.vcs = vcs, !.out = out]
<1>1. mins(V) \in Int /\ maxs(V) \in Int
  BY NewViewStarts
<1>2. Entered(t, i, v, V) = u
  BY DEF Entered
<1>3. IsFiniteSet(DOMAIN pps) /\ DOMAIN pps \subseteq Int
  <2>1. DOMAIN pps = mins(V) + 1 .. maxs(V)
    BY DEF calcPPS
  <2> HIDE DEF pps
  <2> QED
    BY <1>1, <2>1, FS_Interval
<1> HIDE DEF pps
<1>4. \A op \in DOMAIN seqmap : seqmap[op] \in Int
  <2> DEFINE of(op) == {n \in DOMAIN pps : pps[n].op = op}
             ops == {pps[n].op : n \in DOMAIN pps}
  <2>1. ASSUME NEW op \in ops PROVE Max(of(op)) \in Int
    <3>1. IsFiniteSet(of(op)) /\ of(op) # {} /\ of(op) \subseteq Int
      BY <1>3, <2>1, FS_Subset
    <3> HIDE DEF of
    <3> QED
      BY <3>1, MaxIsMaximum
  <2>2. \A op \in DOMAIN t.seqmap : t.seqmap[op] \in Int
    BY DEF Core
  <2>3. seqmap = Over([op \in ops |-> Max(of(op))], t.seqmap)
    OBVIOUS
  <2> HIDE DEF ops, of, seqmap
  <2> QED
    BY <2>1, <2>2, <2>3 DEF Over
<1>5. EntriesOK(log, t.db.nonce)
  <2> DEFINE g == [n \in DOMAIN pps |-> <<v, n>>]
             keys == {<<v, n>> : n \in DOMAIN pps}
             entry(k) == [getEntry(t, v, k[2]) EXCEPT !.pp = pps[k[2]]]
  <2>1. IsFiniteSet(keys)
    <3>1. DOMAIN g = DOMAIN pps /\ keys = {g[n] : n \in DOMAIN g}
      OBVIOUS
    <3> HIDE DEF g, keys
    <3> QED
      BY <1>3, <3>1, ImageIsFinite
  <2>2. \A k \in keys : k[2] \in Int /\ Entry(entry(k), k[2], t)
    <3> SUFFICES ASSUME NEW k \in keys PROVE k[2] \in Int /\ Entry(entry(k), k[2], t)
      OBVIOUS
    <3>1. k[2] \in Int
      BY <1>3
    <3> QED
      BY <3>1, GetsAnEntry DEF Entry
  <2>3. log = Over([k \in keys |-> entry(k)], t.log)
    OBVIOUS
  <2> HIDE DEF keys, entry, log
  <2>4. /\ DOMAIN log = keys \cup DOMAIN t.log
        /\ \A k \in DOMAIN log : log[k] = IF k \in keys THEN entry(k) ELSE t.log[k]
    BY <2>3 DEF Over
  <2>5. EntriesOK(t.log, t.db.nonce)
    BY DEF Core
  <2>6. IsFiniteSet(DOMAIN log)
    BY <2>1, <2>4, <2>5, FS_Union DEF EntriesOK
  <2> QED
    BY <2>2, <2>4, <2>5, <2>6 DEF EntriesOK, Entry
<1>6. \A x \in DOMAIN vcs : ChangesOK(vcs[x])
  BY DEF Core
<1>7. \A m \in out : MessageOK(m) /\ Honest(m, t)
  <2>1. \A m \in t.out : MessageOK(m) /\ Honest(m, t)
    BY DEF Core
  <2>2. ASSUME NEW n \in DOMAIN pps, NEW j,
               NEW m, m = [type |-> "Prepare", view |-> v, seq |-> n, digest |-> pps[n].op,
                           from |-> i, to |-> j]
        PROVE  MessageOK(m) /\ Honest(m, t)
    <3>1. n \in Int
      BY <1>3
    <3> QED
      BY <2>2, <3>1 DEF MessageOK, Honest, Numbered
  <2> QED
    BY <2>1, <2>2
<1>8. Steady(t, u)
  <2>1. /\ DOMAIN u = DOMAIN t /\ u.id = t.id /\ u.tSeq = maxs(V) + 1 /\ u.seqmap = seqmap
        /\ u.apply = t.apply /\ u.log = log /\ u.cps = t.cps /\ u.vcs = vcs
        /\ u.applyQueue = t.applyQueue /\ u.db = t.db /\ u.out = out
    BY DEF Core, Fields
  <2> HIDE DEF u, seqmap, log, vcs, out
  <2>2. Core(u)
    BY <1>1, <1>4, <1>5, <1>6, <1>7, <2>1 DEF Core, Honest
  <2> QED
    BY <2>1, <2>2 DEF Steady, Core
<1> HIDE DEF u
<1> QED
  BY <1>2, <1>8

LEMMA EnteringNewViewIsLater ==
    ASSUME NEW s, ReplicaOK(s), NEW v, NEW V, ChangesOK(V), V # <<>>
    PROVE  Later(s, enteringNewView(s, v, V))
<1> DEFINE cp == CHOOSE k \in DOMAIN V : V[k].cp = mins(V) /\ \A j \in 1 .. k - 1 : V[j].cp # mins(V)
           new == [Stable |-> TRUE, Digest |-> V[cp].digest, Proof |-> {}]
           s1 == [s EXCEPT !.cps = Put(@, mins(V), new)]
           t == IF mins(V) > stableCheckPoint(s)
                THEN stablizeCP(s1, mins(V), [digest |-> V[cp].digest, view |-> s.view]) ELSE s
           u == Entered(t, s.id, v, V)
           w == removeOldLog(u, mins(V))
<1>1. Later(s, s) /\ Core(s) /\ mins(V) \in Int /\ maxs(V) \in Int
  BY Still, NewViewStarts
<1> HIDE DEF cp
<1>2. Later(s, t) /\ ReplicaOK(t) /\ Core(t)
  <2>1. /\ DOMAIN s1 = DOMAIN s /\ s1.id = s.id /\ s1.tSeq = s.tSeq /\ s1.seqmap = s.seqmap
        /\ s1.apply = s.apply /\ s1.log = s.log /\ s1.vcs = s.vcs
        /\ s1.applyQueue = s.applyQueue /\ s1.db = s.db /\ s1.out = s.out
        /\ s1.cps = Put(s.cps, mins(V), new)
    BY <1>1 DEF Core, Fields
  <2>2. "Stable" \in DOMAIN new
    OBVIOUS
  <2> HIDE DEF s1, new
  <2>3. /\ DOMAIN s1.cps = DOMAIN s.cps \cup {mins(V)}
        /\ \A k \in DOMAIN s1.cps : s1.cps[k] = IF k = mins(V) THEN new ELSE s.cps[k]
    BY <2>1 DEF Put
  <2>4. Core(s1)
    BY <1>1, <2>1, <2>2, <2>3 DEF Core, Honest
  <2>5. \A k \in DOMAIN s1.cps \ {mins(V)} : s1.cps[k].Stable => k <= s1.apply
    BY <2>1, <2>3 DEF ReplicaOK, HasStable
  <2>6. \A p : Later(s1, stablizeCP(s1, mins(V), p))
    BY <2>3, <2>4, <2>5, StablizeCPIsLater
  <2>7. \A p : Later(s, stablizeCP(s1, mins(V), p))
    BY <2>1, <2>6 DEF Later
  <2> QED
    BY <1>1, <2>7, LaterOn
<1> HIDE DEF t
<1>3. Steady(t, u)
  BY <1>2, EnteredIsSteady
<1> HIDE DEF u
<1>4. Steady(u, w) /\ Core(u)
  BY <1>3, RemoveOldLogIsSteady DEF Steady
<1> HIDE DEF w
<1>5. Later(t, w) /\ ReplicaOK(w)
  BY <1>2, <1>3, <1>4, SteadyTwice, SteadyIsLater, LaterOn
<1>6. Later(w, stopTimer(w))
  BY <1>5, StopTimerIsLater
<1>7. enteringNewView(s, v, V) = stopTimer(w)
  BY DEF enteringNewView, Entered, w, u, t, s1, new, cp
<1> QED
  BY <1>1, <1>2, <1>5, <1>6, <1>7, LaterTwice

LEMMA ChangesAppended ==
    ASSUME NEW V, ChangesOK(V), NEW vc, ChangeOK(vc)
    PROVE  ChangesOK(Append(V, vc)) /\ Append(V, vc) # <<>>
<1> DEFINE X == {V[k] : k \in DOMAIN V}
           W == Append(V, vc)
           Y == {W[k] : k \in DOMAIN W}
<1>1. V \in Seq(X) /\ \A k \in DOMAIN V : ChangeOK(V[k])
  BY DEF ChangesOK
<1>2. X \subseteq X \cup {vc}
  OBVIOUS
<1> HIDE DEF X
<1>3. V \in Seq(X \cup {vc}) /\ vc \in X \cup {vc}
  BY <1>1, <1>2
<1>4. /\ W \in Seq(X \cup {vc}) /\ Len(W) = Len(V) + 1 /\ Len(V) \in Nat
      /\ DOMAIN V = 1 .. Len(V) /\ DOMAIN W = 1 .. Len(W)
      /\ \A k \in 1 .. Len(V) : W[k] = V[k]
      /\ W[Len(V) + 1] = vc
  BY <1>3
<1> HIDE DEF W
<1>5. \A k \in DOMAIN W : ChangeOK(W[k])
  BY <1>1, <1>4
<1>6. W \in [1 .. Len(W) -> Y]
  BY <1>4
<1> HIDE DEF Y
<1>7. W \in Seq(Y) /\ W # <<>>
  BY <1>4, <1>6
<1> QED
  BY <1>5, <1>7 DEF ChangesOK, Y, W

LEMMA ViewChangeIsLater ==
    ASSUME NEW s, ReplicaOK(s), NEW vc, ChangeOK(vc)
    PROVE  Later(s, ViewChange(s, vc))
<1> DEFINE old == IF vc.view \in DOMAIN s.vcs THEN s.vcs[vc.view] ELSE <<>>
           V == Append(old, vc)
           vcs == Put(s.vcs, vc.view, V)
           t == [s EXCEPT !.vcs = vcs]
           m == [type |-> "NewView", view |-> vc.view, V |-> V]
           u == Send(t, m, Others(s))
           w == enteringNewView(u, vc.view, V)
<1>1. Later(s, s) /\ Core(s)
  BY Still
<1>2. ChangesOK(V) /\ V # <<>>
  <2>1. ChangesOK(<<>>)
    BY DEF ChangesOK
  <2>2. ChangesOK(old)
    BY <1>1, <2>1 DEF Core
  <2> HIDE DEF old
  <2> QED
    BY <2>2, ChangesAppended
<1> HIDE DEF V
<1>3. Steady(s, t) /\ Core(t)
  <2>1. \A x \in DOMAIN vcs : ChangesOK(vcs[x])
    BY <1>1, <1>2 DEF Core, Put
  <2> HIDE DEF vcs
  <2>2. /\ DOMAIN t = DOMAIN s /\ t.id = s.id /\ t.tSeq = s.tSeq /\ t.seqmap = s.seqmap
        /\ t.apply = s.apply /\ t.log = s.log /\ t.cps = s.cps /\ t.vcs = vcs
        /\ t.applyQueue = s.applyQueue /\ t.db = s.db /\ t.out = s.out
    BY <1>1 DEF Core, Fields
  <2> HIDE DEF t
  <2> QED
    BY <1>1, <2>1, <2>2 DEF Steady, Core, Honest
<1> HIDE DEF t
<1>4. Steady(t, u)
  <2>1. MessageOK(m) /\ Honest(m, t) /\ m.type = "NewView" /\ "type" \in DOMAIN m /\ "V" \in DOMAIN m
    BY <1>2 DEF MessageOK, Honest, Numbered
  <2> HIDE DEF m
  <2> QED
    BY <1>3, <2>1, Sends DEF Numbered
<1> HIDE DEF u
<1>5. Later(s, t) /\ Later(s, u) /\ ReplicaOK(u)
  BY <1>1, <1>3, <1>4, SteadyTwice, SteadyIsLater, LaterOn
<1>6. Later(u, w)
  BY <1>2, <1>5, EnteringNewViewIsLater
<1> HIDE DEF w
<1>7. Later(s, w)
  BY <1>1, <1>5, <1>6, LaterTwice
<1>8. ViewChange(s, vc) = IF vc.view <= s.view \/ Primary(vc.view) # s.id THEN s
                          ELSE IF ~EnoughChanges(V) THEN t ELSE w
  BY DEF ViewChange, old, V, vcs, t, m, u, w
<1> QED
  BY <1>1, <1>5, <1>7, <1>8

LEMMA HandleTimerIsLater ==
    ASSUME NEW s, ReplicaOK(s), NEW P, IsFiniteSet(DOMAIN P), DOMAIN P \subseteq Int
    PROVE  Later(s, handleTimer(s, P))
<1> DEFINE vc == viewChange(s, P)
           t0 == [s EXCEPT !.changing = TRUE, !.myViewChangeCount = @ + 1]
           m == [type |-> "ViewChange", vc |-> vc]
           u == Send(t0, m, {Primary(vc.view)} \cap Others(s))
           t == ViewChange(u, vc)
           w == [t EXCEPT !.ticking = TRUE, !.monitor = TRUE, !.stray = @ + IF t.ticking THEN 1 ELSE 0]
<1>1. Later(s, s) /\ Core(s)
  BY Still
<1>2. ChangeOK(vc)
  <2>1. vc.cp \in Int /\ vc.P = P
    BY StableCheckPointIsStable DEF viewChange
  <2> QED
    BY <2>1 DEF ChangeOK
<1> HIDE DEF vc
<1>3. Steady(s, t0) /\ Core(t0)
  <2>1. /\ DOMAIN t0 = DOMAIN s /\ t0.id = s.id /\ t0.tSeq = s.tSeq /\ t0.seqmap = s.seqmap
        /\ t0.apply = s.apply /\ t0.log = s.log /\ t0.cps = s.cps /\ t0.vcs = s.vcs
        /\ t0.applyQueue = s.applyQueue /\ t0.db = s.db /\ t0.out = s.out
    OBVIOUS
  <2> HIDE DEF t0
  <2> QED
    BY <1>1, <2>1, OtherFields DEF Steady
<1> HIDE DEF t0
<1>4. Steady(t0, u)
  <2>1. /\ MessageOK(m) /\ Honest(m, t0) /\ m.type = "ViewChange"
        /\ "type" \in DOMAIN m /\ "vc" \in DOMAIN m
    BY <1>2 DEF MessageOK, Honest, Numbered
  <2> HIDE DEF m
  <2> QED
    BY <1>3, <2>1, Sends DEF Numbered
<1> HIDE DEF u
<1>5. Later(s, u) /\ ReplicaOK(u)
  BY <1>1, <1>3, <1>4, SteadyTwice, SteadyIsLater, LaterOn
<1>6. Later(u, t) /\ ReplicaOK(t) /\ Core(t)
  BY <1>2, <1>5, ViewChangeIsLater, LaterOn
<1> HIDE DEF t
<1>7. Later(t, w)
  <2>1. /\ DOMAIN w = DOMAIN t /\ w.id = t.id /\ w.tSeq = t.tSeq /\ w.seqmap = t.seqmap
        /\ w.apply = t.apply /\ w.log = t.log /\ w.cps = t.cps /\ w.vcs = t.vcs
        /\ w.applyQueue = t.applyQueue /\ w.db = t.db /\ w.out = t.out
    OBVIOUS
  <2> HIDE DEF w
  <2> QED
    BY <1>6, <2>1, OtherFields, SteadyIsLater
<1>8. handleTimer(s, P) = w
  BY DEF handleTimer, vc, t0, m, u, t, w
<1> QED
  BY <1>1, <1>5, <1>6, <1>7, <1>8, LaterTwice

(* Whatever message a replica handles.                                     *)
LEMMA HandledIsLater ==
    ASSUME NEW s, ReplicaOK(s), NEW m, MessageOK(m), m.type # "Response"
    PROVE  Later(s, Handled(s, m))
<1>1. CASE m.type = "Request"
  BY <1>1, RequestIsLater DEF Handled
<1>2. CASE m.type = "PrePrepare"
  BY <1>2, PrePrepareIsLater DEF Handled, MessageOK, Numbered
<1>3. CASE m.type = "Prepare"
  BY <1>3, PrepareIsLater DEF Handled, MessageOK, Numbered
<1>4. CASE m.type = "Commit"
  BY <1>4, CommitIsLater DEF Handled, MessageOK, Numbered
<1>5. CASE m.type = "CheckPoint"
  BY <1>5, CheckPointIsLater DEF Handled, MessageOK, Numbered
<1>6. CASE m.type = "ViewChange"
  BY <1>6, ViewChangeIsLater DEF Handled, MessageOK
<1>7. CASE m.type = "NewView"
  <2>1. ChangesOK(m.V) /\ m.V # <<>>
    BY <1>7 DEF MessageOK
  <2>2. Later(s, NewView(s, m.view, m.V))
    BY <2>1, Still, EnteringNewViewIsLater DEF NewView
  <2> QED
    BY <1>7, <2>2 DEF Handled
<1> QED
  BY <1>1, <1>2, <1>3, <1>4, <1>5, <1>6, <1>7 DEF MessageOK, Numbered

-----------------------------------------------------------------------------
(* The system.  What a replica answered is in its database, whether the    *)
(* answer is on its way or the client has it; so is what was granted.      *)
Remembers(i, n) == i \in Up /\ n \in Int /\ n <= server[i].db.nonce

ReplicasOK == /\ DOMAIN server = Replicas
              /\ \A i \in Up : ReplicaOK(server[i]) /\ server[i].id = i /\ server[i].out = {}
AnswersOK  == \A m \in net : MessageOK(m) /\ (m.type = "Response" => Remembers(m.rid, m.seq))
ClientsOK  == /\ DOMAIN client = Requests
              /\ \A r \in Requests :
                    /\ {"stage", "res", "seq"} \subseteq DOMAIN client[r]
                    /\ \A a \in client[r].res : a = <<a[1], a[2]>> /\ Remembers(a[1], a[2])
Holders(servers, n) == {i \in Up : servers[i].db.nonce >= n}
GrantsOK   == \A r \in Requests :
                  Granted(r) => client[r].seq \in Int /\ Cardinality(Holders(server, client[r].seq)) > f
MemoryInv  == ReplicasOK /\ AnswersOK /\ ClientsOK /\ GrantsOK

NoncesGrow == \A i \in Up : server[i].db.nonce <= server'[i].db.nonce

LEMMA NewServerIsOK ==
    ASSUME NEW i, NEW d, "nonce" \in DOMAIN d, d.nonce \in Int, d.nonce >= -1
    PROVE  LET s == NewPBFTServer(i, d)
           IN  ReplicaOK(s) /\ s.id = i /\ s.db = d /\ s.out = {}
<1> DEFINE s == NewPBFTServer(i, d)
<1>1. /\ Fields \subseteq DOMAIN s /\ s.id = i /\ s.db = d /\ s.out = {} /\ s.tSeq = d.nonce + 1
      /\ s.apply = d.nonce /\ s.applyQueue = {}
      /\ DOMAIN s.seqmap = {} /\ DOMAIN s.log = {} /\ DOMAIN s.vcs = {}
      /\ DOMAIN s.cps = {-1} /\ s.cps[-1].Stable /\ "Stable" \in DOMAIN s.cps[-1]
  BY DEF NewPBFTServer, Fields
<1> HIDE DEF s
<1>2. Core(s)
  BY <1>1, FS_EmptySet DEF Core, EntriesOK
<1>3. HasStable(s)
  BY <1>1 DEF HasStable
<1> QED
  BY <1>1, <1>2, <1>3 DEF ReplicaOK, s

LEMMA UpAreReplicas == Up \subseteq Replicas /\ IsFiniteSet(Up)
BY VoteSets, FS_Subset, Up \subseteq Replicas DEF Up

\* One replica goes on.
LEMMA OneReplicaMoves ==
    ASSUME ReplicasOK, NEW i \in Up, NEW s, Later(server[i], s), s.out = {},
           server' = [server EXCEPT ![i] = s]
    PROVE  ReplicasOK' /\ NoncesGrow
<1>1. /\ i \in DOMAIN server /\ DOMAIN server' = DOMAIN server
      /\ \A j \in DOMAIN server : server'[j] = IF j = i THEN s ELSE server[j]
  BY UpAreReplicas DEF ReplicasOK
<1>2. ReplicasOK'
  BY <1>1 DEF ReplicasOK, Later
<1>3. \A j \in Up : server[j].db.nonce \in Int
  BY DEF ReplicasOK, ReplicaOK, Core
<1>4. NoncesGrow
  BY <1>1, <1>3, UpAreReplicas DEF NoncesGrow, ReplicasOK, Later
<1> QED
  BY <1>2, <1>4

\* What is remembered stays so.
LEMMA MemoryLasts ==
    ASSUME ReplicasOK, ReplicasOK', NoncesGrow
    PROVE  /\ \A i, n : Remembers(i, n) => Remembers(i, n)'
           /\ \A n \in Int : /\ Cardinality(Holders(server, n)) \in Nat
                             /\ Cardinality(Holders(server', n)) \in Nat
                             /\ Cardinality(Holders(server, n)) <= Cardinality(Holders(server', n))
<1>1. \A i \in Up : server[i].db.nonce \in Int /\ server'[i].db.nonce \in Int
  BY DEF ReplicasOK, ReplicaOK, Core
<1>2. \A i, n : Remembers(i, n) => Remembers(i, n)'
  BY <1>1 DEF Remembers, NoncesGrow
<1>3. ASSUME NEW n \in Int
      PROVE  /\ Cardinality(Holders(server, n)) \in Nat
             /\ Cardinality(Holders(server', n)) \in Nat
             /\ Cardinality(Holders(server, n)) <= Cardinality(Holders(server', n))
  <2>1. Holders(server, n) \subseteq Holders(server', n) /\ Holders(server', n) \subseteq Up
    BY <1>1 DEF Holders, NoncesGrow
  <2>2. IsFiniteSet(Holders(server', n))
    BY <2>1, UpAreReplicas, FS_Subset
  <2>3. IsFiniteSet(Holders(server, n)) /\ Cardinality(Holders(server, n)) <= Cardinality(Holders(server', n))
    BY <2>1, <2>2, FS_Subset
  <2> QED
    BY <2>2, <2>3, FS_CardinalityType
<1> QED
  BY <1>2, <1>3

\* Replicas go on while the clients are told nothing.
NothingTold == /\ DOMAIN client' = Requests
               /\ \A r \in Requests :
                     /\ DOMAIN client'[r] = DOMAIN client[r]
                     /\ client'[r].res = client[r].res /\ client'[r].seq = client[r].seq
                     /\ client'[r].stage = "done" => client[r].stage = "done"

LEMMA GrantsLast ==
    ASSUME MemoryInv, ReplicasOK', NoncesGrow, NothingTold
    PROVE  ClientsOK' /\ GrantsOK'
<1>1. ClientsOK'
  <2>1. \A r \in Requests : \A a \in client'[r].res : a = <<a[1], a[2]>> /\ Remembers(a[1], a[2])
    BY DEF MemoryInv, ClientsOK, NothingTold
  <2>2. \A r \in Requests : \A a \in client'[r].res : a = <<a[1], a[2]>> /\ Remembers(a[1], a[2])'
    BY <2>1, MemoryLasts DEF MemoryInv
  <2> QED
    BY <2>2 DEF MemoryInv, ClientsOK, NothingTold
<1>2. GrantsOK'
  <2> SUFFICES ASSUME NEW r \in Requests, Granted(r)'
               PROVE  client'[r].seq \in Int /\ Cardinality(Holders(server', client'[r].seq)) > f
    BY DEF GrantsOK
  <2>1. client[r].seq \in Int /\ Cardinality(Holders(server, client[r].seq)) > f /\ client'[r].seq = client[r].seq
    BY DEF MemoryInv, GrantsOK, NothingTold, Granted
  <2> DEFINE n == client[r].seq
  <2>2. /\ Cardinality(Holders(server, n)) \in Nat /\ Cardinality(Holders(server', n)) \in Nat
        /\ Cardinality(Holders(server, n)) <= Cardinality(Holders(server', n))
    BY <2>1, MemoryLasts DEF MemoryInv
  <2>3. f \in Int
    BY PBFTNumbers DEF f
  <2> QED
    BY <2>1, <2>2, <2>3
<1> QED
  BY <1>1, <1>2

\* What is on its way afterwards was already, or was sent now.
LEMMA BecomesIsSafe ==
    ASSUME ReplicasOK, AnswersOK, NEW i \in Up, NEW s, Later(server[i], s), NEW taken,
           Becomes(s, taken)
    PROVE  ReplicasOK' /\ AnswersOK' /\ NoncesGrow
<1> DEFINE t == [s EXCEPT !.out = {}]
<1>1. ReplicaOK(s) /\ s.id = i /\ Core(s)
  BY DEF Later, ReplicaOK, ReplicasOK
<1>2. Later(server[i], t) /\ t.out = {} /\ t.db = s.db
  <2>1. /\ DOMAIN t = DOMAIN s /\ t.id = s.id /\ t.tSeq = s.tSeq /\ t.seqmap = s.seqmap
        /\ t.apply = s.apply /\ t.log = s.log /\ t.cps = s.cps /\ t.vcs = s.vcs
        /\ t.applyQueue = s.applyQueue /\ t.db = s.db /\ t.out = {}
    BY <1>1 DEF Core, Fields
  <2> HIDE DEF t
  <2>2. Later(s, t)
    BY <1>1, <2>1, OtherFields, SteadyIsLater
  <2>3. Core(server[i])
    BY DEF ReplicasOK, ReplicaOK
  <2> QED
    BY <2>1, <2>2, <2>3, LaterTwice
<1>3. server' = [server EXCEPT ![i] = t]
  BY <1>1 DEF Becomes
<1> HIDE DEF t
<1>4. ReplicasOK' /\ NoncesGrow
  BY <1>2, <1>3, OneReplicaMoves
<1>5. server'[i] = t
  BY <1>3, UpAreReplicas DEF ReplicasOK
<1>6. ASSUME NEW m \in net' PROVE MessageOK(m) /\ (m.type = "Response" => Remembers(m.rid, m.seq)')
  <2>1. m \in net \/ m \in s.out
    BY DEF Becomes
  <2>2. CASE m \in net
    BY <1>4, <2>2, MemoryLasts DEF AnswersOK
  <2>3. CASE m \in s.out
    BY <1>1, <1>2, <1>5, <2>3 DEF Core, Honest, Remembers
  <2> QED
    BY <2>1, <2>2, <2>3
<1> QED
  BY <1>4, <1>6 DEF AnswersOK

\* One entry of the server array changes, and nothing is sent.
LEMMA ReplicaMovesSilently ==
    ASSUME ReplicasOK, AnswersOK, NEW i \in Up, NEW s, Later(server[i], s), s.out = {},
           server' = [server EXCEPT ![i] = s], net' = net
    PROVE  ReplicasOK' /\ AnswersOK' /\ NoncesGrow
<1>1. ReplicasOK' /\ NoncesGrow
  BY OneReplicaMoves
<1>2. AnswersOK'
  <2>1. \A m \in net : MessageOK(m) /\ (m.type = "Response" => Remembers(m.rid, m.seq)')
    BY <1>1, MemoryLasts DEF AnswersOK
  <2> QED
    BY <2>1 DEF AnswersOK
<1> QED
  BY <1>1, <1>2

LEMMA SameClients ==
    ASSUME MemoryInv, ReplicasOK', AnswersOK', NoncesGrow, client' = client
    PROVE  MemoryInv'
<1>1. NothingTold
  BY DEF MemoryInv, ClientsOK, Granted, NothingTold
<1> QED
  BY <1>1, GrantsLast DEF MemoryInv

LEMMA HandleReqIsSafe ==
    ASSUME MemoryInv, NEW m \in net, handleReq(m)
    PROVE  MemoryInv' /\ NoncesGrow
<1> DEFINE s == IF Accepted(m) THEN Handled(server[m.to], m) ELSE server[m.to]
<1>1. /\ m.to \in Up /\ m.type # "Response" /\ Becomes(s, {m}) /\ client' = client
      /\ ReplicaOK(server[m.to]) /\ MessageOK(m)
  BY DEF handleReq, Running, MemoryInv, ReplicasOK, AnswersOK
<1>2. Later(server[m.to], s)
  BY <1>1, Still, HandledIsLater
<1> HIDE DEF s
<1>3. ReplicasOK' /\ AnswersOK' /\ NoncesGrow
  BY <1>1, <1>2, BecomesIsSafe DEF MemoryInv
<1> QED
  BY <1>1, <1>3, SameClients

LEMMA StartViewChangeIsSafe ==
    ASSUME MemoryInv, NEW i \in Up, startViewChange(i)
    PROVE  MemoryInv' /\ NoncesGrow
<1>1. PICK s \in Fired(server[i]) : server' = [server EXCEPT ![i] = [s EXCEPT !.timeouts = @ + 1]]
  BY DEF startViewChange
<1> DEFINE t == [s EXCEPT !.timeouts = @ + 1]
           o == server[i]
<1>2. ReplicaOK(o) /\ o.out = {} /\ Core(o)
  BY DEF MemoryInv, ReplicasOK, ReplicaOK
<1>3. /\ DOMAIN s = DOMAIN o /\ s.id = o.id /\ s.tSeq = o.tSeq /\ s.seqmap = o.seqmap
      /\ s.apply = o.apply /\ s.log = o.log /\ s.cps = o.cps /\ s.vcs = o.vcs
      /\ s.applyQueue = o.applyQueue /\ s.db = o.db /\ s.out = o.out
  <2>1. s = [o EXCEPT !.ticking = FALSE] \/ s = [o EXCEPT !.stray = @ - 1]
    BY DEF Fired
  <2> HIDE DEF o, t
  <2>2. CASE s = [o EXCEPT !.ticking = FALSE]
    BY <2>2
  <2>3. CASE s = [o EXCEPT !.stray = @ - 1]
    BY <2>3
  <2> QED
    BY <2>1, <2>2, <2>3
<1> HIDE DEF o
<1>4. /\ DOMAIN t = DOMAIN o /\ t.id = o.id /\ t.tSeq = o.tSeq /\ t.seqmap = o.seqmap
      /\ t.apply = o.apply /\ t.log = o.log /\ t.cps = o.cps /\ t.vcs = o.vcs
      /\ t.applyQueue = o.applyQueue /\ t.db = o.db /\ t.out = o.out
  BY <1>3
<1> HIDE DEF t
<1>5. Later(o, t) /\ t.out = {}
  BY <1>2, <1>4, OtherFields, SteadyIsLater
<1>6. server' = [server EXCEPT ![i] = t] /\ net' = net /\ client' = client
  BY <1>1 DEF startViewChange, t
<1>7. ReplicasOK' /\ AnswersOK' /\ NoncesGrow
  BY <1>5, <1>6, ReplicaMovesSilently DEF MemoryInv, o
<1> QED
  BY <1>6, <1>7, SameClients

LEMMA InternalTimerIsSafe ==
    ASSUME MemoryInv, NEW i \in Up, internalTimer(i)
    PROVE  MemoryInv' /\ NoncesGrow
<1>1. PICK P \in PreparedLists(server[i]) :
         Becomes(handleTimer([server[i] EXCEPT !.timeouts = @ - 1], P), {})
  BY DEF internalTimer
<1> DEFINE o == server[i]
           s == [o EXCEPT !.timeouts = @ - 1]
           t == handleTimer(s, P)
<1>2. ReplicaOK(o) /\ Core(o)
  BY DEF MemoryInv, ReplicasOK, ReplicaOK
<1>3. IsFiniteSet(DOMAIN P) /\ DOMAIN P \subseteq Int
  BY <1>2, PreparedListsAreFinite
<1> HIDE DEF o
<1>4. Later(o, s) /\ ReplicaOK(s)
  <2>1. /\ DOMAIN s = DOMAIN o /\ s.id = o.id /\ s.tSeq = o.tSeq /\ s.seqmap = o.seqmap
        /\ s.apply = o.apply /\ s.log = o.log /\ s.cps = o.cps /\ s.vcs = o.vcs
        /\ s.applyQueue = o.applyQueue /\ s.db = o.db /\ s.out = o.out
    OBVIOUS
  <2> HIDE DEF s
  <2> QED
    BY <1>2, <2>1, OtherFields, SteadyIsLater, LaterOn
<1> HIDE DEF s
<1>5. Later(s, t)
  BY <1>3, <1>4, HandleTimerIsLater
<1> HIDE DEF t
<1>6. Later(o, t)
  BY <1>2, <1>4, <1>5, LaterTwice
<1>7. Becomes(t, {}) /\ client' = client
  BY <1>1 DEF internalTimer, t, s, o
<1>8. ReplicasOK' /\ AnswersOK' /\ NoncesGrow
  BY <1>6, <1>7, BecomesIsSafe DEF MemoryInv, o
<1> QED
  BY <1>7, <1>8, SameClients

(* A replica starts again with its database.                               *)
LEMMA RestartIsSafe ==
    ASSUME MemoryInv, NEW i \in Up, Restart(i)
    PROVE  MemoryInv' /\ NoncesGrow
<1> DEFINE d == server[i].db
           s == NewPBFTServer(i, d)
<1>1. "nonce" \in DOMAIN d /\ d.nonce \in Int /\ d.nonce >= -1 /\ server[i].id = i
  BY DEF MemoryInv, ReplicasOK, ReplicaOK, Core
<1>2. ReplicaOK(s) /\ s.id = i /\ s.db = d /\ s.out = {}
  BY <1>1, NewServerIsOK
<1>3. server' = [server EXCEPT ![i] = s] /\ net' = net
  BY UpAreReplicas DEF Restart, MemoryInv, ReplicasOK
<1> HIDE DEF s
<1>4. Later(server[i], s)
  BY <1>1, <1>2 DEF Later
<1>5. ReplicasOK' /\ AnswersOK' /\ NoncesGrow
  BY <1>2, <1>3, <1>4, ReplicaMovesSilently DEF MemoryInv
<1>6. NothingTold
  BY DEF Restart, MemoryInv, ClientsOK, Granted, NothingTold
<1>7. ClientsOK' /\ GrantsOK'
  BY <1>5, <1>6, GrantsLast
<1> QED
  BY <1>5, <1>7 DEF MemoryInv

LEMMA SendRequestIsSafe ==
    ASSUME MemoryInv, NEW r \in Requests, sendRequest(r)
    PROVE  MemoryInv' /\ NoncesGrow
<1>1. server' = server /\ ReplicasOK' /\ NoncesGrow
  <2>1. server' = server /\ ReplicasOK'
    BY DEF sendRequest, MemoryInv, ReplicasOK
  <2>2. \A i \in Up : server[i].db.nonce \in Int
    BY DEF MemoryInv, ReplicasOK, ReplicaOK, Core
  <2> QED
    BY <2>1, <2>2 DEF NoncesGrow
<1>2. AnswersOK'
  <2>1. ASSUME NEW m \in net' PROVE MessageOK(m) /\ (m.type = "Response" => Remembers(m.rid, m.seq)')
    <3>1. m \in net \/ \E j : m = [type |-> "Request", req |-> r, from |-> r.client, to |-> j]
      BY DEF sendRequest
    <3>2. CASE m \in net
      BY <1>1, <3>2, MemoryLasts DEF MemoryInv, AnswersOK
    <3>3. CASE \E j : m = [type |-> "Request", req |-> r, from |-> r.client, to |-> j]
      BY <3>3 DEF MessageOK, Numbered
    <3> QED
      BY <3>1, <3>2, <3>3
  <2> QED
    BY <2>1 DEF AnswersOK
<1>3. NothingTold
  BY DEF sendRequest, MemoryInv, ClientsOK, Granted, NothingTold
<1>4. ClientsOK' /\ GrantsOK'
  BY <1>1, <1>3, GrantsLast
<1> QED
  BY <1>1, <1>2, <1>4 DEF MemoryInv

(* f + 1 replicas gave the same answer: they all remember it.              *)
LEMMA AnswersAreHolders ==
    ASSUME ReplicasOK, NEW n \in Int, NEW A,
           \A a \in A : a = <<a[1], a[2]>> /\ a[2] = n /\ Remembers(a[1], a[2]),
           Cardinality(A) > f
    PROVE  Cardinality(Holders(server, n)) > f
<1> DEFINE g == [a \in A |-> a[1]]
           T == Holders(server, n)
<1>1. \A i \in Up : server[i].db.nonce \in Int
  BY DEF ReplicasOK, ReplicaOK, Core
<1>2. \A a \in A : a[1] \in T
  BY <1>1 DEF Remembers, Holders
<1>3. \A a, b \in A : a[1] = b[1] => a = b
  OBVIOUS
<1> HIDE DEF T
<1>4. g \in Injection(A, T)
  BY <1>2, <1>3 DEF Injection, IsInjective
<1>5. IsFiniteSet(T)
  BY UpAreReplicas, FS_Subset DEF T, Holders
<1> HIDE DEF g
<1>6. IsFiniteSet(A) /\ Cardinality(A) <= Cardinality(T)
  BY <1>4, <1>5, FS_Injection
<1>7. Cardinality(A) \in Nat /\ Cardinality(T) \in Nat /\ f \in Int
  BY <1>5, <1>6, FS_CardinalityType, PBFTNumbers DEF f
<1> QED
  BY <1>6, <1>7 DEF T

LEMMA ClientResponseIsSafe ==
    ASSUME MemoryInv, NEW m \in net, ClientResponse(m)
    PROVE  MemoryInv' /\ NoncesGrow
<1> DEFINE q == m.req
           res == client[q].res \cup {<<m.rid, m.seq>>}
           same == {a \in res : a[2] = m.seq}
<1>1. server' = server /\ ReplicasOK' /\ NoncesGrow
  <2>1. server' = server /\ ReplicasOK'
    BY DEF ClientResponse, MemoryInv, ReplicasOK
  <2>2. \A i \in Up : server[i].db.nonce \in Int
    BY DEF MemoryInv, ReplicasOK, ReplicaOK, Core
  <2> QED
    BY <2>1, <2>2 DEF NoncesGrow
<1>2. AnswersOK'
  BY <1>1 DEF ClientResponse, MemoryInv, AnswersOK, Remembers
<1>3. m.type = "Response" /\ Remembers(m.rid, m.seq) /\ m.seq \in Int
  BY DEF ClientResponse, MemoryInv, AnswersOK, Remembers
<1>4. CASE client' = client
  BY <1>1, <1>2, <1>4, SameClients
<1>5. CASE client' # client /\ q \notin Requests
  <2>1. /\ DOMAIN client' = Requests
        /\ \A r \in Requests : client'[r] = client[r]
    BY <1>5 DEF ClientResponse, MemoryInv, ClientsOK
  <2>2. ClientsOK' /\ GrantsOK'
    BY <1>1, <2>1, GrantsLast DEF NothingTold
  <2> QED
    BY <1>1, <1>2, <2>2 DEF MemoryInv
<1>6. CASE client' # client /\ q \in Requests
  <2>1. /\ client[q].stage = "waiting"
        /\ client' = IF EnoughAnswers(same)
                     THEN [client EXCEPT ![q].stage = "done", ![q].seq = m.seq, ![q].res = {},
                                         ![q].ticking = FALSE]
                     ELSE [client EXCEPT ![q].res = res, ![q].ticking = FALSE]
    BY <1>6 DEF ClientResponse
  <2>2. q \in Requests
    BY <1>6
  <2>3. \A a \in res : a = <<a[1], a[2]>> /\ Remembers(a[1], a[2])
    BY <1>3, <2>2 DEF MemoryInv, ClientsOK
  <2>4. /\ DOMAIN client' = Requests
        /\ \A r \in Requests \ {q} : client'[r] = client[r]
        /\ {"stage", "res", "seq"} \subseteq DOMAIN client'[q]
        /\ client'[q].res \in {{}, res}
        /\ Granted(q)' => EnoughAnswers(same) /\ client'[q].seq = m.seq
    BY <2>1, <2>2 DEF MemoryInv, ClientsOK, Granted
  <2>5. ClientsOK'
    <3>1. \A r \in Requests : \A a \in client'[r].res : a = <<a[1], a[2]>> /\ Remembers(a[1], a[2])
      BY <2>2, <2>3, <2>4 DEF MemoryInv, ClientsOK
    <3>2. \A r \in Requests : {"stage", "res", "seq"} \subseteq DOMAIN client'[r]
      BY <2>4 DEF MemoryInv, ClientsOK
    <3> QED
      BY <1>1, <2>4, <3>1, <3>2 DEF ClientsOK, Remembers
  <2>6. GrantsOK'
    <3> SUFFICES ASSUME NEW r \in Requests, Granted(r)'
                 PROVE  client'[r].seq \in Int /\ Cardinality(Holders(server', client'[r].seq)) > f
      BY DEF GrantsOK
    <3>1. CASE r = q
      <4>1. Cardinality(same) > f /\ client'[r].seq = m.seq
        BY <2>4, <3>1 DEF EnoughAnswers
      <4>2. Cardinality(Holders(server, m.seq)) > f
        <5>1. \A a \in same : a = <<a[1], a[2]>> /\ a[2] = m.seq /\ Remembers(a[1], a[2])
          BY <2>3
        <5> HIDE DEF same
        <5> QED
          BY <1>3, <4>1, <5>1, AnswersAreHolders DEF MemoryInv
      <4> QED
        BY <1>1, <1>3, <4>1, <4>2
    <3>2. CASE r # q
      BY <1>1, <2>4, <3>2 DEF MemoryInv, GrantsOK, Granted
    <3> QED
      BY <3>1, <3>2
  <2> QED
    BY <1>1, <1>2, <2>5, <2>6 DEF MemoryInv
<1> QED
  BY <1>1, <1>4, <1>5, <1>6

LEMMA StepIsSafe ==
    ASSUME MemoryInv, [Next]_vars
    PROVE  MemoryInv' /\ NoncesGrow
<1>1. CASE UNCHANGED vars
  <2>1. ReplicasOK' /\ AnswersOK' /\ ClientsOK' /\ GrantsOK'
    BY <1>1 DEF MemoryInv, vars, ReplicasOK, AnswersOK, ClientsOK, GrantsOK, Remembers, Granted
  <2>2. \A i \in Up : server[i].db.nonce \in Int
    BY DEF MemoryInv, ReplicasOK, ReplicaOK, Core
  <2> QED
    BY <1>1, <2>1, <2>2 DEF MemoryInv, NoncesGrow, vars
<1>2. CASE Next
  <2>1. ASSUME NEW m \in net, handleReq(m) \/ ClientResponse(m) PROVE MemoryInv' /\ NoncesGrow
    BY <2>1, HandleReqIsSafe, ClientResponseIsSafe
  <2>2. ASSUME NEW i \in Up, startViewChange(i) \/ internalTimer(i) \/ Restart(i)
        PROVE  MemoryInv' /\ NoncesGrow
    BY <2>2, StartViewChangeIsSafe, InternalTimerIsSafe, RestartIsSafe
  <2>3. ASSUME NEW r \in Requests, sendRequest(r) PROVE MemoryInv' /\ NoncesGrow
    BY <2>3, SendRequestIsSafe
  <2> QED
    BY <1>2, <2>1, <2>2, <2>3 DEF Next
<1> QED
  BY <1>1, <1>2

LEMMA InitIsSafe ==
    ASSUME Init
    PROVE  MemoryInv
<1>1. ReplicasOK
  <2> DEFINE d == [nonce |-> InitSeq - 1, opNonces |-> {}, executed |-> <<>>]
  <2>1. "nonce" \in DOMAIN d /\ d.nonce \in Int /\ d.nonce >= -1
    BY PBFTNumbers
  <2>2. server = [i \in Replicas |-> NewPBFTServer(i, d)]
    BY DEF Init
  <2> HIDE DEF d
  <2> QED
    BY <2>1, <2>2, NewServerIsOK, UpAreReplicas DEF ReplicasOK
<1>2. AnswersOK /\ ClientsOK /\ GrantsOK
  BY DEF Init, AnswersOK, ClientsOK, GrantsOK, Granted
<1> QED
  BY <1>1, <1>2 DEF MemoryInv

THEOREM MemoryIsKept == Spec => []MemoryInv
BY InitIsSafe, StepIsSafe, PTL DEF Spec

(* A nonce a client was granted is in the database of more replicas than   *)
(* may fail, and stays there: UpdateSeq comes before the answer, the       *)
(* client waits for f + 1 answers, each of another replica, and neither a  *)
(* message, a timer, a view change, a checkpoint nor a restart takes a     *)
(* nonce back.                                                             *)
THEOREM GrantsOutliveRestarts == Spec => []GrantedIsRemembered
<1>1. MemoryInv => GrantedIsRemembered
  BY DEF MemoryInv, GrantsOK, Holders, GrantedIsRemembered
<1> QED
  BY <1>1, MemoryIsKept, PTL

(* The nonce in a replica's database never goes back (UpdateNonce).        *)
THEOREM NoncesNeverGoBack ==
    Spec => [][\A i \in Up : server[i].db.nonce <= server'[i].db.nonce]_vars
<1>1. MemoryInv /\ [Next]_vars => [\A i \in Up : server[i].db.nonce <= server'[i].db.nonce]_vars
  BY StepIsSafe DEF NoncesGrow
<1> QED
  BY <1>1, MemoryIsKept, PTL DEF Spec

(* Every replica has a stable checkpoint, at or before what it executed:   *)
(* getStableCheckPoint does not panic.                                     *)
THEOREM AlwaysStable ==
    Spec => [](\A i \in Up : \E n \in DOMAIN server[i].cps :
                   server[i].cps[n].Stable /\ n <= server[i].apply)
<1>1. MemoryInv => \A i \in Up : \E n \in DOMAIN server[i].cps :
                       server[i].cps[n].Stable /\ n <= server[i].apply
  BY DEF MemoryInv, ReplicasOK, ReplicaOK, HasStable
<1> QED
  BY <1>1, MemoryIsKept, PTL

-----------------------------------------------------------------------------
(* Types.  They rest on what the handlers keep: an entry goes through its  *)
(* phases in order, the queue holds one task per Seq, whose entry says so, *)
(* and no Seq is below 0.  A replica's view only grows.                    *)
Ops   == {r.op : r \in Requests} \cup {NoOp}
Asked == Requests \cup {NoRequest}
Views == 0 .. MaxView

EntryTyped(e) == {"pp", "p", "c", "sendCommit", "sendReply", "r"} \subseteq DOMAIN e /\ EntryOK(e)
LogTyped(log) == \A k \in DOMAIN log : k \in Views \X Nat /\ EntryTyped(log[k])
QueueTyped(queue, apply, log) ==
    /\ \A task \in queue : /\ task.seq \in Nat /\ task.seq > apply
                           /\ task.view \in Views /\ task.req \in Asked
                           /\ <<task.view, task.seq>> \in DOMAIN log
                           /\ log[<<task.view, task.seq>>].sendReply
    /\ \A t, u \in queue : t.seq = u.seq => t = u
CheckpointsTyped(cps) ==
    \A n \in DOMAIN cps : /\ n >= -1 /\ "Proof" \in DOMAIN cps[n]
                          /\ \A p \in cps[n].Proof : p.view \in Views
ChangeTyped(vc) == /\ vc.view \in Views /\ vc.cp \in Int /\ vc.cp >= -1
                   /\ \A n \in DOMAIN vc.P : n \in Nat /\ vc.P[n] \in Asked
ChangesTyped(V) == \A k \in DOMAIN V : ChangeTyped(V[k])

Has(m, field, S) == field \in DOMAIN m /\ m[field] \in S
Placed == {"PrePrepare", "Prepare", "Commit", "Response"}
BodyTyped(m) ==
    /\ "type" \in DOMAIN m
    /\ m.type \in Placed => Has(m, "view", Views) /\ Has(m, "seq", Nat)
    /\ m.type = "Request" => Has(m, "req", Requests)
    /\ m.type = "PrePrepare" => Has(m, "req", Asked)
    /\ m.type \in {"Prepare", "Commit"} => Has(m, "digest", Ops)
    /\ m.type = "CheckPoint" => Has(m, "seq", Nat) /\ "proof" \in DOMAIN m /\ m.proof.view \in Views
    /\ m.type = "ViewChange" => "vc" \in DOMAIN m /\ ChangeTyped(m.vc)
    /\ m.type = "NewView" => Has(m, "view", Views) /\ "V" \in DOMAIN m /\ ChangesTyped(m.V)
MessageTyped(m) == Has(m, "from", Up) /\ Has(m, "to", Up) /\ BodyTyped(m)

Counts(s) ==
    /\ {"view", "h", "lastcp", "stray", "timeouts", "myViewChangeCount"} \subseteq DOMAIN s
    /\ {"monitor", "ticking", "changing", "panicked"} \subseteq DOMAIN s
    /\ s.id \in Up /\ s.view \in Views /\ s.tSeq \in Nat /\ s.h \in Nat
    /\ s.lastcp \in Int /\ s.lastcp <= s.h
    /\ s.stray \in Nat /\ s.timeouts \in Nat /\ s.myViewChangeCount \in Nat
    /\ s.monitor \in BOOLEAN /\ s.ticking \in BOOLEAN /\ s.changing \in BOOLEAN
    /\ s.panicked \in BOOLEAN
AboveLast(s, log) == s.view = 0 => \A k \in DOMAIN log : k[2] >= s.lastcp
Typed(s) ==
    /\ Counts(s)
    /\ LogTyped(s.log) /\ AboveLast(s, s.log)
    /\ QueueTyped(s.applyQueue, s.apply, s.log)
    /\ CheckpointsTyped(s.cps)
    /\ \A op \in DOMAIN s.seqmap : s.seqmap[op] \in Nat
    /\ \A v \in DOMAIN s.vcs : ChangesTyped(s.vcs[v])
    /\ \A m \in s.out : MessageTyped(m)

\* One step of a replica.
Onward(s, t) == Typed(t) /\ t.view >= s.view

LEMMA ViewsAreNumbers == Views \subseteq Nat /\ 0 \in Views
BY PBFTBounds DEF Views

LEMMA ViewIsANumber == \A s : Typed(s) => s.view \in Nat
<1> SUFFICES ASSUME NEW s, Typed(s) PROVE s.view \in Nat
  OBVIOUS
<1>1. s.view \in Views
  BY DEF Typed, Counts
<1> QED
  BY <1>1, ViewsAreNumbers

LEMMA OnwardTwice ==
    ASSUME NEW s, NEW t, NEW u, Typed(s), Onward(s, t), Onward(t, u)
    PROVE  Onward(s, u)
BY ViewIsANumber DEF Onward

LEMMA NothingIsOnward == \A s : Typed(s) => Onward(s, s)
BY ViewIsANumber DEF Onward

\* The timers and counters may change, and something may be sent.
LEMMA OthersStayTyped ==
    ASSUME NEW s, Typed(s), NEW t, Counts(t), t.view = s.view, t.lastcp = s.lastcp,
           t.log = s.log, t.applyQueue = s.applyQueue, t.apply = s.apply, t.cps = s.cps,
           t.seqmap = s.seqmap, t.vcs = s.vcs, \A m \in t.out : m \in s.out \/ MessageTyped(m)
    PROVE  Onward(s, t)
<1>1. Typed(t)
  BY DEF Typed, AboveLast
<1> QED
  BY <1>1, ViewIsANumber DEF Onward

LEMMA Posted ==
    ASSUME NEW m, BodyTyped(m), "from" \notin DOMAIN m, "to" \notin DOMAIN m, NEW i \in Up, NEW j \in Up
    PROVE  MessageTyped(Over(m, [from |-> i, to |-> j]))
<1> DEFINE x == Over(m, [from |-> i, to |-> j])
<1>1. /\ DOMAIN m \subseteq DOMAIN x /\ \A z \in DOMAIN m : x[z] = m[z]
      /\ {"from", "to"} \subseteq DOMAIN x /\ x.from = i /\ x.to = j
  BY DEF Over
<1> HIDE DEF x
<1>2. "type" \in DOMAIN m /\ x.type = m.type
  BY <1>1 DEF BodyTyped
<1>3. \A z, S : Has(m, z, S) => Has(x, z, S)
  BY <1>1 DEF Has
<1>4. BodyTyped(x)
  BY <1>1, <1>2, <1>3 DEF BodyTyped
<1>5. MessageTyped(x)
  BY <1>1, <1>4 DEF MessageTyped, Has
<1> QED
  BY <1>5 DEF x

LEMMA SendStaysTyped ==
    ASSUME NEW s, Core(s), Typed(s), NEW m, BodyTyped(m), "from" \notin DOMAIN m, "to" \notin DOMAIN m,
           NEW to \in SUBSET Up
    PROVE  Onward(s, Send(s, m, to))
<1> DEFINE t == Send(s, m, to)
<1>1. /\ DOMAIN t = DOMAIN s /\ \A z \in DOMAIN s : z # "out" => t[z] = s[z]
      /\ \A x \in t.out : x \in s.out \/ \E j \in Up : x = Over(m, [from |-> s.id, to |-> j])
  BY DEF Send, Core, Fields
<1> HIDE DEF t
<1>2. /\ t.id = s.id /\ t.view = s.view /\ t.tSeq = s.tSeq /\ t.h = s.h /\ t.lastcp = s.lastcp
      /\ t.stray = s.stray /\ t.timeouts = s.timeouts /\ t.myViewChangeCount = s.myViewChangeCount
      /\ t.monitor = s.monitor /\ t.ticking = s.ticking /\ t.changing = s.changing
      /\ t.panicked = s.panicked /\ t.log = s.log /\ t.applyQueue = s.applyQueue /\ t.apply = s.apply
      /\ t.cps = s.cps /\ t.seqmap = s.seqmap /\ t.vcs = s.vcs
  BY <1>1 DEF Typed, Counts, Core, Fields
<1>3. Counts(t)
  BY <1>1, <1>2 DEF Typed, Counts
<1>4. \A x \in t.out : x \in s.out \/ MessageTyped(x)
  <2>1. s.id \in Up
    BY DEF Typed, Counts
  <2>2. \A j \in Up : MessageTyped(Over(m, [from |-> s.id, to |-> j]))
    BY <2>1, Posted
  <2> QED
    BY <1>1, <2>2
<1>5. Onward(s, t)
  BY <1>2, <1>3, <1>4, OthersStayTyped
<1> QED
  BY <1>5 DEF t

LEMMA StopTimerStaysTyped ==
    ASSUME NEW s, Typed(s)
    PROVE  LET t == stopTimer(s)
           IN  /\ Onward(s, t) /\ t.log = s.log /\ t.view = s.view /\ t.lastcp = s.lastcp
               /\ t.apply = s.apply /\ t.changing = s.changing
<1> DEFINE t == stopTimer(s)
<1>1. /\ DOMAIN t = DOMAIN s
      /\ t.id = s.id /\ t.view = s.view /\ t.tSeq = s.tSeq /\ t.h = s.h /\ t.lastcp = s.lastcp
      /\ t.stray = s.stray /\ t.timeouts = s.timeouts /\ t.changing = s.changing
      /\ t.panicked = s.panicked /\ t.log = s.log /\ t.applyQueue = s.applyQueue /\ t.apply = s.apply
      /\ t.cps = s.cps /\ t.seqmap = s.seqmap /\ t.vcs = s.vcs /\ t.out = s.out
      /\ t.myViewChangeCount = 0 /\ t.monitor = FALSE /\ t.ticking = FALSE
  BY DEF stopTimer, Typed, Counts
<1> HIDE DEF t
<1>2. Counts(t)
  <2>1. 0 \in Nat /\ TRUE \in BOOLEAN /\ FALSE \in BOOLEAN
    OBVIOUS
  <2> QED
    BY <1>1, <2>1 DEF Typed, Counts
<1>3. Onward(s, t)
  BY <1>1, <1>2, OthersStayTyped
<1> QED
  BY <1>1, <1>3 DEF t

LEMMA NewEntryIsTyped == EntryTyped(NewEntry)
BY DEF EntryTyped, EntryOK, NewEntry

LEMMA GetsTyped ==
    ASSUME NEW s, Typed(s), NEW v, NEW n
    PROVE  /\ EntryTyped(getEntry(s, v, n))
           /\ \A task \in s.applyQueue : task.view = v /\ task.seq = n => getEntry(s, v, n).sendReply
<1> DEFINE key == <<v, n>>
<1>1. getEntry(s, v, n) = IF key \in DOMAIN s.log THEN s.log[key] ELSE NewEntry
  BY DEF getEntry
<1>2. key \in DOMAIN s.log => EntryTyped(s.log[key])
  BY DEF Typed, LogTyped
<1>3. \A task \in s.applyQueue : task.view = v /\ task.seq = n => key \in DOMAIN s.log /\ s.log[key].sendReply
  BY DEF Typed, QueueTyped
<1> HIDE DEF key
<1> QED
  BY <1>1, <1>2, <1>3, NewEntryIsTyped

LEMMA PutStaysTyped ==
    ASSUME NEW s, Core(s), Typed(s), NEW v \in Views, NEW n \in Nat, NEW e, EntryTyped(e),
           getEntry(s, v, n).sendReply => e.sendReply, s.view = 0 => n >= s.lastcp
    PROVE  /\ Onward(s, putEntry(s, v, n, e))
           /\ getEntry(putEntry(s, v, n, e), v, n) = e
<1> DEFINE key == <<v, n>>
           t == putEntry(s, v, n, e)
<1>1. /\ DOMAIN t = DOMAIN s
      /\ t.id = s.id /\ t.view = s.view /\ t.tSeq = s.tSeq /\ t.h = s.h /\ t.lastcp = s.lastcp
      /\ t.stray = s.stray /\ t.timeouts = s.timeouts /\ t.myViewChangeCount = s.myViewChangeCount
      /\ t.monitor = s.monitor /\ t.ticking = s.ticking /\ t.changing = s.changing
      /\ t.panicked = s.panicked /\ t.applyQueue = s.applyQueue /\ t.apply = s.apply
      /\ t.cps = s.cps /\ t.seqmap = s.seqmap /\ t.vcs = s.vcs /\ t.out = s.out
      /\ t.log = Put(s.log, key, e)
  BY DEF putEntry, Core, Fields
<1>2. getEntry(t, v, n) = IF key \in DOMAIN t.log THEN t.log[key] ELSE NewEntry
  BY DEF getEntry
<1>3. \A task \in s.applyQueue : task.view = v /\ task.seq = n => e.sendReply
  BY GetsTyped
<1> HIDE DEF t
<1>4. /\ DOMAIN t.log = DOMAIN s.log \cup {key}
      /\ \A k \in DOMAIN t.log : t.log[k] = IF k = key THEN e ELSE s.log[k]
  BY <1>1 DEF Put
<1>5. \A task \in s.applyQueue : <<task.view, task.seq>> = key => task.view = v /\ task.seq = n
  OBVIOUS
<1>6. key \in Views \X Nat /\ key[2] = n
  OBVIOUS
<1> HIDE DEF key
<1>7. LogTyped(t.log)
  BY <1>4, <1>6 DEF Typed, LogTyped
<1>8. AboveLast(t, t.log)
  BY <1>1, <1>4, <1>6 DEF Typed, AboveLast
<1>9. QueueTyped(s.applyQueue, s.apply, t.log)
  BY <1>3, <1>4, <1>5 DEF Typed, QueueTyped
<1>10. Counts(t)
  BY <1>1 DEF Typed, Counts
<1>11. Onward(s, t)
  <2>1. Typed(t)
    BY <1>1, <1>7, <1>8, <1>9, <1>10 DEF Typed
  <2> QED
    BY <1>1, <2>1, ViewIsANumber DEF Onward
<1> QED
  BY <1>2, <1>4, <1>11 DEF t

LEMMA ReplyStaysTyped ==
    ASSUME NEW s, Core(s), Typed(s), NEW task, task.seq \in Nat, task.view \in Views
    PROVE  Onward(s, reply(s, task)) /\ reply(s, task).view = s.view /\ reply(s, task).log = s.log
<1>1. CASE task.req = NoRequest
  BY <1>1, NothingIsOnward DEF reply
<1>2. CASE task.req # NoRequest
  <2> DEFINE m == Response(s, task)
             t == Send(s, m, {task.req.client} \cap Up)
  <2>1. BodyTyped(m) /\ "from" \notin DOMAIN m /\ "to" \notin DOMAIN m
    BY DEF Response, BodyTyped, Placed, Has
  <2>2. t.view = s.view /\ t.log = s.log
    BY DEF Send, Typed, Counts, Core, Fields
  <2> HIDE DEF m
  <2>3. Onward(s, t)
    BY <2>1, SendStaysTyped
  <2> QED
    BY <1>2, <2>2, <2>3 DEF reply, m
<1> QED
  BY <1>1, <1>2

\* Only what was executed is answered.
Done(task, log) == <<task.view, task.seq>> \in DOMAIN log => log[<<task.view, task.seq>>].sendReply
Told(s, t) ==
    /\ Core(t) /\ Typed(t) /\ t.view = s.view /\ t.apply = s.apply
    /\ DOMAIN t.log = DOMAIN s.log /\ \A k \in DOMAIN s.log : t.log[k].sendReply = s.log[k].sendReply

LEMMA ReplyByPendingTaskStaysTyped ==
    ASSUME NEW s, Core(s), Typed(s), NEW task, task.seq \in Nat, task.view \in Views, Done(task, s.log)
    PROVE  Told(s, replyByPendingTask(task, s))
<1> DEFINE u == UpdateSeq(s, task.seq)
           key == <<task.view, task.seq>>
           log == [k \in DOMAIN s.log |-> IF k = key THEN [s.log[k] EXCEPT !.r = TRUE] ELSE s.log[k]]
           t == [u EXCEPT !.log = log]
<1>1. Steady(s, u) /\ u.log = s.log
  BY UpdateSeqIsSteady
<1>2. /\ DOMAIN u = DOMAIN s
      /\ u.id = s.id /\ u.view = s.view /\ u.tSeq = s.tSeq /\ u.h = s.h /\ u.lastcp = s.lastcp
      /\ u.stray = s.stray /\ u.timeouts = s.timeouts /\ u.myViewChangeCount = s.myViewChangeCount
      /\ u.monitor = s.monitor /\ u.ticking = s.ticking /\ u.changing = s.changing
      /\ u.panicked = s.panicked /\ u.applyQueue = s.applyQueue /\ u.apply = s.apply
      /\ u.cps = s.cps /\ u.seqmap = s.seqmap /\ u.vcs = s.vcs /\ u.out = s.out
  BY DEF UpdateSeq, Core, Fields
<1> HIDE DEF u
<1>3. /\ DOMAIN t = DOMAIN s
      /\ t.id = s.id /\ t.view = s.view /\ t.tSeq = s.tSeq /\ t.h = s.h /\ t.lastcp = s.lastcp
      /\ t.stray = s.stray /\ t.timeouts = s.timeouts /\ t.myViewChangeCount = s.myViewChangeCount
      /\ t.monitor = s.monitor /\ t.ticking = s.ticking /\ t.changing = s.changing
      /\ t.panicked = s.panicked /\ t.applyQueue = s.applyQueue /\ t.apply = s.apply
      /\ t.cps = s.cps /\ t.seqmap = s.seqmap /\ t.vcs = s.vcs /\ t.out = s.out
      /\ t.log = log
      /\ t.db = u.db
  BY <1>2 DEF Core, Fields
<1>4. /\ DOMAIN log = DOMAIN s.log
      /\ \A k \in DOMAIN s.log : EntryTyped(log[k]) /\ log[k].sendReply = s.log[k].sendReply
  <2> SUFFICES ASSUME NEW k \in DOMAIN s.log
               PROVE  EntryTyped(log[k]) /\ log[k].sendReply = s.log[k].sendReply
    OBVIOUS
  <2>1. EntryTyped(s.log[k])
    BY DEF Typed, LogTyped
  <2>2. k = key => s.log[k].sendReply
    BY DEF Done
  <2> HIDE DEF key
  <2>3. CASE k = key
    <3> DEFINE e == s.log[k]
               g == [e EXCEPT !.r = TRUE]
    <3>1. log[k] = g
      BY <2>3
    <3>2. EntryTyped(e) /\ e.sendReply
      BY <2>1, <2>2, <2>3
    <3> HIDE DEF e, log
    <3>3. EntryTyped(g) /\ g.sendReply = e.sendReply
      BY <3>2 DEF EntryTyped, EntryOK
    <3> QED
      BY <3>1, <3>3 DEF e
  <2>4. CASE k # key
    BY <2>1, <2>4
  <2> QED
    BY <2>3, <2>4
<1> HIDE DEF t
<1>10. Core(t)
  <2>1. Core(u) /\ u.db.nonce >= task.seq
    BY <1>1, UpdateSeqIsSteady DEF Steady, u
  <2>2. EntriesOK(log, u.db.nonce)
    BY <1>1, <1>4, <2>1 DEF Core, EntriesOK
  <2> HIDE DEF log
  <2> QED
    BY <1>1, <1>2, <1>3, <2>1, <2>2 DEF Core, Honest
<1> HIDE DEF log, key
<1>5. LogTyped(t.log)
  BY <1>3, <1>4 DEF Typed, LogTyped
<1>6. AboveLast(t, t.log)
  BY <1>3, <1>4 DEF Typed, AboveLast
<1>7. QueueTyped(s.applyQueue, s.apply, t.log)
  BY <1>3, <1>4 DEF Typed, QueueTyped
<1>8. Counts(t)
  BY <1>3 DEF Typed, Counts
<1>9. Typed(t)
  BY <1>3, <1>5, <1>6, <1>7, <1>8 DEF Typed
<1>11. Onward(t, reply(t, task)) /\ reply(t, task).view = t.view /\ reply(t, task).log = t.log
  BY <1>9, <1>10, ReplyStaysTyped
<1>12. replyByPendingTask(task, s) = reply(t, task)
  BY <1>1 DEF replyByPendingTask, t, u, log, key
<1>13. Core(replyByPendingTask(task, s)) /\ replyByPendingTask(task, s).apply = s.apply
  BY ReplyByPendingTaskIsSteady DEF Steady
<1> QED
  BY <1>3, <1>4, <1>11, <1>12, <1>13 DEF Told, Onward

Tells == INSTANCE Folds_proofs WITH Op <- Replying, Good <- Told

LEMMA RepliesStayTyped ==
    ASSUME NEW s, Core(s), Typed(s), NEW S, IsFiniteSet(S),
           \A task \in S : task.seq \in Nat /\ task.view \in Views /\ Done(task, s.log)
    PROVE  Told(s, FoldSet(replyByPendingTask, s, S))
<1>1. FoldSet(replyByPendingTask, s, S) = Tells!Fold(s, s, S)
  BY DEF FoldSet, MapThenFoldSet, Tells!Fold, Tells!Defines, Tells!First, Replying
<1>2. \A task \in S : \A t : Told(s, t) => Told(s, Replying(s, task, t))
  <2> SUFFICES ASSUME NEW task \in S, NEW t, Told(s, t)
               PROVE  Told(s, replyByPendingTask(task, t))
    BY DEF Replying
  <2>1. Core(t) /\ Typed(t) /\ Done(task, t.log)
    BY DEF Told, Done
  <2>2. Told(t, replyByPendingTask(task, t))
    BY <2>1, ReplyByPendingTaskStaysTyped
  <2> QED
    BY <2>2 DEF Told
<1>3. Told(s, s)
  BY DEF Told
<1>4. Tells!IsFiniteSet(S)
  BY DEF IsFiniteSet, Tells!IsFiniteSet
<1>5. Told(s, Tells!Fold(s, s, S))
  BY <1>2, <1>3, <1>4, Tells!FoldKeeps
<1> QED
  BY <1>1, <1>5

\* Everything above the checkpoint is kept.
LEMMA StablizeCPStaysTyped ==
    ASSUME NEW s, Core(s), Typed(s), NEW n \in DOMAIN s.cps, n \in Nat, NEW p, p.view \in Views
    PROVE  LET w == stablizeCP(s, n, p)
           IN  Onward(s, w) /\ w.apply \in Int /\ w.apply >= n /\ (p.view <= s.view => w.view = s.view)
<1> DEFINE t == IF p.view > s.view
                THEN stopTimer([s EXCEPT !.view = p.view, !.changing = FALSE]) ELSE s
           t2 == removeOldLog(t, n)
           cps == [k \in {j \in DOMAIN t2.cps : j >= n} |->
                      IF k = n THEN Stabilized(t2.cps[k], p) ELSE t2.cps[k]]
           seqmap == [op \in {o \in DOMAIN t2.seqmap : t2.seqmap[o] > n - 2 * CheckpointDiv}
                         |-> t2.seqmap[op]]
           queue == {task \in t2.applyQueue : task.seq > n}
           state == <<[seq |-> n, digest |-> p.digest]>> \o removeOldState(t, n)
           u == [t2 EXCEPT !.cps = cps, !.apply = Max({@, n}), !.state = state,
                           !.seqmap = seqmap, !.h = n, !.lastcp = n, !.applyQueue = queue]
<1>1. /\ Fields \subseteq DOMAIN s /\ s.apply \in Int /\ n \in Int /\ s.view \in Nat /\ p.view \in Nat
      /\ {"view", "h", "lastcp", "stray", "timeouts", "myViewChangeCount"} \subseteq DOMAIN s
      /\ {"monitor", "ticking", "changing", "panicked"} \subseteq DOMAIN s
      /\ IsFiniteSet(s.applyQueue) /\ \A task \in s.applyQueue : task.seq \in Int
  BY ViewsAreNumbers DEF Typed, Counts, Core
<1>2. /\ DOMAIN t = DOMAIN s /\ t.view \in Views /\ t.view >= s.view /\ (p.view <= s.view => t.view = s.view)
      /\ t.id = s.id /\ t.tSeq = s.tSeq /\ t.stray = s.stray /\ t.timeouts = s.timeouts
      /\ t.panicked = s.panicked /\ t.log = s.log /\ t.applyQueue = s.applyQueue /\ t.apply = s.apply
      /\ t.cps = s.cps /\ t.seqmap = s.seqmap /\ t.vcs = s.vcs /\ t.out = s.out /\ t.db = s.db
      /\ t.myViewChangeCount \in Nat /\ t.monitor \in BOOLEAN /\ t.ticking \in BOOLEAN
      /\ t.changing \in BOOLEAN
  <2>1. CASE p.view > s.view
    <3>1. t = stopTimer([s EXCEPT !.view = p.view, !.changing = FALSE])
      BY <2>1
    <3> HIDE DEF t
    <3> QED
      BY <1>1, <2>1, <3>1 DEF stopTimer, Fields
  <2>2. CASE ~(p.view > s.view)
    <3>1. t = s
      BY <2>2
    <3> HIDE DEF t
    <3> QED
      BY <1>1, <2>2, <3>1 DEF Typed, Counts
  <2> QED
    BY <2>1, <2>2
<1>3. stablizeCP(s, n, p) = FoldSet(replyByPendingTask, u, s.applyQueue \ u.applyQueue)
  BY DEF stablizeCP, t, state
<1> HIDE DEF t, state
<1>4. /\ DOMAIN u = DOMAIN s /\ u.view = t.view
      /\ u.id = s.id /\ u.tSeq = s.tSeq /\ u.stray = s.stray /\ u.timeouts = s.timeouts
      /\ u.panicked = s.panicked /\ u.vcs = s.vcs /\ u.out = s.out /\ u.db = s.db
      /\ u.myViewChangeCount = t.myViewChangeCount /\ u.monitor = t.monitor
      /\ u.ticking = t.ticking /\ u.changing = t.changing
      /\ u.log = [k \in {j \in DOMAIN s.log : j[2] >= n} |-> s.log[k]]
      /\ u.cps = cps /\ u.seqmap = seqmap /\ u.applyQueue = queue /\ u.apply = Max({s.apply, n})
      /\ u.h = n /\ u.lastcp = n
      /\ t2.cps = s.cps /\ t2.seqmap = s.seqmap /\ t2.applyQueue = s.applyQueue
  <2>1. /\ DOMAIN t2 = DOMAIN s /\ t2.view = t.view
        /\ t2.id = s.id /\ t2.tSeq = s.tSeq /\ t2.stray = s.stray /\ t2.timeouts = s.timeouts
        /\ t2.panicked = s.panicked /\ t2.vcs = s.vcs /\ t2.out = s.out /\ t2.db = s.db
        /\ t2.myViewChangeCount = t.myViewChangeCount /\ t2.monitor = t.monitor
        /\ t2.ticking = t.ticking /\ t2.changing = t.changing /\ t2.apply = s.apply
        /\ t2.log = [k \in {j \in DOMAIN s.log : j[2] >= n} |-> s.log[k]]
        /\ t2.cps = s.cps /\ t2.seqmap = s.seqmap /\ t2.applyQueue = s.applyQueue
    BY <1>1, <1>2 DEF removeOldLog, Fields
  <2> HIDE DEF t2, cps, seqmap, queue
  <2> QED
    BY <1>1, <2>1 DEF Fields
<1> HIDE DEF t2
<1> HIDE DEF u
<1>5. /\ u.apply \in Int /\ u.apply >= n /\ u.apply >= s.apply /\ (u.apply = n \/ u.apply = s.apply)
  <2>1. \E x \in {s.apply, n} : \A y \in {s.apply, n} : x >= y
    BY <1>1
  <2>2. Max({s.apply, n}) \in {s.apply, n}
    BY <2>1 DEF Max
  <2>3. Max({s.apply, n}) \in Int /\ Max({s.apply, n}) >= s.apply /\ Max({s.apply, n}) >= n
    BY <1>1, MaxOfTwo
  <2> QED
    BY <1>4, <2>2, <2>3
<1>6. /\ DOMAIN u.log \subseteq DOMAIN s.log /\ \A k \in DOMAIN u.log : u.log[k] = s.log[k] /\ k[2] >= n
      /\ \A k \in DOMAIN s.log : k[2] >= n => k \in DOMAIN u.log
  BY <1>4
<1>7. CheckpointsTyped(cps) /\ (\A k \in DOMAIN cps : k \in Int /\ "Stable" \in DOMAIN cps[k])
  <2>1. /\ "Proof" \in DOMAIN Stabilized(s.cps[n], p) /\ "Stable" \in DOMAIN Stabilized(s.cps[n], p)
        /\ Stabilized(s.cps[n], p).Proof = s.cps[n].Proof
    BY DEF Typed, CheckpointsTyped, Stabilized, Core
  <2>2. CheckpointsTyped(s.cps) /\ \A k \in DOMAIN s.cps : k \in Int /\ "Stable" \in DOMAIN s.cps[k]
    BY DEF Typed, Core
  <2> QED
    BY <1>4, <2>1, <2>2 DEF CheckpointsTyped
<1>8. \A op \in DOMAIN seqmap : seqmap[op] \in Nat
  BY <1>4 DEF Typed
<1>9. /\ queue \subseteq s.applyQueue /\ \A task \in queue : task.seq > n
  BY <1>4
<1> HIDE DEF cps, seqmap, queue
<1>10. QueueTyped(queue, u.apply, u.log)
  <2>1. ASSUME NEW task \in queue
        PROVE  <<task.view, task.seq>> \in DOMAIN u.log /\ u.log[<<task.view, task.seq>>].sendReply
    <3>1. <<task.view, task.seq>>[2] = task.seq /\ task.seq >= n
      BY <1>1, <1>9
    <3>2. <<task.view, task.seq>> \in DOMAIN s.log /\ s.log[<<task.view, task.seq>>].sendReply
      BY <1>9 DEF Typed, QueueTyped
    <3> QED
      BY <1>6, <3>1, <3>2
  <2>2. \A task \in queue : task.seq > u.apply
    BY <1>5, <1>9 DEF Typed, QueueTyped
  <2> QED
    BY <1>9, <2>1, <2>2 DEF Typed, QueueTyped
<1>11. Counts(u)
  BY <1>2, <1>4 DEF Typed, Counts
<1>12. Typed(u)
  <2>1. LogTyped(u.log)
    BY <1>6 DEF Typed, LogTyped
  <2>2. AboveLast(u, u.log)
    BY <1>4, <1>6 DEF AboveLast
  <2> QED
    BY <1>4, <1>7, <1>8, <1>10, <1>11, <2>1, <2>2 DEF Typed
<1>13. Core(u)
  <2>1. IsFiniteSet(queue) /\ IsFiniteSet(DOMAIN u.log)
    BY <1>1, <1>6, <1>9, FS_Subset DEF Core, EntriesOK
  <2>2. EntriesOK(u.log, s.db.nonce)
    BY <1>6, <2>1 DEF Core, EntriesOK
  <2>3. \A op \in DOMAIN seqmap : seqmap[op] \in Int
    BY <1>8
  <2> QED
    BY <1>1, <1>4, <1>5, <1>7, <1>9, <2>1, <2>2, <2>3 DEF Core, Honest
<1>14. \A task \in s.applyQueue : task.seq \in Nat /\ task.view \in Views /\ Done(task, u.log)
  BY <1>6 DEF Typed, QueueTyped, Done
<1>15. IsFiniteSet(s.applyQueue \ u.applyQueue)
  BY <1>1, FS_Subset
<1>16. Told(u, stablizeCP(s, n, p))
  BY <1>3, <1>12, <1>13, <1>14, <1>15, RepliesStayTyped
<1> QED
  BY <1>2, <1>4, <1>5, <1>16 DEF Told, Onward

\* Only the checkpoints change.
LEMMA CheckpointsStayTyped ==
    ASSUME NEW s, Core(s), Typed(s), NEW t, DOMAIN t = DOMAIN s,
           \A z \in DOMAIN s : z # "cps" => t[z] = s[z], CheckpointsTyped(t.cps)
    PROVE  Onward(s, t) /\ t.view = s.view
<1>1. /\ t.id = s.id /\ t.view = s.view /\ t.tSeq = s.tSeq /\ t.h = s.h /\ t.lastcp = s.lastcp
      /\ t.stray = s.stray /\ t.timeouts = s.timeouts /\ t.myViewChangeCount = s.myViewChangeCount
      /\ t.monitor = s.monitor /\ t.ticking = s.ticking /\ t.changing = s.changing
      /\ t.panicked = s.panicked /\ t.applyQueue = s.applyQueue /\ t.apply = s.apply
      /\ t.log = s.log /\ t.seqmap = s.seqmap /\ t.vcs = s.vcs /\ t.out = s.out
  BY DEF Typed, Counts, Core, Fields
<1>2. Counts(t)
  BY <1>1 DEF Typed, Counts
<1>3. Typed(t)
  BY <1>1, <1>2 DEF Typed, AboveLast
<1> QED
  BY <1>1, <1>3, ViewIsANumber DEF Onward

LEMMA GetCheckPointStaysTyped ==
    ASSUME NEW s, Core(s), Typed(s), NEW n \in Nat
    PROVE  LET t == getCheckPoint(s, n)
           IN  Onward(s, t) /\ t.view = s.view /\ DOMAIN t = DOMAIN s
<1> DEFINE t == getCheckPoint(s, n)
           old == IF n \in DOMAIN s.cps THEN s.cps[n]
                  ELSE [Stable |-> FALSE, Digest |-> Nil, Proof |-> {}]
           cp == [old EXCEPT !.Digest = checkPointDigest(s, n)]
<1>1. /\ DOMAIN t = DOMAIN s /\ \A z \in DOMAIN s : z # "cps" => t[z] = s[z]
      /\ t.cps = Put(s.cps, n, cp)
  BY DEF getCheckPoint, Core, Fields
<1>2. CheckpointsTyped(s.cps)
  BY DEF Typed
<1>3. "Proof" \in DOMAIN cp /\ \A p \in cp.Proof : p.view \in Views
  BY <1>2 DEF CheckpointsTyped
<1> HIDE DEF t, cp
<1>4. CheckpointsTyped(t.cps)
  BY <1>1, <1>2, <1>3 DEF CheckpointsTyped, Put
<1>5. Onward(s, t) /\ t.view = s.view
  BY <1>1, <1>4, CheckpointsStayTyped
<1> QED
  BY <1>1, <1>5 DEF t

LEMMA CheckPointStaysTyped ==
    ASSUME NEW s, ReplicaOK(s), Typed(s), NEW n \in Nat, NEW p, p.view \in Views
    PROVE  Onward(s, CheckPoint(s, n, p))
<1> DEFINE t == getCheckPoint(s, n)
           u == [t EXCEPT !.cps[n].Proof = @ \cup {p}]
           agreed == {q \in u.cps[n].Proof :
                        /\ Enough({r \in u.cps[n].Proof : r.digest = q.digest})
                        /\ Enough({r \in u.cps[n].Proof : r.view = q.view})}
<1>1. ReplicaOK(t) /\ Core(s) /\ Core(t) /\ n \in DOMAIN t.cps
  BY GetCheckPointIsLater DEF Later, ReplicaOK
<1>2. Onward(s, t) /\ Typed(t)
  BY <1>1, GetCheckPointStaysTyped DEF Onward
<1> HIDE DEF t
<1>3. Fields \subseteq DOMAIN t /\ CheckpointsTyped(t.cps)
  BY <1>1, <1>2 DEF Typed, Core
<1>4. /\ DOMAIN u = DOMAIN t /\ \A z \in DOMAIN t : z # "cps" => u[z] = t[z]
      /\ DOMAIN u.cps = DOMAIN t.cps /\ \A k \in DOMAIN t.cps : DOMAIN u.cps[k] = DOMAIN t.cps[k]
      /\ \A k \in DOMAIN t.cps \ {n} : u.cps[k] = t.cps[k]
      /\ u.cps[n].Stable = t.cps[n].Stable /\ u.cps[n].Proof = t.cps[n].Proof \cup {p}
  BY <1>1, <1>3 DEF Fields, CheckpointsTyped
<1> HIDE DEF u
<1>5. CheckpointsTyped(u.cps)
  BY <1>1, <1>3, <1>4 DEF CheckpointsTyped
<1>6. Onward(t, u) /\ Typed(u)
  BY <1>1, <1>2, <1>4, <1>5, CheckpointsStayTyped DEF Onward
<1>7. Core(u) /\ n \in DOMAIN u.cps
  <2>1. /\ u.id = t.id /\ u.tSeq = t.tSeq /\ u.seqmap = t.seqmap /\ u.apply = t.apply /\ u.log = t.log
        /\ u.vcs = t.vcs /\ u.applyQueue = t.applyQueue /\ u.db = t.db /\ u.out = t.out
    BY <1>3, <1>4 DEF Fields
  <2> QED
    BY <1>1, <1>4, <2>1 DEF Core, Honest
<1>8. ASSUME agreed # {} PROVE Onward(u, stablizeCP(u, n, CHOOSE q \in agreed : TRUE))
  <2>1. (CHOOSE q \in agreed : TRUE) \in agreed
    BY <1>8
  <2> DEFINE q == CHOOSE q \in agreed : TRUE
  <2>2. q.view \in Views
    BY <1>5, <1>7, <2>1 DEF CheckpointsTyped
  <2> HIDE DEF q
  <2>3. Onward(u, stablizeCP(u, n, q))
    BY <1>6, <1>7, <2>2, StablizeCPStaysTyped
  <2> QED
    BY <2>3 DEF q
<1>9. CheckPoint(s, n, p) = IF tooOld(s, n) THEN s
                            ELSE IF t.cps[n].Stable THEN t
                            ELSE IF agreed = {} THEN u ELSE stablizeCP(u, n, CHOOSE q \in agreed : TRUE)
  BY DEF CheckPoint, t, u
<1> HIDE DEF agreed
<1>10. Onward(s, u) /\ Onward(s, s)
  BY <1>2, <1>6, OnwardTwice, NothingIsOnward
<1>11. \A w : Onward(u, w) => Onward(s, w)
  BY <1>10, OnwardTwice
<1> QED
  BY <1>2, <1>8, <1>9, <1>10, <1>11

LEMMA StartCheckPointStaysTyped ==
    ASSUME NEW s, ReplicaOK(s), Typed(s), NEW n \in Nat, \E k \in DOMAIN s.cps \ {n} : s.cps[k].Stable
    PROVE  Onward(s, startCheckPoint(s, n))
<1> DEFINE t == getCheckPoint(s, n)
           u == [t EXCEPT !.cps[n].Stable = FALSE]
           p == [rid |-> s.id, digest |-> u.cps[n].Digest, view |-> s.view]
           m == [type |-> "CheckPoint", seq |-> n, proof |-> p]
           w == Send(u, m, Others(s))
<1>1. /\ ReplicaOK(t) /\ Core(s) /\ Core(t) /\ n \in DOMAIN t.cps
      /\ \E k \in DOMAIN t.cps \ {n} : t.cps[k].Stable
  <2>1. PICK k \in DOMAIN s.cps \ {n} : s.cps[k].Stable
    OBVIOUS
  <2> QED
    BY <2>1, GetCheckPointIsLater DEF Later, ReplicaOK
<1>2. Onward(s, t) /\ Typed(t)
  BY <1>1, GetCheckPointStaysTyped DEF Onward
<1> HIDE DEF t
<1>3. Fields \subseteq DOMAIN t /\ CheckpointsTyped(t.cps)
  BY <1>1, <1>2 DEF Typed, Core
<1>4. /\ DOMAIN u = DOMAIN t /\ \A z \in DOMAIN t : z # "cps" => u[z] = t[z]
      /\ DOMAIN u.cps = DOMAIN t.cps /\ DOMAIN u.cps[n] = DOMAIN t.cps[n]
      /\ \A k \in DOMAIN t.cps \ {n} : u.cps[k] = t.cps[k]
      /\ ~u.cps[n].Stable /\ u.cps[n].Proof = t.cps[n].Proof
  BY <1>1, <1>3 DEF Fields, CheckpointsTyped, Core
<1> HIDE DEF u
<1>5. CheckpointsTyped(u.cps)
  BY <1>1, <1>3, <1>4 DEF CheckpointsTyped
<1>6. Onward(t, u) /\ Typed(u)
  BY <1>1, <1>2, <1>4, <1>5, CheckpointsStayTyped DEF Onward
<1>7. ReplicaOK(u) /\ Core(u)
  <2>1. /\ u.id = t.id /\ u.tSeq = t.tSeq /\ u.seqmap = t.seqmap /\ u.apply = t.apply /\ u.log = t.log
        /\ u.vcs = t.vcs /\ u.applyQueue = t.applyQueue /\ u.db = t.db /\ u.out = t.out
    BY <1>3, <1>4 DEF Fields
  <2>2. Later(t, u)
    BY <1>1, <1>4, <2>1, ChangedCheckpoint
  <2> QED
    BY <2>2, LaterOn
<1>8. p.view \in Views
  BY DEF Typed, Counts
<1>9. /\ BodyTyped(m) /\ "from" \notin DOMAIN m /\ "to" \notin DOMAIN m
      /\ MessageOK(m) /\ Honest(m, u) /\ "type" \in DOMAIN m /\ "seq" \in DOMAIN m /\ m.type = "CheckPoint"
  BY <1>8 DEF BodyTyped, Placed, Has, MessageOK, Honest, Numbered
<1> HIDE DEF m, p
<1>10. Onward(u, w) /\ Typed(w)
  BY <1>6, <1>7, <1>9, SendStaysTyped DEF Onward, Others
<1>11. ReplicaOK(w)
  <2>1. Steady(u, w)
    BY <1>7, <1>9, Sends
  <2> QED
    BY <1>7, <2>1, SteadyIsLater, LaterOn
<1> HIDE DEF w
<1>12. Onward(w, CheckPoint(w, n, p))
  BY <1>8, <1>10, <1>11, CheckPointStaysTyped
<1>13. startCheckPoint(s, n) = IF tooOld(s, n) THEN s ELSE CheckPoint(w, n, p)
  BY DEF startCheckPoint, t, u, w, m, p
<1>14. Onward(s, CheckPoint(w, n, p))
  BY <1>2, <1>6, <1>10, <1>12, OnwardTwice
<1> QED
  BY <1>13, <1>14, NothingIsOnward

LEMMA PanickingStaysTyped ==
    ASSUME NEW s, Core(s), Typed(s)
    PROVE  Onward(s, [s EXCEPT !.panicked = TRUE])
<1> DEFINE t == [s EXCEPT !.panicked = TRUE]
<1>1. /\ DOMAIN t = DOMAIN s
      /\ t.id = s.id /\ t.view = s.view /\ t.tSeq = s.tSeq /\ t.h = s.h /\ t.lastcp = s.lastcp
      /\ t.stray = s.stray /\ t.timeouts = s.timeouts /\ t.myViewChangeCount = s.myViewChangeCount
      /\ t.monitor = s.monitor /\ t.ticking = s.ticking /\ t.changing = s.changing
      /\ t.panicked = TRUE /\ t.applyQueue = s.applyQueue /\ t.apply = s.apply /\ t.log = s.log
      /\ t.cps = s.cps /\ t.seqmap = s.seqmap /\ t.vcs = s.vcs /\ t.out = s.out
  BY DEF Typed, Counts, Core, Fields
<1> HIDE DEF t
<1>2. Counts(t)
  <2>1. TRUE \in BOOLEAN
    OBVIOUS
  <2> QED
    BY <1>1, <2>1 DEF Typed, Counts
<1>3. Onward(s, t)
  BY <1>1, <1>2, OthersStayTyped
<1> QED
  BY <1>3 DEF t

\* What is taken from the queue comes before all that stays in it.
LEMMA ExecuteNextStaysTyped ==
    ASSUME NEW s, ReplicaOK(s), Typed(s), NEW k
    PROVE  Onward(s, executeNext(k, s))
<1> DEFINE next == First(s.applyQueue)
           queue == s.applyQueue \ {next}
           t == [s EXCEPT !.apply = next.seq,
                          !.state = IF next.req = NoRequest THEN @
                                    ELSE Append(@, [seq |-> next.seq, digest |-> next.req.op]),
                          !.applyQueue = queue,
                          !.db.executed = Append(@, <<next.seq, next.req.op>>)]
           u == replyByPendingTask(next, t)
           w == [s EXCEPT !.panicked = TRUE]
<1>1. Core(s) /\ Onward(s, s) /\ Onward(s, w)
  BY NothingIsOnward, PanickingStaysTyped DEF ReplicaOK
<1> HIDE DEF w, next
<1>2. ASSUME s.applyQueue # {}, ~(s.apply + 1 < next.seq), ~(s.apply + 1 > next.seq)
      PROVE  Onward(s, u) /\ Onward(s, startCheckPoint(u, next.seq))
  <2>1. /\ next \in s.applyQueue /\ \A task \in s.applyQueue : next.seq <= task.seq
        /\ IsFiniteSet(s.applyQueue)
    <3>1. IsFiniteSet(s.applyQueue) /\ \A task \in s.applyQueue : task.seq \in Int
      BY <1>1 DEF Core
    <3> QED
      BY <1>2, <3>1, FirstIsFirst DEF next
  <2>2. /\ next.seq \in Nat /\ next.view \in Views /\ Done(next, s.log)
        /\ \A task \in s.applyQueue : task.seq \in Nat /\ (task.seq = next.seq => task = next)
    BY <2>1 DEF Typed, QueueTyped, Done
  <2>3. s.apply \in Int /\ next.seq = s.apply + 1
    <3>1. s.apply \in Int
      BY <1>1 DEF Core
    <3> QED
      BY <1>2, <2>2, <3>1
  <2>4. /\ DOMAIN t = DOMAIN s
        /\ t.id = s.id /\ t.view = s.view /\ t.tSeq = s.tSeq /\ t.h = s.h /\ t.lastcp = s.lastcp
        /\ t.stray = s.stray /\ t.timeouts = s.timeouts /\ t.myViewChangeCount = s.myViewChangeCount
        /\ t.monitor = s.monitor /\ t.ticking = s.ticking /\ t.changing = s.changing
        /\ t.panicked = s.panicked /\ t.log = s.log
        /\ t.cps = s.cps /\ t.seqmap = s.seqmap /\ t.vcs = s.vcs /\ t.out = s.out
        /\ t.apply = next.seq /\ t.applyQueue = queue
        /\ t.db.nonce = s.db.nonce /\ "nonce" \in DOMAIN t.db
    BY <1>1 DEF Typed, Counts, Core, Fields
  <2>5. IsFiniteSet(queue) /\ queue \subseteq s.applyQueue /\ next \notin queue
    BY <2>1, FS_Subset
  <2> HIDE DEF t, queue
  <2>6. Core(t) /\ HasStable(t)
    BY <1>1, <2>2, <2>3, <2>4, <2>5 DEF Core, Honest, ReplicaOK, HasStable
  <2>7. QueueTyped(queue, next.seq, s.log)
    <3>1. \A task \in queue : task.seq > next.seq
      BY <2>1, <2>2, <2>5
    <3> QED
      BY <2>5, <3>1 DEF Typed, QueueTyped
  <2>8. Typed(t)
    <3>1. Counts(t)
      BY <2>4 DEF Typed, Counts
    <3> QED
      BY <2>4, <2>7, <3>1 DEF Typed, AboveLast
  <2>9. Told(t, u) /\ Steady(t, u)
    <3>1. Done(next, t.log)
      BY <2>2, <2>4
    <3> QED
      BY <2>2, <2>6, <2>8, <3>1, ReplyByPendingTaskStaysTyped, ReplyByPendingTaskIsSteady
  <2> HIDE DEF u
  <2>10. Onward(s, u) /\ Typed(u)
    BY <2>4, <2>9, ViewIsANumber DEF Told, Onward
  <2>11. ReplicaOK(u)
    BY <2>6, <2>9, SteadyIsLater DEF Later, ReplicaOK
  <2>12. \E n \in DOMAIN u.cps \ {next.seq} : u.cps[n].Stable
    <3>1. PICK n \in DOMAIN s.cps : s.cps[n].Stable /\ n <= s.apply
      BY DEF ReplicaOK, HasStable
    <3>2. n \in Int /\ n # next.seq
      BY <1>1, <2>3, <3>1 DEF Core
    <3> QED
      BY <2>4, <2>9, <3>1, <3>2 DEF Steady
  <2>13. Onward(u, startCheckPoint(u, next.seq))
    BY <2>2, <2>10, <2>11, <2>12, StartCheckPointStaysTyped
  <2> QED
    BY <2>10, <2>13, OnwardTwice
<1>3. executeNext(k, s) = IF s.applyQueue = {} \/ s.apply + 1 < next.seq THEN s
                          ELSE IF s.apply + 1 > next.seq THEN w
                          ELSE IF next.seq % CheckpointDiv = 0 THEN startCheckPoint(u, next.seq) ELSE u
  BY DEF executeNext, First, next, t, u, w, queue
<1> HIDE DEF t, u
<1> QED
  BY <1>1, <1>2, <1>3

GoneOn(s, t) == Later(s, t) /\ Onward(s, t)
Executed == INSTANCE Folds_proofs WITH Op <- Executing, Good <- GoneOn

\* A committed operation waits for its turn.
LEMMA ExecuteStaysTyped ==
    ASSUME NEW s, ReplicaOK(s), Typed(s), NEW v \in Views, NEW n \in Nat,
           getEntry(s, v, n).sendCommit, s.view = 0 => n >= s.lastcp
    PROVE  Onward(s, execute(s, v, n))
<1> DEFINE e == [getEntry(s, v, n) EXCEPT !.sendReply = TRUE, !.c = {}]
           p == putEntry(s, v, n, e)
           task == [seq |-> n, view |-> v, req |-> getEntry(s, v, n).pp]
           t == [p EXCEPT !.applyQueue = @ \cup {task}]
           w == [s EXCEPT !.panicked = TRUE]
           r == FoldSet(executeNext, t, 1 .. Cardinality(t.applyQueue))
<1>1. Later(s, s) /\ Core(s) /\ Onward(s, s) /\ Onward(s, w)
  BY NothingIsSteady, SteadyIsLater, NothingIsOnward, PanickingStaysTyped DEF ReplicaOK
<1>2. EntryTyped(e) /\ e.sendReply /\ getEntry(s, v, n).pp \in Asked
  <2> DEFINE g == getEntry(s, v, n)
  <2>1. EntryTyped(g) /\ g.sendCommit
    BY GetsTyped
  <2> HIDE DEF g
  <2>2. /\ [g EXCEPT !.sendReply = TRUE, !.c = {}].sendReply
        /\ EntryTyped([g EXCEPT !.sendReply = TRUE, !.c = {}])
    BY <2>1 DEF EntryTyped, EntryOK
  <2>3. g.pp \in Asked
    BY <2>1 DEF EntryTyped, EntryOK, Asked
  <2> QED
    BY <2>2, <2>3 DEF g
<1>3. Later(s, p) /\ Core(p) /\ Steady(s, p)
  <2>1. Entry(e, n, s)
    BY <1>1, GetsAnEntry DEF Entry
  <2> HIDE DEF e
  <2> QED
    BY <1>1, <2>1, PutsAnEntry, PutsItLater, LaterOn DEF Steady
<1>4. Onward(s, p) /\ Typed(p) /\ getEntry(p, v, n) = e
  <2> HIDE DEF e
  <2> QED
    BY <1>1, <1>2, PutStaysTyped DEF Onward
<1>5. p.apply = s.apply /\ p.applyQueue = s.applyQueue
  BY <1>1 DEF putEntry, Core, Fields
<1> HIDE DEF p, e
<1>6. CASE n <= s.apply
  BY <1>1, <1>6 DEF execute
<1>7. CASE ~(n <= s.apply) /\ \E other \in s.applyQueue : other.seq = n
  BY <1>1, <1>7 DEF execute
<1>8. CASE ~(n <= s.apply) /\ ~\E other \in s.applyQueue : other.seq = n
  <2> DEFINE queue == p.applyQueue \cup {task}
  <2>1. /\ DOMAIN t = DOMAIN p
        /\ t.id = p.id /\ t.view = p.view /\ t.tSeq = p.tSeq /\ t.h = p.h /\ t.lastcp = p.lastcp
        /\ t.stray = p.stray /\ t.timeouts = p.timeouts /\ t.myViewChangeCount = p.myViewChangeCount
        /\ t.monitor = p.monitor /\ t.ticking = p.ticking /\ t.changing = p.changing
        /\ t.panicked = p.panicked /\ t.log = p.log /\ t.apply = p.apply
        /\ t.cps = p.cps /\ t.seqmap = p.seqmap /\ t.vcs = p.vcs /\ t.out = p.out
        /\ t.db = p.db /\ t.applyQueue = queue
    BY <1>3, <1>4 DEF Typed, Counts, Core, Fields
  <2>2. task.seq = n /\ task.view = v /\ task.req \in Asked
    BY <1>2
  <2>3. <<v, n>> \in DOMAIN p.log /\ p.log[<<v, n>>].sendReply
    <3>1. getEntry(p, v, n) = IF <<v, n>> \in DOMAIN p.log THEN p.log[<<v, n>>] ELSE NewEntry
      BY DEF getEntry
    <3>2. ~NewEntry.sendReply
      BY DEF NewEntry
    <3> QED
      BY <1>2, <1>4, <3>1, <3>2
  <2> HIDE DEF t, task
  <2>4. QueueTyped(queue, p.apply, p.log)
    <3>1. n > p.apply
      BY <1>1, <1>5, <1>8 DEF Core
    <3>2. \A x \in p.applyQueue : x.seq # n
      BY <1>5, <1>8
    <3> QED
      BY <1>4, <2>2, <2>3, <3>1, <3>2 DEF Typed, QueueTyped
  <2>5. IsFiniteSet(queue) /\ \A x \in queue : x.seq \in Int
    <3>1. IsFiniteSet(p.applyQueue) /\ \A x \in p.applyQueue : x.seq \in Int
      BY <1>3 DEF Core
    <3> QED
      BY <2>2, <3>1, FS_AddElement
  <2> HIDE DEF queue
  <2>6. Typed(t)
    <3>1. Counts(t)
      BY <1>4, <2>1 DEF Typed, Counts
    <3> QED
      BY <1>4, <2>1, <2>4, <3>1 DEF Typed, AboveLast
  <2>7. Onward(s, t)
    BY <1>4, <2>1, <2>6 DEF Onward
  <2>8. Later(s, t)
    <3>1. Steady(p, t)
      BY <1>3, <2>1, <2>5 DEF Steady, Core, Honest
    <3> QED
      BY <1>1, <1>3, <3>1, SteadyTwice, SteadyIsLater
  <2>9. IsFiniteSet(1 .. Cardinality(t.applyQueue))
    <3>1. Cardinality(t.applyQueue) \in Nat
      BY <2>1, <2>5, FS_CardinalityType
    <3> QED
      BY <3>1, FS_Interval
  <2>10. ASSUME NEW k, NEW x, GoneOn(s, x) PROVE GoneOn(s, Executing(s, k, x))
    <3>1. ReplicaOK(x) /\ Typed(x)
      BY <2>10, LaterOn DEF GoneOn, Onward
    <3>2. Later(x, executeNext(k, x)) /\ Onward(x, executeNext(k, x))
      BY <3>1, ExecuteNextIsLater, ExecuteNextStaysTyped
    <3> QED
      BY <1>1, <2>10, <3>2, LaterTwice, OnwardTwice DEF Executing, GoneOn
  <2>11. r = Executed!Fold(s, t, 1 .. Cardinality(t.applyQueue))
    BY DEF FoldSet, MapThenFoldSet, Executed!Fold, Executed!Defines, Executed!First, Executing
  <2>12. Executed!IsFiniteSet(1 .. Cardinality(t.applyQueue))
    BY <2>9 DEF IsFiniteSet, Executed!IsFiniteSet
  <2> DEFINE S == 1 .. Cardinality(t.applyQueue)
  <2> HIDE DEF S, r
  <2>13. GoneOn(s, t)
    BY <2>7, <2>8 DEF GoneOn
  <2>14. GoneOn(s, Executed!Fold(s, t, S))
    BY <2>10, <2>12, <2>13, Executed!FoldKeeps DEF S
  <2>15. execute(s, v, n) = r
    BY <1>8 DEF execute, r, t, p, e, task
  <2> QED
    BY <2>11, <2>14, <2>15 DEF S, GoneOn
<1> QED
  BY <1>6, <1>7, <1>8

LEMMA GetsWhatIsLogged == \A s, t, v, n : t.log = s.log => getEntry(t, v, n) = getEntry(s, v, n)
BY DEF getEntry

\* A replica's own commit, on an entry it has not committed yet, executes nothing.
LEMMA CommitStaysTyped ==
    ASSUME NEW s, ReplicaOK(s), Typed(s), NEW v \in Views, NEW n \in Nat,
           NEW digest \in Ops, NEW rid \in Up
    PROVE  LET u == Commit(s, v, n, digest, rid)
           IN  /\ Onward(s, u)
               /\ ~getEntry(s, v, n).sendCommit =>
                     /\ u.view = s.view /\ u.lastcp = s.lastcp
                     /\ getEntry(u, v, n).pp = getEntry(s, v, n).pp
<1> DEFINE t == stopTimer(s)
           g == getEntry(s, v, n)
           e == [g EXCEPT !.c = @ \cup {<<rid, digest>>}]
           u == putEntry(t, v, n, e)
           w == execute(u, v, n)
<1>1. /\ Later(s, t) /\ Core(s) /\ ReplicaOK(t) /\ Core(t) /\ Onward(s, s) /\ Onward(s, t)
      /\ t.log = s.log /\ t.view = s.view /\ t.lastcp = s.lastcp
  BY StopTimerIsLater, StopTimerStaysTyped, Still, LaterOn, NothingIsOnward
<1>2. Commit(s, v, n, digest, rid) =
        IF s.changing THEN s
        ELSE IF e.sendReply \/ ~Fits(s, v, n, digest) THEN t
        ELSE IF e.sendCommit /\ committed(e) THEN w
        ELSE u
  BY DEF Commit, t, e, u, w, g
<1>3. EntryTyped(g) /\ Entry(g, n, s)
  BY <1>1, GetsTyped, GetsAnEntry
<1>4. getEntry(t, v, n) = g
  BY <1>1, GetsWhatIsLogged
<1> HIDE DEF t, g
<1>5. EntryTyped(e) /\ e.sendReply = g.sendReply /\ e.sendCommit = g.sendCommit /\ e.pp = g.pp
  <2>1. <<rid, digest>> \in Replicas \X Ops
    BY UpAreReplicas
  <2> QED
    BY <1>3, <2>1 DEF EntryTyped, EntryOK, Ops
<1>6. Entry(e, n, s)
  BY <1>3 DEF Entry
<1> HIDE DEF e
<1>7. ASSUME Fits(s, v, n, digest)
      PROVE  /\ Onward(s, u) /\ Typed(u) /\ ReplicaOK(u) /\ getEntry(u, v, n) = e
             /\ u.view = s.view /\ u.lastcp = s.lastcp
             /\ e.sendCommit => Onward(s, w)
  <2>1. n >= s.lastcp
    BY <1>7 DEF Fits, InWindow, Typed, Counts
  <2>2. Onward(t, u) /\ getEntry(u, v, n) = e
    BY <1>1, <1>4, <1>5, <2>1, PutStaysTyped DEF Onward
  <2>3. ReplicaOK(u)
    BY <1>1, <1>6, EntryLasts, PutsItLater, LaterOn
  <2>4. u.view = s.view /\ u.lastcp = s.lastcp
    BY <1>1 DEF putEntry, Onward, Typed, Counts
  <2> HIDE DEF u
  <2>5. Onward(s, u) /\ Typed(u)
    BY <1>1, <2>2, OnwardTwice DEF Onward
  <2>6. ASSUME e.sendCommit PROVE Onward(s, w)
    <3>1. Onward(u, w)
      BY <2>1, <2>2, <2>3, <2>4, <2>5, <2>6, ExecuteStaysTyped
    <3> QED
      BY <2>5, <3>1, OnwardTwice
  <2> QED
    BY <2>2, <2>3, <2>4, <2>5, <2>6
<1> HIDE DEF u, w
<1> QED
  BY <1>1, <1>2, <1>4, <1>5, <1>7 DEF g

\* Only the database and the numbers the leader gave change.
LEMMA NumbersStayTyped ==
    ASSUME NEW s, Core(s), Typed(s), NEW t, DOMAIN t = DOMAIN s,
           \A z \in DOMAIN s : z \notin {"db", "seqmap", "tSeq"} => t[z] = s[z],
           t.tSeq \in Nat, \A op \in DOMAIN t.seqmap : t.seqmap[op] \in Nat
    PROVE  Onward(s, t) /\ t.view = s.view /\ t.lastcp = s.lastcp /\ t.log = s.log
<1>1. /\ t.id = s.id /\ t.view = s.view /\ t.h = s.h /\ t.lastcp = s.lastcp
      /\ t.stray = s.stray /\ t.timeouts = s.timeouts /\ t.myViewChangeCount = s.myViewChangeCount
      /\ t.monitor = s.monitor /\ t.ticking = s.ticking /\ t.changing = s.changing
      /\ t.panicked = s.panicked /\ t.applyQueue = s.applyQueue /\ t.apply = s.apply
      /\ t.log = s.log /\ t.cps = s.cps /\ t.vcs = s.vcs /\ t.out = s.out
  BY DEF Typed, Counts, Core, Fields
<1>2. Counts(t)
  BY <1>1 DEF Typed, Counts
<1>3. Typed(t)
  BY <1>1, <1>2 DEF Typed, AboveLast
<1> QED
  BY <1>1, <1>3, ViewIsANumber DEF Onward

LEMMA NewNonceForOpStaysTyped ==
    ASSUME NEW s, Core(s), Typed(s), NEW v, NEW n, NEW op
    PROVE  LET t == NewNonceForOp(s, v, n, op)
           IN  Onward(s, t) /\ t.view = s.view /\ t.lastcp = s.lastcp /\ t.log = s.log
<1> DEFINE t == NewNonceForOp(s, v, n, op)
<1>1. /\ DOMAIN t = DOMAIN s /\ \A z \in DOMAIN s : z # "db" => t[z] = s[z]
      /\ t.tSeq = s.tSeq /\ t.seqmap = s.seqmap
  BY DEF NewNonceForOp, Core, Fields
<1>2. t.tSeq \in Nat /\ \A x \in DOMAIN t.seqmap : t.seqmap[x] \in Nat
  BY <1>1 DEF Typed, Counts
<1> HIDE DEF t
<1>3. Onward(s, t) /\ t.view = s.view /\ t.lastcp = s.lastcp /\ t.log = s.log
  BY <1>1, <1>2, NumbersStayTyped
<1> QED
  BY <1>3 DEF t

LEMMA AskedHaveOps == \A req \in Asked : req.op \in Ops /\ req # Nil /\ req \in Requests \cup {NoRequest, Nil}
BY NilIsNoRequest DEF Asked, Ops, NoRequest

LEMMA SendCommitStaysTyped ==
    ASSUME NEW s, ReplicaOK(s), Typed(s), NEW v \in Views, NEW n \in Nat, s.view = 0 => n >= s.lastcp,
           NEW e, getEntry(s, v, n) = e, ~e.sendCommit, e.pp \in Asked
    PROVE  Onward(s, sendCommit(s, v, n, e))
<1> DEFINE t0 == NewNonceForOp(s, v, n, e.pp.op)
           seqmap == Put(t0.seqmap, e.pp.op, n)
           t == [t0 EXCEPT !.seqmap = seqmap]
           m == [type |-> "Commit", view |-> v, seq |-> n, digest |-> e.pp.op]
           w == Send(t, m, Others(s))
           u == Commit(w, v, n, e.pp.op, s.id)
           f1 == [getEntry(u, v, n) EXCEPT !.sendCommit = TRUE, !.p = {}]
<1>1. /\ Core(s) /\ Steady(s, t0) /\ Core(t0) /\ Onward(s, t0) /\ Typed(t0) /\ Onward(s, s)
      /\ t0.view = s.view /\ t0.lastcp = s.lastcp /\ t0.log = s.log /\ e.pp.op \in Ops
  BY Still, NewNonceForOpIsSteady, NewNonceForOpStaysTyped, NothingIsOnward, AskedHaveOps DEF Steady, Onward
<1>2. sendCommit(s, v, n, e) = putEntry(u, v, n, f1)
  BY DEF sendCommit, t0, t, m, w, u, f1
<1> HIDE DEF t0
<1>3. Steady(t0, t) /\ Core(t)
  BY <1>1, SeqmapIsSteady DEF Steady
<1>4. Onward(t0, t) /\ Typed(t) /\ t.view = s.view /\ t.lastcp = s.lastcp /\ t.log = s.log /\ t.id = s.id
  <2>1. /\ DOMAIN t = DOMAIN t0 /\ \A z \in DOMAIN t0 : z # "seqmap" => t[z] = t0[z]
        /\ t.tSeq = t0.tSeq /\ t.seqmap = seqmap /\ t.id = t0.id
    BY <1>1 DEF Core, Fields
  <2>2. \A x \in DOMAIN seqmap : seqmap[x] \in Nat
    BY <1>1 DEF Typed, Put
  <2>3. t0.tSeq \in Nat /\ t0.id = s.id
    BY <1>1 DEF Typed, Counts, Steady
  <2> HIDE DEF t, seqmap
  <2> QED
    BY <1>1, <2>1, <2>2, <2>3, NumbersStayTyped DEF Onward
<1> HIDE DEF t, seqmap
<1>5. /\ BodyTyped(m) /\ "from" \notin DOMAIN m /\ "to" \notin DOMAIN m
      /\ MessageOK(m) /\ Honest(m, t) /\ "type" \in DOMAIN m /\ "seq" \in DOMAIN m /\ m.type = "Commit"
  BY <1>1 DEF BodyTyped, Placed, Has, MessageOK, Honest, Numbered
<1> HIDE DEF m
<1>6. w.log = s.log /\ w.view = s.view /\ w.lastcp = s.lastcp
  BY <1>3, <1>4 DEF Send, Core, Fields, Typed, Counts
<1>7. Onward(t, w) /\ Typed(w) /\ Steady(t, w)
  BY <1>3, <1>4, <1>5, SendStaysTyped, Sends DEF Onward, Others
<1> HIDE DEF w
<1>8. ReplicaOK(w)
  <2>1. Steady(s, w)
    BY <1>1, <1>3, <1>7, SteadyTwice
  <2> QED
    BY <2>1, SteadyIsLater, LaterOn
<1>9. getEntry(w, v, n) = e /\ s.id \in Up
  BY <1>6, GetsWhatIsLogged DEF Typed, Counts
<1>10. /\ Onward(w, u) /\ u.view = s.view /\ u.lastcp = s.lastcp /\ getEntry(u, v, n).pp = e.pp
       /\ Core(u)
  BY <1>1, <1>6, <1>7, <1>8, <1>9, CommitStaysTyped, CommitIsLater, LaterOn
<1> HIDE DEF u
<1>11. EntryTyped(f1) /\ (getEntry(u, v, n).sendReply => f1.sendReply)
  <2> DEFINE g == getEntry(u, v, n)
  <2>1. EntryTyped(g) /\ g.pp # Nil
    BY <1>10, GetsTyped, AskedHaveOps DEF Onward
  <2> HIDE DEF g
  <2>2. EntryTyped([g EXCEPT !.sendCommit = TRUE, !.p = {}])
        /\ [g EXCEPT !.sendCommit = TRUE, !.p = {}].sendReply = g.sendReply
    BY <2>1 DEF EntryTyped, EntryOK
  <2> QED
    BY <2>2 DEF g
<1> HIDE DEF f1
<1>12. Onward(u, putEntry(u, v, n, f1))
  BY <1>10, <1>11, PutStaysTyped DEF Onward
<1> QED
  BY <1>1, <1>2, <1>4, <1>7, <1>10, <1>12, OnwardTwice

LEMMA PrepareStaysTyped ==
    ASSUME NEW s, ReplicaOK(s), Typed(s), NEW v \in Views, NEW n \in Nat,
           NEW digest \in Ops, NEW rid \in Up
    PROVE  Onward(s, Prepare(s, v, n, digest, rid))
<1> DEFINE t == stopTimer(s)
           g == getEntry(s, v, n)
           e == [g EXCEPT !.p = @ \cup {<<rid, digest>>}]
           u == putEntry(t, v, n, e)
           w == [u EXCEPT !.timeouts = @ + 1]
           x == sendCommit(u, v, n, e)
<1>1. /\ Later(s, t) /\ Core(s) /\ ReplicaOK(t) /\ Core(t) /\ Onward(s, s) /\ Onward(s, t)
      /\ t.log = s.log /\ t.view = s.view /\ t.lastcp = s.lastcp
  BY StopTimerIsLater, StopTimerStaysTyped, Still, LaterOn, NothingIsOnward
<1>2. Prepare(s, v, n, digest, rid) =
        IF s.changing THEN s
        ELSE IF e.sendCommit \/ ~Fits(s, v, n, digest) THEN t
        ELSE IF e.pp = Nil \/ ~prepared(e) THEN u
        ELSE IF Refuses(s, v, n, e.pp.op) THEN w
        ELSE x
  BY DEF Prepare, t, e, u, w, x, g
<1>3. EntryTyped(g) /\ Entry(g, n, s)
  BY <1>1, GetsTyped, GetsAnEntry
<1>4. getEntry(t, v, n) = g
  BY <1>1, GetsWhatIsLogged
<1> HIDE DEF t, g
<1>5. EntryTyped(e) /\ e.sendReply = g.sendReply
  <2>1. <<rid, digest>> \in Replicas \X Ops
    BY UpAreReplicas
  <2> QED
    BY <1>3, <2>1 DEF EntryTyped, EntryOK, Ops
<1>6. Entry(e, n, s)
  BY <1>3 DEF Entry
<1> HIDE DEF e
<1>7. ASSUME Fits(s, v, n, digest)
      PROVE  Onward(s, u) /\ Onward(s, w) /\ (~e.sendCommit /\ e.pp # Nil => Onward(s, x))
  <2>1. n >= s.lastcp
    BY <1>7 DEF Fits, InWindow, Typed, Counts
  <2>2. Onward(t, u) /\ getEntry(u, v, n) = e
    BY <1>1, <1>4, <1>5, <2>1, PutStaysTyped DEF Onward
  <2>3. ReplicaOK(u) /\ Core(u)
    BY <1>1, <1>6, EntryLasts, PutsItLater, LaterOn
  <2>4. u.view = s.view /\ u.lastcp = s.lastcp
    BY <1>1 DEF putEntry, Onward, Typed, Counts
  <2> HIDE DEF u
  <2>5. Onward(s, u) /\ Typed(u)
    BY <1>1, <2>2, OnwardTwice DEF Onward
  <2>6. Onward(u, w)
    <3>1. /\ w.id = u.id /\ w.view = u.view /\ w.tSeq = u.tSeq /\ w.h = u.h /\ w.lastcp = u.lastcp
          /\ w.stray = u.stray /\ w.timeouts = u.timeouts + 1 /\ w.myViewChangeCount = u.myViewChangeCount
          /\ w.monitor = u.monitor /\ w.ticking = u.ticking /\ w.changing = u.changing
          /\ w.panicked = u.panicked /\ w.applyQueue = u.applyQueue /\ w.apply = u.apply
          /\ w.log = u.log /\ w.cps = u.cps /\ w.seqmap = u.seqmap /\ w.vcs = u.vcs /\ w.out = u.out
          /\ DOMAIN w = DOMAIN u
      BY <2>3, <2>5 DEF Typed, Counts, Core, Fields
    <3> HIDE DEF w
    <3>2. Counts(w)
      BY <2>5, <3>1 DEF Typed, Counts
    <3> QED
      BY <2>5, <3>1, <3>2, OthersStayTyped
  <2>7. ASSUME ~e.sendCommit, e.pp # Nil PROVE Onward(u, x)
    <3>1. e.pp \in Asked
      BY <1>5, <2>7 DEF EntryTyped, EntryOK, Asked
    <3> QED
      BY <2>1, <2>2, <2>3, <2>4, <2>5, <2>7, <3>1, SendCommitStaysTyped
  <2> HIDE DEF w, x
  <2> QED
    BY <2>5, <2>6, <2>7, OnwardTwice
<1> HIDE DEF u, w, x
<1> QED
  BY <1>1, <1>2, <1>7

LEMMA PrePrepareStaysTyped ==
    ASSUME NEW s, ReplicaOK(s), Typed(s), NEW v \in Views, NEW n \in Nat, NEW req \in Asked
    PROVE  Onward(s, PrePrepare(s, v, n, req))
<1> DEFINE t0 == NewNonceForOp(s, v, n, req.op)
           t == stopTimer(t0)
           g == getEntry(s, v, n)
           e == [g EXCEPT !.pp = req]
           u == putEntry(t, v, n, e)
           m == [type |-> "Prepare", view |-> v, seq |-> n, digest |-> req.op]
           w == Send(u, m, Others(s))
           x == Prepare(w, v, n, req.op, s.id)
<1>1. /\ Core(s) /\ Onward(s, s)
      /\ Steady(s, t0) /\ Later(s, t0) /\ ReplicaOK(t0) /\ Onward(s, t0) /\ Typed(t0)
      /\ t0.view = s.view /\ t0.lastcp = s.lastcp /\ t0.log = s.log
      /\ req.op \in Ops /\ s.id \in Up
  BY Still, NewNonceForOpIsSteady, NewNonceForOpStaysTyped, NothingIsOnward, AskedHaveOps,
     SteadyIsLater, LaterOn DEF Onward, Typed, Counts
<1>2. PrePrepare(s, v, n, req) = IF s.changing \/ Refuses(s, v, n, req.op) THEN s
                                 ELSE IF ~Fits(s, v, n, req.op) THEN t ELSE x
  BY DEF PrePrepare, t0, t, e, u, m, w, x, g
<1> HIDE DEF t0
<1>3. /\ Later(s, t) /\ ReplicaOK(t) /\ Core(t) /\ Onward(s, t) /\ Typed(t)
      /\ t.log = s.log /\ t.view = s.view /\ t.lastcp = s.lastcp
  BY <1>1, StopTimerIsLater, StopTimerStaysTyped, LaterOn, LaterTwice, OnwardTwice DEF Onward
<1>4. EntryTyped(g) /\ Entry(g, n, s) /\ getEntry(t, v, n) = g
  BY <1>1, <1>3, GetsTyped, GetsAnEntry, GetsWhatIsLogged
<1> HIDE DEF t, g
<1>5. EntryTyped(e) /\ e.sendReply = g.sendReply /\ Entry(e, n, s)
  BY <1>4, AskedHaveOps DEF EntryTyped, EntryOK, Entry
<1> HIDE DEF e
<1>6. /\ BodyTyped(m) /\ "from" \notin DOMAIN m /\ "to" \notin DOMAIN m /\ "type" \in DOMAIN m
      /\ "seq" \in DOMAIN m /\ MessageOK(m) /\ m.type = "Prepare" /\ \A z : Honest(m, z)
  BY <1>1 DEF BodyTyped, Placed, Has, MessageOK, Honest, Numbered
<1> HIDE DEF m
<1>7. ASSUME Fits(s, v, n, req.op) PROVE Onward(s, x)
  <2>1. n >= s.lastcp
    BY <1>7 DEF Fits, InWindow, Typed, Counts
  <2>2. Onward(t, u) /\ Typed(u)
    BY <1>3, <1>4, <1>5, <2>1, PutStaysTyped DEF Onward
  <2>3. ReplicaOK(u) /\ Core(u)
    BY <1>1, <1>3, <1>5, EntryLasts, PutsItLater, LaterOn
  <2> HIDE DEF u
  <2>4. Onward(u, w) /\ Typed(w) /\ Steady(u, w)
    BY <1>6, <2>2, <2>3, SendStaysTyped, Sends DEF Onward, Others
  <2>5. ReplicaOK(w)
    BY <2>3, <2>4, SteadyIsLater, LaterOn
  <2> HIDE DEF w
  <2>6. Onward(w, x)
    BY <1>1, <2>4, <2>5, PrepareStaysTyped
  <2> HIDE DEF x
  <2> QED
    BY <1>3, <2>2, <2>4, <2>6, OnwardTwice
<1> HIDE DEF x
<1> QED
  BY <1>1, <1>2, <1>3, <1>7

LEMMA ProposeStaysTyped ==
    ASSUME NEW s, ReplicaOK(s), Typed(s), NEW n \in Nat, NEW req \in Asked
    PROVE  Onward(s, propose(s, n, req))
<1> DEFINE m == [type |-> "PrePrepare", view |-> s.view, seq |-> n, req |-> req]
           t == Send(s, m, Others(s))
<1>1. s.view \in Views /\ Core(s)
  BY Still DEF Typed, Counts
<1>2. /\ BodyTyped(m) /\ "from" \notin DOMAIN m /\ "to" \notin DOMAIN m /\ "type" \in DOMAIN m
      /\ "seq" \in DOMAIN m /\ MessageOK(m) /\ Honest(m, s) /\ m.type = "PrePrepare"
  BY <1>1 DEF BodyTyped, Placed, Has, MessageOK, Honest, Numbered
<1>3. propose(s, n, req) = PrePrepare(t, s.view, n, req)
  BY DEF propose, t
<1> HIDE DEF m
<1>4. Onward(s, t) /\ Typed(t) /\ ReplicaOK(t)
  BY <1>1, <1>2, SendStaysTyped, Sends, SteadyIsLater, LaterOn DEF Onward, Others
<1> HIDE DEF t
<1>5. Onward(t, PrePrepare(t, s.view, n, req))
  BY <1>1, <1>4, PrePrepareStaysTyped
<1> QED
  BY <1>3, <1>4, <1>5, OnwardTwice

LEMMA HandleRequestLeaderStaysTyped ==
    ASSUME NEW s, ReplicaOK(s), Typed(s), NEW req \in Requests
    PROVE  Onward(s, handleRequestLeader(s, req))
<1> DEFINE map == Put(s.seqmap, req.op, s.tSeq)
           t == [s EXCEPT !.seqmap = map, !.tSeq = @ + 1]
           x == propose(t, s.tSeq, req)
           n == s.seqmap[req.op]
           e == getEntry(s, s.view, n)
           y == propose(s, n, e.pp)
           z == reply(s, [seq |-> n, view |-> s.view, req |-> e.pp])
<1>1. Onward(s, s) /\ Core(s) /\ s.tSeq \in Nat /\ s.view \in Views /\ req \in Asked
  BY NothingIsOnward, Still DEF Typed, Counts, Asked
<1>2. handleRequestLeader(s, req) =
        IF req.op \notin DOMAIN s.seqmap
        THEN IF s.tSeq >= H(s) THEN s ELSE x
        ELSE IF n <= s.lastcp \/ e.pp \in {Nil, NoRequest} THEN s
             ELSE IF ~e.sendReply THEN y
             ELSE IF e.r THEN z ELSE s
  BY DEF handleRequestLeader, map, t, x, n, e, y, z
<1>3. Onward(s, x)
  <2>1. \A op \in DOMAIN map : map[op] \in Nat
    BY <1>1 DEF Typed, Put
  <2> HIDE DEF map
  <2>2. /\ DOMAIN t = DOMAIN s /\ t.id = s.id /\ t.tSeq = s.tSeq + 1 /\ t.seqmap = map
        /\ t.apply = s.apply /\ t.log = s.log /\ t.cps = s.cps /\ t.vcs = s.vcs
        /\ t.applyQueue = s.applyQueue /\ t.db = s.db /\ t.out = s.out
        /\ \A f1 \in DOMAIN s : f1 \notin {"seqmap", "tSeq"} => t[f1] = s[f1]
    BY <1>1 DEF Core, Fields
  <2> HIDE DEF t
  <2>3. ReplicaOK(t)
    <3>1. \A op \in DOMAIN map : map[op] \in Int
      BY <2>1
    <3>2. t.tSeq \in Int
      BY <1>1, <2>2
    <3>3. Steady(s, t)
      BY <1>1, <2>2, <3>1, <3>2 DEF Steady, Core, Honest
    <3> QED
      BY <3>3, SteadyIsLater, LaterOn
  <2>4. Onward(s, t) /\ Typed(t)
    <3>1. t.tSeq \in Nat
      BY <1>1, <2>2
    <3> QED
      BY <1>1, <2>1, <2>2, <3>1, NumbersStayTyped DEF Onward
  <2>5. Onward(t, x)
    BY <1>1, <2>3, <2>4, ProposeStaysTyped
  <2> HIDE DEF x
  <2> QED
    BY <2>4, <2>5, OnwardTwice
<1>4. ASSUME req.op \in DOMAIN s.seqmap, e.pp \notin {Nil, NoRequest}
      PROVE  Onward(s, y) /\ Onward(s, z)
  <2>1. n \in Nat
    BY <1>4 DEF Typed
  <2>2. e.pp \in Asked
    BY <1>4, GetsTyped DEF EntryTyped, EntryOK, Asked
  <2> HIDE DEF e, n
  <2>3. Onward(s, y)
    BY <2>1, <2>2, ProposeStaysTyped
  <2>4. Onward(s, z)
    <3> DEFINE task == [seq |-> n, view |-> s.view, req |-> e.pp]
    <3>1. task.seq \in Nat /\ task.view \in Views
      BY <1>1, <2>1
    <3> HIDE DEF task
    <3>2. Onward(s, reply(s, task))
      BY <1>1, <3>1, ReplyStaysTyped
    <3> QED
      BY <3>2 DEF task
  <2> QED
    BY <2>3, <2>4
<1> HIDE DEF x, n, e, y, z
<1> QED
  BY <1>1, <1>2, <1>3, <1>4

LEMMA RequestStaysTyped ==
    ASSUME NEW s, ReplicaOK(s), Typed(s), NEW req \in Requests
    PROVE  Onward(s, Request(s, req))
<1> DEFINE t == [s EXCEPT !.monitor = TRUE, !.ticking = TRUE]
           m == [type |-> "Request", req |-> req]
           u == Send(t, m, {Primary(s.view)} \cap Up)
<1>1. Onward(s, s) /\ Core(s)
  BY NothingIsOnward, Still
<1>2. Onward(s, t) /\ Typed(t) /\ Core(t)
  <2>1. /\ DOMAIN t = DOMAIN s
        /\ t.id = s.id /\ t.view = s.view /\ t.tSeq = s.tSeq /\ t.h = s.h /\ t.lastcp = s.lastcp
        /\ t.stray = s.stray /\ t.timeouts = s.timeouts /\ t.myViewChangeCount = s.myViewChangeCount
        /\ t.monitor = TRUE /\ t.ticking = TRUE /\ t.changing = s.changing
        /\ t.panicked = s.panicked /\ t.applyQueue = s.applyQueue /\ t.apply = s.apply /\ t.log = s.log
        /\ t.cps = s.cps /\ t.seqmap = s.seqmap /\ t.vcs = s.vcs /\ t.out = s.out /\ t.db = s.db
    BY <1>1 DEF Typed, Counts, Core, Fields
  <2> HIDE DEF t
  <2>2. Counts(t)
    <3>1. TRUE \in BOOLEAN
      OBVIOUS
    <3> QED
      BY <2>1, <3>1 DEF Typed, Counts
  <2>3. Core(t)
    BY <1>1, <2>1, OtherFields DEF Steady
  <2> QED
    BY <2>1, <2>2, <2>3, OthersStayTyped DEF Onward
<1>3. BodyTyped(m) /\ "from" \notin DOMAIN m /\ "to" \notin DOMAIN m
  BY DEF BodyTyped, Placed, Has
<1>4. Request(s, req) = IF s.changing THEN s
                        ELSE IF s.id = Primary(s.view) THEN handleRequestLeader(s, req)
                        ELSE IF s.monitor THEN s ELSE u
  BY DEF Request, handleRequestFollower, t, m, u
<1> HIDE DEF t, m
<1>5. Onward(s, u)
  BY <1>2, <1>3, SendStaysTyped, OnwardTwice
<1> HIDE DEF u
<1> QED
  BY <1>1, <1>4, <1>5, HandleRequestLeaderStaysTyped

-----------------------------------------------------------------------------
LEMMA RemoveOldLogStaysTyped ==
    ASSUME NEW s, Core(s), Typed(s), NEW n \in Int, \A task \in s.applyQueue : task.seq >= n
    PROVE  Onward(s, removeOldLog(s, n)) /\ removeOldLog(s, n).view = s.view
<1> DEFINE t == removeOldLog(s, n)
<1>1. /\ DOMAIN t = DOMAIN s
      /\ t.id = s.id /\ t.view = s.view /\ t.tSeq = s.tSeq /\ t.h = s.h /\ t.lastcp = s.lastcp
      /\ t.stray = s.stray /\ t.timeouts = s.timeouts /\ t.myViewChangeCount = s.myViewChangeCount
      /\ t.monitor = s.monitor /\ t.ticking = s.ticking /\ t.changing = s.changing
      /\ t.panicked = s.panicked /\ t.applyQueue = s.applyQueue /\ t.apply = s.apply
      /\ t.cps = s.cps /\ t.seqmap = s.seqmap /\ t.vcs = s.vcs /\ t.out = s.out
      /\ t.log = [k \in {j \in DOMAIN s.log : j[2] >= n} |-> s.log[k]]
  BY DEF removeOldLog, Typed, Counts, Core, Fields
<1> HIDE DEF t
<1>2. /\ DOMAIN t.log \subseteq DOMAIN s.log /\ \A k \in DOMAIN t.log : t.log[k] = s.log[k]
      /\ \A k \in DOMAIN s.log : k[2] >= n => k \in DOMAIN t.log
  BY <1>1
<1>3. LogTyped(t.log) /\ AboveLast(t, t.log)
  BY <1>1, <1>2 DEF Typed, LogTyped, AboveLast
<1>4. QueueTyped(s.applyQueue, s.apply, t.log)
  <2>1. \A task \in s.applyQueue : <<task.view, task.seq>>[2] >= n
    OBVIOUS
  <2> QED
    BY <1>2, <2>1 DEF Typed, QueueTyped
<1>5. Counts(t)
  BY <1>1 DEF Typed, Counts
<1>6. Typed(t)
  BY <1>1, <1>3, <1>4, <1>5 DEF Typed
<1> QED
  BY <1>1, <1>6, ViewIsANumber DEF Onward, t

\* A new view proposes what may be asked, from one Seq to another.
LEMMA NewViewProposes ==
    ASSUME NEW V, ChangesOK(V), ChangesTyped(V), V # <<>>
    PROVE  /\ mins(V) \in Int /\ mins(V) >= -1 /\ maxs(V) \in Int /\ maxs(V) + 1 \in Nat
           /\ DOMAIN calcPPS(V) \subseteq Nat /\ IsFiniteSet(DOMAIN calcPPS(V))
           /\ \A n \in DOMAIN calcPPS(V) : calcPPS(V)[n] \in Asked
<1> DEFINE say(n) == {k \in DOMAIN V : n \in DOMAIN V[k].P}
           pps == calcPPS(V)
<1>1. /\ mins(V) \in Int /\ maxs(V) \in Int /\ maxs(V) >= mins(V)
      /\ \E k \in DOMAIN V : mins(V) = V[k].cp
      /\ IsFiniteSet(DOMAIN V) /\ DOMAIN V \subseteq Int
  BY NewViewStarts
<1>2. mins(V) >= -1 /\ maxs(V) + 1 \in Nat
  <2>1. mins(V) >= -1
    BY <1>1 DEF ChangesTyped, ChangeTyped
  <2> QED
    BY <1>1, <2>1
<1>3. /\ DOMAIN pps = mins(V) + 1 .. maxs(V)
      /\ \A n \in DOMAIN pps : pps[n] = IF say(n) = {} THEN NoRequest ELSE V[Max(say(n))].P[n]
  BY DEF calcPPS
<1> HIDE DEF pps
<1>4. DOMAIN pps \subseteq Nat /\ IsFiniteSet(DOMAIN pps)
  <2>1. mins(V) + 1 \in Int /\ mins(V) + 1 >= 0
    BY <1>1, <1>2
  <2>2. IsFiniteSet(mins(V) + 1 .. maxs(V))
    BY <1>1, <2>1, FS_Interval
  <2>3. \A n \in mins(V) + 1 .. maxs(V) : n \in Nat
    BY <1>1, <2>1
  <2> QED
    BY <1>3, <2>2, <2>3
<1>5. ASSUME NEW n \in DOMAIN pps PROVE pps[n] \in Asked
  <2>1. CASE say(n) = {}
    BY <1>3, <2>1 DEF Asked
  <2>2. CASE say(n) # {}
    <3>1. IsFiniteSet(say(n)) /\ say(n) \subseteq Int
      BY <1>1, FS_Subset
    <3> DEFINE S == say(n)
    <3>2. Max(S) \in S
      <4> HIDE DEF S
      <4> QED
        BY <2>2, <3>1, MaxIsMaximum DEF S
    <3> DEFINE k == Max(S)
    <3>3. k \in DOMAIN V /\ n \in DOMAIN V[k].P
      BY <3>2
    <3>4. pps[n] = V[k].P[n]
      BY <1>3, <2>2
    <3> HIDE DEF k
    <3> QED
      BY <3>3, <3>4 DEF ChangesTyped, ChangeTyped
  <2> QED
    BY <2>1, <2>2
<1> QED
  BY <1>1, <1>2, <1>4, <1>5 DEF pps

LEMMA EnteringNewViewStaysTyped ==
    ASSUME NEW s, ReplicaOK(s), Typed(s), NEW v \in Views, v > s.view,
           NEW V, ChangesOK(V), ChangesTyped(V), V # <<>>
    PROVE  Onward(s, enteringNewView(s, v, V))
<1> DEFINE cp == CHOOSE k \in DOMAIN V : V[k].cp = mins(V) /\ \A j \in 1 .. k - 1 : V[j].cp # mins(V)
           pps == calcPPS(V)
           new == [Stable |-> TRUE, Digest |-> V[cp].digest, Proof |-> {}]
           s1 == [s EXCEPT !.cps = Put(@, mins(V), new)]
           p == [digest |-> V[cp].digest, view |-> s.view]
           t == IF mins(V) > stableCheckPoint(s) THEN stablizeCP(s1, mins(V), p) ELSE s
           seqmap == Over([op \in {pps[n].op : n \in DOMAIN pps} |->
                               Max({n \in DOMAIN pps : pps[n].op = op})], t.seqmap)
           log == Over([k \in {<<v, n>> : n \in DOMAIN pps} |->
                            [getEntry(t, v, k[2]) EXCEPT !.pp = pps[k[2]]]], t.log)
           vcs == [w \in {x \in DOMAIN t.vcs : x > v} |-> t.vcs[w]]
           out == t.out \cup {[type |-> "Prepare", view |-> v, seq |-> n, digest |-> pps[n].op,
                               from |-> s.id, to |-> j] : n \in DOMAIN pps, j \in Up}
           u == [t EXCEPT !.tSeq = maxs(V) + 1, !.seqmap = seqmap, !.log = log, !.view = v,
                          !.changing = FALSE, !.vcs = vcs, !.out = out]
           w == removeOldLog(u, mins(V))
<1>1. /\ Core(s) /\ s.view \in Nat /\ v \in Nat /\ s.view \in Views /\ s.id \in Up
      /\ mins(V) \in Int /\ mins(V) >= -1 /\ maxs(V) \in Int /\ maxs(V) + 1 \in Nat
      /\ DOMAIN pps \subseteq Nat /\ IsFiniteSet(DOMAIN pps) /\ \A n \in DOMAIN pps : pps[n] \in Asked
  BY Still, NewViewProposes, ViewsAreNumbers DEF Typed, Counts
<1>2. enteringNewView(s, v, V) = stopTimer(w)
  BY DEF enteringNewView, w, u, t, s1, new, p, cp, pps, seqmap, log, vcs, out
<1> HIDE DEF cp
<1>3. Core(t) /\ Typed(t) /\ t.view = s.view /\ t.apply \in Int /\ t.apply >= mins(V)
  <2>1. /\ stableCheckPoint(s) \in DOMAIN s.cps /\ stableCheckPoint(s) \in Int
        /\ stableCheckPoint(s) <= s.apply /\ s.apply \in Int /\ stableCheckPoint(s) >= -1
    BY <1>1, StableCheckPointIsStable DEF ReplicaOK, HasStable, Core, Typed, CheckpointsTyped
  <2>2. CASE ~(mins(V) > stableCheckPoint(s))
    BY <1>1, <2>1, <2>2
  <2>3. CASE mins(V) > stableCheckPoint(s)
    <3>1. /\ DOMAIN s1 = DOMAIN s /\ s1.id = s.id /\ s1.tSeq = s.tSeq /\ s1.seqmap = s.seqmap
          /\ s1.apply = s.apply /\ s1.log = s.log /\ s1.vcs = s.vcs
          /\ s1.applyQueue = s.applyQueue /\ s1.db = s.db /\ s1.out = s.out
          /\ s1.cps = Put(s.cps, mins(V), new)
          /\ \A z \in DOMAIN s : z # "cps" => s1[z] = s[z]
      BY <1>1 DEF Core, Fields
    <3>2. "Stable" \in DOMAIN new /\ "Proof" \in DOMAIN new /\ new.Proof = {}
      OBVIOUS
    <3>3. p.view = s.view
      OBVIOUS
    <3> HIDE DEF s1, new, p
    <3>4. /\ DOMAIN s1.cps = DOMAIN s.cps \cup {mins(V)}
          /\ \A k \in DOMAIN s1.cps : s1.cps[k] = IF k = mins(V) THEN new ELSE s.cps[k]
      BY <3>1 DEF Put
    <3>5. Core(s1)
      BY <1>1, <3>1, <3>2, <3>4 DEF Core, Honest
    <3>6. CheckpointsTyped(s1.cps)
      BY <1>1, <3>2, <3>4 DEF Typed, CheckpointsTyped
    <3>7. Typed(s1) /\ s1.view = s.view
      BY <1>1, <3>1, <3>6, CheckpointsStayTyped DEF Onward
    <3>8. mins(V) \in Nat /\ mins(V) \in DOMAIN s1.cps
      BY <1>1, <2>1, <2>3, <3>4
    <3>9. /\ Typed(stablizeCP(s1, mins(V), p)) /\ stablizeCP(s1, mins(V), p).view = s1.view
          /\ stablizeCP(s1, mins(V), p).apply \in Int /\ stablizeCP(s1, mins(V), p).apply >= mins(V)
      <4>1. p.view \in Views /\ p.view <= s1.view
        BY <1>1, <3>3, <3>7
      <4> QED
        BY <3>5, <3>7, <3>8, <4>1, StablizeCPStaysTyped DEF Onward
    <3>10. Later(s1, stablizeCP(s1, mins(V), p))
      <4>1. \A k \in DOMAIN s1.cps \ {mins(V)} : s1.cps[k].Stable => k <= s1.apply
        BY <3>1, <3>4 DEF ReplicaOK, HasStable
      <4> QED
        BY <3>5, <3>8, <4>1, StablizeCPIsLater
    <3>11. t = stablizeCP(s1, mins(V), p)
      BY <2>3
    <3> HIDE DEF t
    <3> QED
      BY <3>7, <3>9, <3>10, <3>11, LaterOn
  <2> QED
    BY <2>2, <2>3
<1> HIDE DEF t, pps
<1>4. \A op \in DOMAIN seqmap : seqmap[op] \in Nat
  <2> DEFINE of(op) == {n \in DOMAIN pps : pps[n].op = op}
             ops == {pps[n].op : n \in DOMAIN pps}
  <2>1. ASSUME NEW op \in ops PROVE Max(of(op)) \in Nat
    <3>1. IsFiniteSet(of(op)) /\ of(op) # {} /\ of(op) \subseteq Nat
      BY <1>1, <2>1, FS_Subset
    <3> HIDE DEF of
    <3>2. Max(of(op)) \in of(op)
      BY <3>1, MaxIsMaximum
    <3> QED
      BY <3>1, <3>2
  <2>2. \A op \in DOMAIN t.seqmap : t.seqmap[op] \in Nat
    BY <1>3 DEF Typed
  <2>3. seqmap = Over([op \in ops |-> Max(of(op))], t.seqmap)
    OBVIOUS
  <2> HIDE DEF ops, of, seqmap
  <2> QED
    BY <2>1, <2>2, <2>3 DEF Over
<1>5. /\ LogTyped(log) /\ DOMAIN t.log \subseteq DOMAIN log
      /\ \A task \in t.applyQueue : /\ <<task.view, task.seq>> \in DOMAIN log
                                    /\ log[<<task.view, task.seq>>].sendReply
  <2> DEFINE keys == {<<v, n>> : n \in DOMAIN pps}
             entry(k) == [getEntry(t, v, k[2]) EXCEPT !.pp = pps[k[2]]]
  <2>1. ASSUME NEW k \in keys
        PROVE  /\ k \in Views \X Nat /\ EntryTyped(entry(k))
               /\ \A task \in t.applyQueue : <<task.view, task.seq>> = k => entry(k).sendReply
    <3>1. PICK n \in DOMAIN pps : k = <<v, n>>
      BY <2>1
    <3> DEFINE g == getEntry(t, v, n)
    <3>2. EntryTyped(g) /\ \A task \in t.applyQueue : <<task.view, task.seq>> = k => g.sendReply
      BY <1>3, <3>1, GetsTyped
    <3>3. pps[n] \in Asked /\ pps[n] \in Requests \cup {NoRequest, Nil} /\ pps[n] # Nil
      BY <1>1, AskedHaveOps
    <3>4. entry(k) = [g EXCEPT !.pp = pps[n]]
      BY <3>1
    <3> HIDE DEF g, entry
    <3>5. EntryTyped(entry(k)) /\ entry(k).sendReply = g.sendReply
      BY <3>2, <3>3, <3>4 DEF EntryTyped, EntryOK
    <3> QED
      BY <1>1, <3>1, <3>2, <3>5
  <2>2. log = Over([k \in keys |-> entry(k)], t.log)
    OBVIOUS
  <2> HIDE DEF keys, entry, log
  <2>3. /\ DOMAIN log = keys \cup DOMAIN t.log
        /\ \A k \in DOMAIN log : log[k] = IF k \in keys THEN entry(k) ELSE t.log[k]
    BY <2>2 DEF Over
  <2>4. LogTyped(t.log) /\ \A task \in t.applyQueue : /\ <<task.view, task.seq>> \in DOMAIN t.log
                                                      /\ t.log[<<task.view, task.seq>>].sendReply
    BY <1>3 DEF Typed, QueueTyped
  <2> QED
    BY <2>1, <2>3, <2>4 DEF LogTyped
<1>6. \A x \in DOMAIN vcs : ChangesTyped(vcs[x])
  BY <1>3 DEF Typed
<1>7. \A m \in out : MessageTyped(m)
  <2>1. \A m \in t.out : MessageTyped(m)
    BY <1>3 DEF Typed
  <2>2. ASSUME NEW n \in DOMAIN pps, NEW j \in Up,
               NEW m, m = [type |-> "Prepare", view |-> v, seq |-> n, digest |-> pps[n].op,
                           from |-> s.id, to |-> j]
        PROVE  MessageTyped(m)
    <3>1. n \in Nat /\ pps[n].op \in Ops /\ s.id \in Up
      BY <1>1, AskedHaveOps
    <3>2. /\ DOMAIN m = {"type", "view", "seq", "digest", "from", "to"} /\ m.type = "Prepare"
          /\ m.view = v /\ m.seq = n /\ m.digest = pps[n].op /\ m.from = s.id /\ m.to = j
      BY <2>2
    <3> QED
      BY <3>1, <3>2 DEF MessageTyped, BodyTyped, Has, Placed
  <2> QED
    BY <2>1, <2>2
<1>8. Typed(u) /\ u.view = v /\ (\A task \in u.applyQueue : task.seq >= mins(V)) /\ mins(V) \in Int
  <2>1. /\ DOMAIN u = DOMAIN t
        /\ u.id = t.id /\ u.view = v /\ u.tSeq = maxs(V) + 1 /\ u.h = t.h /\ u.lastcp = t.lastcp
        /\ u.stray = t.stray /\ u.timeouts = t.timeouts /\ u.myViewChangeCount = t.myViewChangeCount
        /\ u.monitor = t.monitor /\ u.ticking = t.ticking /\ u.changing = FALSE
        /\ u.panicked = t.panicked /\ u.applyQueue = t.applyQueue /\ u.apply = t.apply
        /\ u.cps = t.cps /\ u.seqmap = seqmap /\ u.vcs = vcs /\ u.out = out /\ u.log = log
    BY <1>3 DEF Typed, Counts, Core, Fields
  <2> HIDE DEF u, seqmap, log, vcs, out
  <2>2. Counts(u)
    <3>1. FALSE \in BOOLEAN
      OBVIOUS
    <3> QED
      BY <1>1, <1>3, <2>1, <3>1 DEF Typed, Counts
  <2>3. QueueTyped(t.applyQueue, t.apply, log)
    BY <1>3, <1>5 DEF Typed, QueueTyped
  <2>4. AboveLast(u, log)
    BY <1>1, <2>1 DEF AboveLast
  <2>5. Typed(u)
    BY <1>3, <1>4, <1>5, <1>6, <1>7, <2>1, <2>2, <2>3, <2>4 DEF Typed
  <2>6. \A task \in t.applyQueue : task.seq \in Nat /\ task.seq > t.apply
    BY <1>3 DEF Typed, QueueTyped
  <2>7. \A task \in t.applyQueue : task.seq >= mins(V)
    BY <1>1, <1>3, <2>6
  <2> QED
    BY <1>1, <2>1, <2>5, <2>7
<1>9. Core(u)
  <2>1. Entered(t, s.id, v, V) = u
    BY DEF Entered, pps
  <2>2. Steady(t, Entered(t, s.id, v, V))
    BY <1>3, EnteredIsSteady
  <2> QED
    BY <2>1, <2>2 DEF Steady
<1> HIDE DEF u
<1>10. Typed(w) /\ w.view = v
  BY <1>8, <1>9, RemoveOldLogStaysTyped DEF Onward
<1> HIDE DEF w
<1>11. Typed(stopTimer(w)) /\ stopTimer(w).view = v
  BY <1>10, StopTimerStaysTyped DEF Onward
<1> QED
  BY <1>1, <1>2, <1>11 DEF Onward

LEMMA ViewChangeStaysTyped ==
    ASSUME NEW s, ReplicaOK(s), Typed(s), NEW vc, ChangeOK(vc), ChangeTyped(vc)
    PROVE  Onward(s, ViewChange(s, vc))
<1> DEFINE old == IF vc.view \in DOMAIN s.vcs THEN s.vcs[vc.view] ELSE <<>>
           V == Append(old, vc)
           vcs == Put(s.vcs, vc.view, V)
           t == [s EXCEPT !.vcs = vcs]
           m == [type |-> "NewView", view |-> vc.view, V |-> V]
           u == Send(t, m, Others(s))
           w == enteringNewView(u, vc.view, V)
<1>1. Onward(s, s) /\ Core(s) /\ vc.view \in Views /\ s.view \in Nat /\ vc.view \in Nat
  BY Still, NothingIsOnward, ViewIsANumber, ViewsAreNumbers DEF ChangeTyped
<1>2. ViewChange(s, vc) = IF vc.view <= s.view \/ Primary(vc.view) # s.id THEN s
                          ELSE IF ~EnoughChanges(V) THEN t ELSE w
  BY DEF ViewChange, old, V, vcs, t, m, u, w
<1>3. ChangesOK(V) /\ V # <<>> /\ ChangesTyped(V)
  <2>1. ChangesOK(<<>>) /\ ChangesTyped(<<>>)
    BY DEF ChangesOK, ChangesTyped
  <2>2. ChangesOK(old) /\ ChangesTyped(old)
    BY <1>1, <2>1 DEF Core, Typed
  <2> HIDE DEF old
  <2>3. ChangesOK(V) /\ V # <<>>
    BY <2>2, ChangesAppended
  <2>4. old \in Seq({old[k] : k \in DOMAIN old})
    BY <2>2 DEF ChangesOK
  <2>5. \A k \in DOMAIN V : V[k] = vc \/ (k \in DOMAIN old /\ V[k] = old[k])
    <3> DEFINE X == {old[k] : k \in DOMAIN old} \cup {vc}
    <3>1. old \in Seq(X) /\ vc \in X
      BY <2>4
    <3> HIDE DEF X
    <3> QED
      BY <3>1
  <2> QED
    BY <2>2, <2>3, <2>5 DEF ChangesTyped
<1> HIDE DEF V
<1>4. Onward(s, t) /\ Typed(t) /\ Core(t) /\ t.view = s.view /\ t.id = s.id /\ ReplicaOK(t)
  <2>1. /\ \A x \in DOMAIN vcs : ChangesTyped(vcs[x])
        /\ \A x \in DOMAIN vcs : ChangesOK(vcs[x])
    BY <1>1, <1>3 DEF Typed, Core, Put
  <2> HIDE DEF vcs
  <2>2. /\ DOMAIN t = DOMAIN s
        /\ t.id = s.id /\ t.view = s.view /\ t.tSeq = s.tSeq /\ t.h = s.h /\ t.lastcp = s.lastcp
        /\ t.stray = s.stray /\ t.timeouts = s.timeouts /\ t.myViewChangeCount = s.myViewChangeCount
        /\ t.monitor = s.monitor /\ t.ticking = s.ticking /\ t.changing = s.changing
        /\ t.panicked = s.panicked /\ t.applyQueue = s.applyQueue /\ t.apply = s.apply /\ t.log = s.log
        /\ t.cps = s.cps /\ t.seqmap = s.seqmap /\ t.vcs = vcs /\ t.out = s.out /\ t.db = s.db
    BY <1>1 DEF Typed, Counts, Core, Fields
  <2> HIDE DEF t
  <2>3. Steady(s, t)
    BY <1>1, <2>1, <2>2 DEF Steady, Core, Honest
  <2>4. Typed(t)
    <3>1. Counts(t)
      BY <2>2 DEF Typed, Counts
    <3> QED
      BY <2>1, <2>2, <3>1 DEF Typed, AboveLast
  <2> QED
    BY <1>1, <2>2, <2>3, <2>4, SteadyIsLater, LaterOn DEF Onward
<1>5. /\ BodyTyped(m) /\ "from" \notin DOMAIN m /\ "to" \notin DOMAIN m
      /\ MessageOK(m) /\ Honest(m, t) /\ m.type = "NewView" /\ "type" \in DOMAIN m /\ "V" \in DOMAIN m
  BY <1>1, <1>3 DEF BodyTyped, Placed, Has, MessageOK, Honest, Numbered
<1> HIDE DEF m
<1>6. u.view = s.view
  BY <1>4 DEF Send, Typed, Counts
<1> HIDE DEF t
<1>7. Onward(t, u) /\ Typed(u) /\ ReplicaOK(u)
  <2>1. Onward(t, u) /\ Typed(u)
    BY <1>4, <1>5, SendStaysTyped DEF Onward, Others
  <2>2. Steady(t, u)
    BY <1>4, <1>5, Sends DEF Numbered
  <2> QED
    BY <1>4, <2>1, <2>2, SteadyIsLater, LaterOn
<1> HIDE DEF u
<1>8. ASSUME ~(vc.view <= s.view) PROVE Onward(s, w)
  <2>1. Onward(u, w)
    BY <1>1, <1>3, <1>6, <1>7, <1>8, EnteringNewViewStaysTyped
  <2> HIDE DEF w
  <2> QED
    BY <1>4, <1>7, <2>1, OnwardTwice
<1> HIDE DEF w
<1> QED
  BY <1>1, <1>2, <1>4, <1>8

LEMMA NewViewStaysTyped ==
    ASSUME NEW s, ReplicaOK(s), Typed(s), NEW v \in Views, NEW V, ChangesOK(V), ChangesTyped(V), V # <<>>
    PROVE  Onward(s, NewView(s, v, V))
<1>1. Onward(s, s) /\ s.view \in Nat /\ v \in Nat
  BY NothingIsOnward, ViewIsANumber, ViewsAreNumbers
<1>2. ~(v <= s.view) => Onward(s, enteringNewView(s, v, V))
  BY <1>1, EnteringNewViewStaysTyped
<1> QED
  BY <1>1, <1>2 DEF NewView

\* A view change asks for a view within the bound.
LEMMA HandleTimerStaysTyped ==
    ASSUME NEW s, ReplicaOK(s), Typed(s), NEW P, IsFiniteSet(DOMAIN P), DOMAIN P \subseteq Nat,
           \A n \in DOMAIN P : P[n] \in Asked, s.view + s.myViewChangeCount < MaxView
    PROVE  Onward(s, handleTimer(s, P))
<1> DEFINE vc == viewChange(s, P)
           t0 == [s EXCEPT !.changing = TRUE, !.myViewChangeCount = @ + 1]
           m == [type |-> "ViewChange", vc |-> vc]
           u == Send(t0, m, {Primary(vc.view)} \cap Others(s))
           t == ViewChange(u, vc)
           w == [t EXCEPT !.ticking = TRUE, !.monitor = TRUE, !.stray = @ + IF t.ticking THEN 1 ELSE 0]
<1>1. Onward(s, s) /\ Core(s)
  BY Still, NothingIsOnward
<1>2. ChangeOK(vc) /\ ChangeTyped(vc)
  <2>1. /\ vc.cp \in Int /\ vc.cp >= -1 /\ vc.P = P /\ vc.view = s.view + s.myViewChangeCount + 1
    BY <1>1, StableCheckPointIsStable DEF viewChange, Typed, CheckpointsTyped
  <2>2. s.view \in Nat /\ s.myViewChangeCount \in Nat /\ MaxView \in Nat
    BY ViewIsANumber, PBFTBounds DEF Typed, Counts
  <2> HIDE DEF vc
  <2>3. vc.view \in Views
    BY <2>1, <2>2 DEF Views
  <2>4. DOMAIN P \subseteq Int
    OBVIOUS
  <2> QED
    BY <2>1, <2>3, <2>4 DEF ChangeOK, ChangeTyped
<1>3. handleTimer(s, P) = w
  BY DEF handleTimer, vc, t0, m, u, t, w
<1> HIDE DEF vc
<1>4. Onward(s, t0) /\ Typed(t0) /\ Core(t0) /\ Steady(s, t0)
  <2>1. /\ DOMAIN t0 = DOMAIN s
        /\ t0.id = s.id /\ t0.view = s.view /\ t0.tSeq = s.tSeq /\ t0.h = s.h /\ t0.lastcp = s.lastcp
        /\ t0.stray = s.stray /\ t0.timeouts = s.timeouts /\ t0.myViewChangeCount = s.myViewChangeCount + 1
        /\ t0.monitor = s.monitor /\ t0.ticking = s.ticking /\ t0.changing = TRUE
        /\ t0.panicked = s.panicked /\ t0.applyQueue = s.applyQueue /\ t0.apply = s.apply
        /\ t0.log = s.log /\ t0.cps = s.cps /\ t0.seqmap = s.seqmap /\ t0.vcs = s.vcs
        /\ t0.out = s.out /\ t0.db = s.db
    BY <1>1 DEF Typed, Counts, Core, Fields
  <2> HIDE DEF t0
  <2>2. Counts(t0)
    <3>1. TRUE \in BOOLEAN
      OBVIOUS
    <3>2. s.myViewChangeCount + 1 \in Nat
      BY DEF Typed, Counts
    <3> QED
      BY <2>1, <3>1, <3>2 DEF Typed, Counts
  <2>3. Steady(s, t0)
    BY <1>1, <2>1, OtherFields
  <2> QED
    BY <2>1, <2>2, <2>3, OthersStayTyped DEF Onward, Steady
<1> HIDE DEF t0
<1>5. /\ BodyTyped(m) /\ "from" \notin DOMAIN m /\ "to" \notin DOMAIN m
      /\ MessageOK(m) /\ Honest(m, t0) /\ m.type = "ViewChange" /\ "type" \in DOMAIN m /\ "vc" \in DOMAIN m
  BY <1>2 DEF BodyTyped, Placed, Has, MessageOK, Honest, Numbered
<1> HIDE DEF m
<1>6. Onward(t0, u) /\ Typed(u) /\ ReplicaOK(u)
  <2>1. Onward(t0, u) /\ Typed(u)
    BY <1>4, <1>5, SendStaysTyped DEF Onward, Others
  <2>2. Steady(t0, u)
    BY <1>4, <1>5, Sends DEF Numbered
  <2> QED
    BY <1>1, <1>4, <2>1, <2>2, SteadyTwice, SteadyIsLater, LaterOn
<1> HIDE DEF u
<1>7. Onward(u, t) /\ Typed(t) /\ Core(t)
  BY <1>2, <1>6, ViewChangeStaysTyped, ViewChangeIsLater, LaterOn DEF Onward
<1> HIDE DEF t
<1>8. Onward(t, w)
  <2>1. /\ DOMAIN w = DOMAIN t
        /\ w.id = t.id /\ w.view = t.view /\ w.tSeq = t.tSeq /\ w.h = t.h /\ w.lastcp = t.lastcp
        /\ w.stray = t.stray + (IF t.ticking THEN 1 ELSE 0)
        /\ w.timeouts = t.timeouts /\ w.myViewChangeCount = t.myViewChangeCount
        /\ w.monitor = TRUE /\ w.ticking = TRUE /\ w.changing = t.changing
        /\ w.panicked = t.panicked /\ w.applyQueue = t.applyQueue /\ w.apply = t.apply
        /\ w.log = t.log /\ w.cps = t.cps /\ w.seqmap = t.seqmap /\ w.vcs = t.vcs /\ w.out = t.out
    BY <1>7 DEF Typed, Counts, Core, Fields
  <2> HIDE DEF w
  <2>2. TRUE \in BOOLEAN
    OBVIOUS
  <2>3. w.stray \in Nat
    BY <1>7, <2>1 DEF Typed, Counts
  <2>4. Counts(w)
    BY <1>7, <2>1, <2>2, <2>3 DEF Typed, Counts
  <2> QED
    BY <1>7, <2>1, <2>4, OthersStayTyped
<1> HIDE DEF w
<1> QED
  BY <1>3, <1>4, <1>6, <1>7, <1>8, OnwardTwice

(* Whatever message a replica handles.                                     *)
LEMMA HandledStaysTyped ==
    ASSUME NEW s, ReplicaOK(s), Typed(s), NEW m, MessageOK(m), MessageTyped(m), m.type # "Response"
    PROVE  Onward(s, Handled(s, m))
<1>1. m.from \in Up
  BY DEF MessageTyped, Has
<1>2. CASE m.type = "Request"
  BY <1>2, RequestStaysTyped DEF Handled, MessageTyped, BodyTyped, Has
<1>3. CASE m.type = "PrePrepare"
  BY <1>3, PrePrepareStaysTyped DEF Handled, MessageTyped, BodyTyped, Has, Placed
<1>4. CASE m.type = "Prepare"
  BY <1>1, <1>4, PrepareStaysTyped DEF Handled, MessageTyped, BodyTyped, Has, Placed
<1>5. CASE m.type = "Commit"
  BY <1>1, <1>5, CommitStaysTyped DEF Handled, MessageTyped, BodyTyped, Has, Placed
<1>6. CASE m.type = "CheckPoint"
  BY <1>6, CheckPointStaysTyped DEF Handled, MessageTyped, BodyTyped, Has
<1>7. CASE m.type = "ViewChange"
  BY <1>7, ViewChangeStaysTyped DEF Handled, MessageTyped, BodyTyped, MessageOK
<1>8. CASE m.type = "NewView"
  BY <1>8, NewViewStaysTyped DEF Handled, MessageTyped, BodyTyped, Has, MessageOK
<1> QED
  BY <1>2, <1>3, <1>4, <1>5, <1>6, <1>7, <1>8 DEF MessageOK, Numbered

(* The system.  A replica that does not run stays as it was made.          *)
FirstDb == [nonce |-> InitSeq - 1, opNonces |-> {}, executed |-> <<>>]
ClientTyped(c) ==
    /\ {"stage", "res", "seq", "sends", "ticking"} \subseteq DOMAIN c
    /\ c.stage \in {"new", "waiting", "done", "lost"}
    /\ c.sends \in 0 .. MaxSends
    /\ c.stage = "done" => c.seq \in Nat
    /\ c.ticking => c.stage = "waiting"
TypeInv ==
    /\ restarts \in 0 .. MaxRestarts
    /\ view \in [Replicas -> Views]
    /\ \A r \in Requests : ClientTyped(client[r])
    /\ \A m \in net : MessageTyped(m)
    /\ \A i \in Up : Typed(server[i])
    /\ \A i \in Replicas \ Up : server[i] = NewPBFTServer(i, FirstDb)

\* Only a restart takes a replica back to view 0.
ViewsGrow == /\ restarts' >= restarts
             /\ restarts' = restarts => \A i \in Up : server'[i].view >= server[i].view

LEMMA NewServerIsTyped ==
    ASSUME NEW i \in Up, NEW d, d.nonce \in Int, d.nonce >= -1
    PROVE  Typed(NewPBFTServer(i, d))
<1> DEFINE s == NewPBFTServer(i, d)
<1>1. /\ {"view", "h", "lastcp", "stray", "timeouts", "myViewChangeCount"} \subseteq DOMAIN s
      /\ {"monitor", "ticking", "changing", "panicked"} \subseteq DOMAIN s
      /\ s.id = i /\ s.view = 0 /\ s.tSeq = d.nonce + 1 /\ s.h = d.nonce + 1 /\ s.lastcp = -1
      /\ s.stray = 0 /\ s.timeouts = 0 /\ s.myViewChangeCount = 0
      /\ s.monitor = FALSE /\ s.ticking = FALSE /\ s.changing = FALSE /\ s.panicked = FALSE
      /\ s.applyQueue = {} /\ s.out = {}
      /\ DOMAIN s.seqmap = {} /\ DOMAIN s.log = {} /\ DOMAIN s.vcs = {}
      /\ s.cps = [n \in {-1} |-> [Stable |-> TRUE, Digest |-> Nil, Proof |-> {}]]
  BY DEF NewPBFTServer
<1> HIDE DEF s
<1>2. Counts(s)
  <2>1. /\ s.view \in Views /\ s.tSeq \in Nat /\ s.h \in Nat /\ s.lastcp \in Int /\ s.lastcp <= s.h
        /\ s.stray \in Nat /\ s.timeouts \in Nat /\ s.myViewChangeCount \in Nat
    BY <1>1, ViewsAreNumbers
  <2>2. FALSE \in BOOLEAN
    OBVIOUS
  <2> QED
    BY <1>1, <2>1, <2>2 DEF Counts
<1>3. CheckpointsTyped(s.cps)
  BY <1>1 DEF CheckpointsTyped
<1>4. LogTyped(s.log) /\ AboveLast(s, s.log) /\ QueueTyped(s.applyQueue, s.apply, s.log)
  BY <1>1 DEF LogTyped, AboveLast, QueueTyped
<1> QED
  BY <1>1, <1>2, <1>3, <1>4 DEF Typed, s

\* One replica goes on.
LEMMA OneReplicaStaysTyped ==
    ASSUME MemoryInv, TypeInv, NEW i \in Up, NEW s, Typed(s), server' = [server EXCEPT ![i] = s]
    PROVE  /\ \A j \in Up : Typed(server'[j])
           /\ \A j \in Replicas \ Up : server'[j] = NewPBFTServer(j, FirstDb)
           /\ server'[i] = s /\ \A j \in Up \ {i} : server'[j].view >= server[j].view
<1>1. /\ i \in DOMAIN server /\ DOMAIN server = Replicas
      /\ \A j \in DOMAIN server : server'[j] = IF j = i THEN s ELSE server[j]
  BY UpAreReplicas DEF MemoryInv, ReplicasOK
<1>2. \A j \in Up : Typed(server'[j])
  BY <1>1, UpAreReplicas DEF TypeInv
<1>3. \A j \in Replicas \ Up : server'[j] = NewPBFTServer(j, FirstDb)
  BY <1>1 DEF TypeInv
<1>4. \A j \in Up \ {i} : server'[j] = server[j] /\ server[j].view \in Nat
  BY <1>1, UpAreReplicas, ViewIsANumber DEF TypeInv
<1>5. \A j \in Up \ {i} : server'[j].view >= server[j].view
  BY <1>4
<1> QED
  BY <1>1, <1>2, <1>3, <1>5

\* One replica goes on, and what it sends is on its way.
LEMMA BecomesIsTyped ==
    ASSUME MemoryInv, TypeInv, NEW i \in Up, NEW s, Later(server[i], s), Onward(server[i], s),
           NEW taken, Becomes(s, taken), UNCHANGED <<client, view, restarts>>
    PROVE  TypeInv' /\ ViewsGrow
<1> DEFINE t == [s EXCEPT !.out = {}]
<1>1. s.id = i /\ Core(s) /\ Typed(s)
  BY DEF MemoryInv, ReplicasOK, Later, ReplicaOK, Onward
<1>2. Onward(s, t)
  <2>1. /\ DOMAIN t = DOMAIN s
        /\ t.id = s.id /\ t.view = s.view /\ t.tSeq = s.tSeq /\ t.h = s.h /\ t.lastcp = s.lastcp
        /\ t.stray = s.stray /\ t.timeouts = s.timeouts /\ t.myViewChangeCount = s.myViewChangeCount
        /\ t.monitor = s.monitor /\ t.ticking = s.ticking /\ t.changing = s.changing
        /\ t.panicked = s.panicked /\ t.applyQueue = s.applyQueue /\ t.apply = s.apply
        /\ t.log = s.log /\ t.cps = s.cps /\ t.seqmap = s.seqmap /\ t.vcs = s.vcs /\ t.out = {}
    BY <1>1 DEF Typed, Counts, Core, Fields
  <2> HIDE DEF t
  <2>2. Counts(t)
    BY <1>1, <2>1 DEF Typed, Counts
  <2> QED
    BY <1>1, <2>1, <2>2, OthersStayTyped
<1>3. server' = [server EXCEPT ![i] = t]
  BY <1>1 DEF Becomes
<1> HIDE DEF t
<1>4. Onward(server[i], t)
  BY <1>2, OnwardTwice DEF TypeInv
<1>5. /\ \A j \in Up : Typed(server'[j])
      /\ \A j \in Replicas \ Up : server'[j] = NewPBFTServer(j, FirstDb)
      /\ server'[i] = t /\ \A j \in Up \ {i} : server'[j].view >= server[j].view
  BY <1>3, <1>4, OneReplicaStaysTyped DEF Onward
<1>6. \A m \in net' : MessageTyped(m)
  BY <1>1 DEF Becomes, Typed, TypeInv
<1>7. TypeInv'
  BY <1>5, <1>6 DEF TypeInv
<1>8. ViewsGrow
  <2>1. \A j \in Up : server'[j].view >= server[j].view
    BY <1>4, <1>5 DEF Onward
  <2>2. restarts' = restarts /\ restarts \in Int
    BY DEF TypeInv
  <2> QED
    BY <2>1, <2>2 DEF ViewsGrow
<1> QED
  BY <1>7, <1>8

LEMMA HandleReqIsTyped ==
    ASSUME MemoryInv, TypeInv, NEW m \in net, handleReq(m)
    PROVE  TypeInv' /\ ViewsGrow
<1> DEFINE s == IF Accepted(m) THEN Handled(server[m.to], m) ELSE server[m.to]
<1>1. /\ m.to \in Up /\ m.type # "Response" /\ Becomes(s, {m}) /\ UNCHANGED <<client, view, restarts>>
      /\ ReplicaOK(server[m.to]) /\ MessageOK(m) /\ Typed(server[m.to]) /\ MessageTyped(m)
  BY DEF handleReq, Running, MemoryInv, TypeInv, ReplicasOK, AnswersOK
<1>2. Later(server[m.to], s) /\ Onward(server[m.to], s)
  BY <1>1, Still, HandledIsLater, NothingIsOnward, HandledStaysTyped
<1> HIDE DEF s
<1> QED
  BY <1>1, <1>2, BecomesIsTyped

LEMMA StartViewChangeIsTyped ==
    ASSUME MemoryInv, TypeInv, NEW i \in Up, startViewChange(i)
    PROVE  TypeInv' /\ ViewsGrow
<1>1. PICK s \in Fired(server[i]) : server' = [server EXCEPT ![i] = [s EXCEPT !.timeouts = @ + 1]]
  BY DEF startViewChange
<1> DEFINE t == [s EXCEPT !.timeouts = @ + 1]
           o == server[i]
<1>2. Core(o) /\ Typed(o)
  BY DEF MemoryInv, TypeInv, ReplicasOK, ReplicaOK
<1>3. /\ DOMAIN s = DOMAIN o
      /\ s.id = o.id /\ s.view = o.view /\ s.tSeq = o.tSeq /\ s.h = o.h /\ s.lastcp = o.lastcp
      /\ s.stray \in Nat /\ s.timeouts = o.timeouts /\ s.myViewChangeCount = o.myViewChangeCount
      /\ s.monitor = o.monitor /\ s.ticking \in BOOLEAN /\ s.changing = o.changing
      /\ s.panicked = o.panicked /\ s.applyQueue = o.applyQueue /\ s.apply = o.apply
      /\ s.log = o.log /\ s.cps = o.cps /\ s.seqmap = o.seqmap /\ s.vcs = o.vcs /\ s.out = o.out
  <2>1. s = [o EXCEPT !.ticking = FALSE] \/ (s = [o EXCEPT !.stray = @ - 1] /\ o.stray > 0)
    BY DEF Fired
  <2>2. o.stray \in Nat /\ o.ticking \in BOOLEAN /\ {"stray", "ticking"} \subseteq DOMAIN o
    BY <1>2 DEF Typed, Counts
  <2> HIDE DEF o, t
  <2>3. CASE s = [o EXCEPT !.ticking = FALSE]
    BY <2>2, <2>3
  <2>4. CASE s = [o EXCEPT !.stray = @ - 1] /\ o.stray > 0
    BY <2>2, <2>4
  <2> QED
    BY <2>1, <2>3, <2>4
<1> HIDE DEF o
<1>4. /\ DOMAIN t = DOMAIN o
      /\ t.id = o.id /\ t.view = o.view /\ t.tSeq = o.tSeq /\ t.h = o.h /\ t.lastcp = o.lastcp
      /\ t.stray = s.stray /\ t.timeouts = o.timeouts + 1 /\ t.myViewChangeCount = o.myViewChangeCount
      /\ t.monitor = o.monitor /\ t.ticking = s.ticking /\ t.changing = o.changing
      /\ t.panicked = o.panicked /\ t.applyQueue = o.applyQueue /\ t.apply = o.apply
      /\ t.log = o.log /\ t.cps = o.cps /\ t.seqmap = o.seqmap /\ t.vcs = o.vcs /\ t.out = o.out
  BY <1>2, <1>3 DEF Typed, Counts
<1> HIDE DEF t
<1>5. Onward(o, t)
  <2>1. t.timeouts \in Nat
    BY <1>2, <1>4 DEF Typed, Counts
  <2>2. Counts(t)
    BY <1>2, <1>3, <1>4, <2>1 DEF Typed, Counts
  <2> QED
    BY <1>2, <1>4, <2>2, OthersStayTyped
<1>6. server' = [server EXCEPT ![i] = t] /\ UNCHANGED <<client, view, net, restarts>>
  BY <1>1 DEF startViewChange, t
<1>7. /\ \A j \in Up : Typed(server'[j])
      /\ \A j \in Replicas \ Up : server'[j] = NewPBFTServer(j, FirstDb)
      /\ server'[i] = t /\ \A j \in Up \ {i} : server'[j].view >= server[j].view
  BY <1>5, <1>6, OneReplicaStaysTyped DEF Onward
<1>8. TypeInv'
  BY <1>6, <1>7 DEF TypeInv
<1>9. ViewsGrow
  <2>1. \A j \in Up : server'[j].view >= server[j].view
    BY <1>5, <1>7 DEF Onward, o
  <2>2. restarts' = restarts /\ restarts \in Int
    BY <1>6 DEF TypeInv
  <2> QED
    BY <2>1, <2>2 DEF ViewsGrow
<1> QED
  BY <1>8, <1>9

\* What a replica says was prepared is in its log.
LEMMA PreparedListsAreTyped ==
    ASSUME NEW s, Typed(s), NEW P \in PreparedLists(s)
    PROVE  DOMAIN P \subseteq Nat /\ \A n \in DOMAIN P : P[n] \in Asked
<1>1. DOMAIN P = {k[2] : k \in Prepareds(s)}
  BY DEF PreparedLists
<1>2. \A n \in DOMAIN P : \E k \in Prepareds(s) : k[2] = n /\ s.log[k].pp = P[n]
  BY <1>1 DEF PreparedLists
<1>3. \A k \in Prepareds(s) : k \in DOMAIN s.log /\ s.log[k].pp # Nil
  BY DEF Prepareds
<1>4. \A k \in DOMAIN s.log : k[2] \in Nat /\ s.log[k].pp \in Asked \cup {Nil}
  BY DEF Typed, LogTyped, EntryTyped, EntryOK, Asked
<1>5. \A k \in Prepareds(s) : k[2] \in Nat /\ s.log[k].pp \in Asked
  BY <1>3, <1>4
<1> QED
  BY <1>1, <1>2, <1>5

LEMMA InternalTimerIsTyped ==
    ASSUME MemoryInv, TypeInv, NEW i \in Up, internalTimer(i)
    PROVE  TypeInv' /\ ViewsGrow
<1>1. PICK P \in PreparedLists(server[i]) :
         Becomes(handleTimer([server[i] EXCEPT !.timeouts = @ - 1], P), {})
  BY DEF internalTimer
<1> DEFINE o == server[i]
           s == [o EXCEPT !.timeouts = @ - 1]
           t == handleTimer(s, P)
<1>2. ReplicaOK(o) /\ Core(o) /\ Typed(o)
  BY DEF MemoryInv, TypeInv, ReplicasOK, ReplicaOK
<1>3. /\ IsFiniteSet(DOMAIN P) /\ DOMAIN P \subseteq Int /\ DOMAIN P \subseteq Nat
      /\ \A n \in DOMAIN P : P[n] \in Asked
  BY <1>2, PreparedListsAreFinite, PreparedListsAreTyped
<1>4. o.timeouts > 0 /\ o.view + o.myViewChangeCount < MaxView
  BY DEF internalTimer, Target
<1> HIDE DEF o
<1>5. /\ DOMAIN s = DOMAIN o
      /\ s.id = o.id /\ s.view = o.view /\ s.tSeq = o.tSeq /\ s.h = o.h /\ s.lastcp = o.lastcp
      /\ s.stray = o.stray /\ s.timeouts = o.timeouts - 1 /\ s.myViewChangeCount = o.myViewChangeCount
      /\ s.monitor = o.monitor /\ s.ticking = o.ticking /\ s.changing = o.changing
      /\ s.panicked = o.panicked /\ s.applyQueue = o.applyQueue /\ s.apply = o.apply /\ s.db = o.db
      /\ s.log = o.log /\ s.cps = o.cps /\ s.seqmap = o.seqmap /\ s.vcs = o.vcs /\ s.out = o.out
  BY <1>2 DEF Typed, Counts
<1> HIDE DEF s
<1>6. Later(o, s) /\ ReplicaOK(s)
  BY <1>2, <1>5, OtherFields, SteadyIsLater, LaterOn
<1>7. Onward(o, s)
  <2>1. s.timeouts \in Nat
    BY <1>2, <1>4, <1>5 DEF Typed, Counts
  <2>2. Counts(s)
    BY <1>2, <1>5, <2>1 DEF Typed, Counts
  <2> QED
    BY <1>2, <1>5, <2>2, OthersStayTyped
<1>8. Later(s, t) /\ Onward(s, t)
  <2>1. Typed(s) /\ s.view + s.myViewChangeCount < MaxView
    BY <1>4, <1>5, <1>7 DEF Onward
  <2> QED
    BY <1>3, <1>6, <2>1, HandleTimerIsLater, HandleTimerStaysTyped
<1>9. Becomes(t, {}) /\ UNCHANGED <<client, view, restarts>>
  BY <1>1 DEF internalTimer, t, s, o
<1> HIDE DEF t
<1>10. Later(o, t) /\ Onward(o, t)
  BY <1>2, <1>6, <1>7, <1>8, LaterTwice, OnwardTwice
<1> QED
  BY <1>9, <1>10, BecomesIsTyped DEF o

LEMMA RestartIsTyped ==
    ASSUME MemoryInv, TypeInv, NEW i \in Up, Restart(i)
    PROVE  TypeInv' /\ ViewsGrow
<1> DEFINE d == server[i].db
           s == NewPBFTServer(i, d)
<1>1. d.nonce \in Int /\ d.nonce >= -1 /\ i \in DOMAIN server
  BY UpAreReplicas DEF MemoryInv, ReplicasOK, ReplicaOK, Core
<1>2. Typed(s)
  BY <1>1, NewServerIsTyped
<1>3. server' = [server EXCEPT ![i] = s]
  BY <1>1 DEF Restart
<1> HIDE DEF s
<1>4. /\ \A j \in Up : Typed(server'[j])
      /\ \A j \in Replicas \ Up : server'[j] = NewPBFTServer(j, FirstDb)
  BY <1>2, <1>3, OneReplicaStaysTyped
<1>5. restarts \in Nat /\ restarts' = restarts + 1 /\ restarts' \in 0 .. MaxRestarts
  <2>1. restarts \in 0 .. MaxRestarts /\ restarts < MaxRestarts /\ restarts' = restarts + 1
    BY DEF Restart, TypeInv
  <2> QED
    BY <2>1, PBFTBounds
<1>6. view' \in [Replicas -> Views]
  BY ViewsAreNumbers DEF Restart, TypeInv
<1>7. ASSUME NEW r \in Requests PROVE ClientTyped(client'[r])
  <2> DEFINE c == client[r]
             lost == [c EXCEPT !.stage = "lost", !.ticking = FALSE]
  <2>1. ClientTyped(c) /\ client'[r] \in {c, lost}
    BY DEF TypeInv, Restart
  <2> HIDE DEF c
  <2>2. ClientTyped(lost)
    BY <2>1 DEF ClientTyped
  <2> QED
    BY <2>1, <2>2
<1>8. \A m \in net' : MessageTyped(m)
  BY DEF Restart, TypeInv
<1>9. TypeInv'
  BY <1>4, <1>5, <1>6, <1>7, <1>8 DEF TypeInv
<1>10. ViewsGrow
  BY <1>5 DEF ViewsGrow
<1> QED
  BY <1>9, <1>10

LEMMA NoReplicaMoves ==
    ASSUME TypeInv, UNCHANGED <<server, restarts>>
    PROVE  ViewsGrow
<1>1. \A i \in Up : server[i].view \in Nat
  BY ViewIsANumber DEF TypeInv
<1>2. restarts \in Int
  BY DEF TypeInv
<1> QED
  BY <1>1, <1>2 DEF ViewsGrow

LEMMA SendRequestIsTyped ==
    ASSUME MemoryInv, TypeInv, NEW r \in Requests, sendRequest(r)
    PROVE  TypeInv' /\ ViewsGrow
<1>1. /\ r.client \in Up /\ client[r].sends < MaxSends /\ UNCHANGED <<server, view, restarts>>
      /\ client' = [client EXCEPT ![r].stage = "waiting", ![r].sends = @ + 1, ![r].ticking = TRUE]
  BY DEF sendRequest, Running
<1>2. ASSUME NEW m \in net' PROVE MessageTyped(m)
  <2>1. m \in net \/ \E j \in Up : m = [type |-> "Request", req |-> r, from |-> r.client, to |-> j]
    BY DEF sendRequest
  <2>2. CASE m \in net
    BY <2>2 DEF TypeInv
  <2>3. CASE \E j \in Up : m = [type |-> "Request", req |-> r, from |-> r.client, to |-> j]
    BY <1>1, <2>3 DEF MessageTyped, BodyTyped, Placed, Has
  <2> QED
    BY <2>1, <2>2, <2>3
<1>3. ASSUME NEW q \in Requests PROVE ClientTyped(client'[q])
  <2> DEFINE c == client[r]
             sent == [c EXCEPT !.stage = "waiting", !.sends = @ + 1, !.ticking = TRUE]
  <2>1. ClientTyped(client[q]) /\ client'[q] = IF q = r THEN sent ELSE client[q]
    BY <1>1 DEF TypeInv, MemoryInv, ClientsOK
  <2>2. ClientTyped(c) /\ c.sends < MaxSends
    BY <1>1 DEF TypeInv
  <2> HIDE DEF c
  <2>3. ClientTyped(sent)
    <3>1. c.sends + 1 \in 0 .. MaxSends
      BY <2>2, PBFTBounds DEF ClientTyped
    <3> QED
      BY <2>2, <3>1 DEF ClientTyped
  <2> QED
    BY <2>1, <2>3
<1>4. TypeInv'
  BY <1>1, <1>2, <1>3 DEF TypeInv
<1> QED
  BY <1>1, <1>4, NoReplicaMoves

LEMMA ClientResponseIsTyped ==
    ASSUME MemoryInv, TypeInv, NEW m \in net, ClientResponse(m)
    PROVE  TypeInv' /\ ViewsGrow
<1> DEFINE q == m.req
           res == client[q].res \cup {<<m.rid, m.seq>>}
<1>1. /\ m.to \in Replicas /\ m.view \in Views /\ m.seq \in Nat
      /\ UNCHANGED <<server, restarts>> /\ net' \subseteq net
  <2>1. MessageTyped(m) /\ m.type = "Response"
    BY DEF TypeInv, ClientResponse
  <2> QED
    BY <2>1, UpAreReplicas DEF ClientResponse, MessageTyped, BodyTyped, Placed, Has
<1>2. view' \in [Replicas -> Views]
  <2> DEFINE w == view[m.to]
  <2>1. w \in Views
    BY <1>1 DEF TypeInv
  <2>2. view' = view \/ view' = [view EXCEPT ![m.to] = Max({w, m.view})]
    BY DEF ClientResponse
  <2> HIDE DEF w
  <2>3. Max({w, m.view}) \in {w, m.view}
    <3>1. w \in Nat /\ m.view \in Nat
      BY <1>1, <2>1, ViewsAreNumbers
    <3>2. \E x \in {w, m.view} : \A y \in {w, m.view} : x >= y
      BY <3>1
    <3> QED
      BY <3>2 DEF Max
  <2>4. Max({w, m.view}) \in Views
    BY <1>1, <2>1, <2>3
  <2> QED
    BY <2>2, <2>4 DEF TypeInv
<1>3. ASSUME NEW r \in Requests PROVE ClientTyped(client'[r])
  <2> DEFINE c == client[r]
             told == [c EXCEPT !.stage = "done", !.seq = m.seq, !.res = {}, !.ticking = FALSE]
             heard == [c EXCEPT !.res = res, !.ticking = FALSE]
  <2>1. ClientTyped(c)
    BY DEF TypeInv
  <2>2. client'[r] \in {c, told, heard}
    <3>1. DOMAIN client = Requests
      BY DEF MemoryInv, ClientsOK
    <3>2. \/ client' = client
          \/ client' = [client EXCEPT ![q].stage = "done", ![q].seq = m.seq, ![q].res = {},
                                      ![q].ticking = FALSE]
          \/ client' = [client EXCEPT ![q].res = res, ![q].ticking = FALSE]
      BY DEF ClientResponse
    <3> HIDE DEF q, res
    <3>3. CASE r = q
      BY <3>1, <3>2, <3>3
    <3>4. CASE r # q
      BY <3>1, <3>2, <3>4
    <3> QED
      BY <3>3, <3>4
  <2> HIDE DEF c, res
  <2>3. ClientTyped(told) /\ ClientTyped(heard)
    BY <1>1, <2>1 DEF ClientTyped
  <2> QED
    BY <2>1, <2>2, <2>3
<1>4. TypeInv'
  BY <1>1, <1>2, <1>3 DEF TypeInv
<1> QED
  BY <1>1, <1>4, NoReplicaMoves

LEMMA StepIsTyped ==
    ASSUME MemoryInv, TypeInv, [Next]_vars
    PROVE  TypeInv' /\ ViewsGrow
<1>1. CASE UNCHANGED vars
  <2>1. TypeInv'
    BY <1>1 DEF vars, TypeInv
  <2> QED
    BY <1>1, <2>1, NoReplicaMoves DEF vars
<1>2. CASE Next
  <2>1. ASSUME NEW m \in net, handleReq(m) \/ ClientResponse(m) PROVE TypeInv' /\ ViewsGrow
    BY <2>1, HandleReqIsTyped, ClientResponseIsTyped
  <2>2. ASSUME NEW i \in Up, startViewChange(i) \/ internalTimer(i) \/ Restart(i)
        PROVE  TypeInv' /\ ViewsGrow
    BY <2>2, StartViewChangeIsTyped, InternalTimerIsTyped, RestartIsTyped
  <2>3. ASSUME NEW r \in Requests, sendRequest(r) PROVE TypeInv' /\ ViewsGrow
    BY <2>3, SendRequestIsTyped
  <2> QED
    BY <1>2, <2>1, <2>2, <2>3 DEF Next
<1> QED
  BY <1>1, <1>2

LEMMA InitIsTyped ==
    ASSUME Init
    PROVE  TypeInv
<1>1. \A i \in Replicas : server[i] = NewPBFTServer(i, FirstDb)
  BY DEF Init, FirstDb
<1>2. FirstDb.nonce \in Int /\ FirstDb.nonce >= -1
  BY PBFTNumbers DEF FirstDb
<1>3. \A i \in Up : Typed(server[i])
  BY <1>1, <1>2, NewServerIsTyped, UpAreReplicas
<1>4. view \in [Replicas -> Views] /\ restarts \in 0 .. MaxRestarts
  BY ViewsAreNumbers, PBFTBounds DEF Init
<1>5. \A r \in Requests : ClientTyped(client[r])
  BY PBFTBounds DEF Init, ClientTyped
<1> QED
  BY <1>1, <1>3, <1>4, <1>5 DEF Init, TypeInv

\* The types and what they rest on are kept by every step.
LEMMA TypesAreKept == Spec => []TypeInv
BY MemoryIsKept, InitIsTyped, StepIsTyped, PTL DEF Spec

(* No message, timer, checkpoint or view change takes a replica back to an *)
(* earlier view: only a restart does (stablizeCP, enteringNewView).        *)
THEOREM ViewsNeverGoBack ==
    Spec => [][restarts' = restarts => \A i \in Up : server[i].view <= server'[i].view]_vars
<1>1. /\ MemoryInv /\ TypeInv /\ [Next]_vars
      => [restarts' = restarts => \A i \in Up : server[i].view <= server'[i].view]_vars
  <2> SUFFICES ASSUME MemoryInv, TypeInv, [Next]_vars, restarts' = restarts, NEW i \in Up
               PROVE  server[i].view <= server'[i].view
    OBVIOUS
  <2>1. server'[i].view >= server[i].view
    BY StepIsTyped DEF ViewsGrow
  <2>2. server[i].view \in Nat /\ server'[i].view \in Nat
    BY StepIsTyped, ViewIsANumber DEF TypeInv
  <2> QED
    BY <2>1, <2>2
<1> QED
  BY <1>1, MemoryIsKept, TypesAreKept, PTL DEF Spec

(* The state is well formed, at whatever sizes, through view changes and   *)
(* restarts: an entry goes through its phases in order, the queue holds    *)
(* what is still to be executed (sendCommit, sendReply, execute).          *)
THEOREM TypeCorrectness == Spec => []TypeOK
<1>1. MemoryInv /\ TypeInv => TypeOK
  <2> SUFFICES ASSUME MemoryInv, TypeInv PROVE TypeOK
    OBVIOUS
  <2>1. \A m \in net : m.from \in Replicas /\ m.to \in Up /\ m.from \in Up
    BY UpAreReplicas DEF TypeInv, MessageTyped, Has
  <2>2. ASSUME NEW i \in Up
        PROVE  LET s == server[i]
               IN  /\ s.id = i /\ s.view \in 0 .. MaxView /\ s.tSeq \in Nat /\ s.h \in Nat
                   /\ {s.monitor, s.ticking, s.changing, s.panicked} \subseteq BOOLEAN
                   /\ {s.stray, s.timeouts, s.myViewChangeCount} \subseteq Nat
                   /\ \A k \in DOMAIN s.log : k[1] \in 0 .. MaxView /\ EntryOK(s.log[k])
                   /\ s.view = 0 => \A k \in DOMAIN s.log : k[2] >= s.lastcp
                   /\ \A task \in s.applyQueue : task.seq > s.apply
    <3> DEFINE s == server[i]
    <3>1. Typed(s) /\ s.id = i
      BY DEF TypeInv, MemoryInv, ReplicasOK
    <3> HIDE DEF s
    <3>2. /\ s.view \in 0 .. MaxView /\ s.tSeq \in Nat /\ s.h \in Nat
          /\ s.stray \in Nat /\ s.timeouts \in Nat /\ s.myViewChangeCount \in Nat
      BY <3>1 DEF Typed, Counts, Views
    <3>3. {s.monitor, s.ticking, s.changing, s.panicked} \subseteq BOOLEAN
      BY <3>1 DEF Typed, Counts
    <3>4. \A k \in DOMAIN s.log : k[1] \in 0 .. MaxView /\ EntryOK(s.log[k])
      BY <3>1 DEF Typed, LogTyped, EntryTyped, Views
    <3>5. s.view = 0 => \A k \in DOMAIN s.log : k[2] >= s.lastcp
      BY <3>1 DEF Typed, AboveLast
    <3>6. \A task \in s.applyQueue : task.seq > s.apply
      BY <3>1 DEF Typed, QueueTyped
    <3> QED
      BY <3>1, <3>2, <3>3, <3>4, <3>5, <3>6 DEF s
  <2>3. ASSUME NEW i \in Replicas \ Up
        PROVE  LET s == server[i]
               IN  /\ s.id = i /\ s.view \in 0 .. MaxView /\ s.tSeq \in Nat /\ s.h \in Nat
                   /\ {s.monitor, s.ticking, s.changing, s.panicked} \subseteq BOOLEAN
                   /\ {s.stray, s.timeouts, s.myViewChangeCount} \subseteq Nat
                   /\ \A k \in DOMAIN s.log : k[1] \in 0 .. MaxView /\ EntryOK(s.log[k])
                   /\ s.view = 0 => \A k \in DOMAIN s.log : k[2] >= s.lastcp
                   /\ \A task \in s.applyQueue : task.seq > s.apply
    <3>1. server[i] = NewPBFTServer(i, FirstDb)
      BY DEF TypeInv
    <3>2. FirstDb.nonce + 1 \in Nat /\ 0 \in 0 .. MaxView
      BY PBFTNumbers, PBFTBounds DEF FirstDb
    <3> QED
      BY <3>1, <3>2 DEF NewPBFTServer
  <2>4. \A r \in Requests : /\ client[r].stage \in {"new", "waiting", "done", "lost"}
                            /\ client[r].sends \in 0 .. MaxSends
                            /\ Granted(r) => client[r].seq \in Nat
                            /\ client[r].ticking => client[r].stage = "waiting"
    BY DEF TypeInv, ClientTyped, Granted
  <2>5. restarts \in 0 .. MaxRestarts /\ view \in [Replicas -> 0 .. MaxView]
    BY DEF TypeInv, Views
  <2> QED
    BY <2>1, <2>2, <2>3, <2>4, <2>5 DEF TypeOK
<1> QED
  BY <1>1, MemoryIsKept, TypesAreKept, PTL

-----------------------------------------------------------------------------
(* The first view.  Until a view is changed or a replica restarted,        *)
(* replica 0 numbers the operations.  K is what it gave a Seq to, as pairs *)
(* <<Seq, operation>>, and B what the replicas recorded with               *)
(* NewNonceForOp, as triples <<replica, Seq, operation>>: a vote to commit *)
(* is cast only for what the voter recorded.                               *)
FirstView == restarts = 0 /\ \A i \in Up : server[i].view = 0

IsPair(x)   == x = <<x[1], x[2]>>
IsTriple(x) == x = <<x[1], x[2], x[3]>>

Backers(B, n, op) == {i \in Replicas : <<i, n, op>> \in B}
Agreed(B, n, op)  == Enough(Backers(B, n, op))

\* A Seq has one operation, and a replica records one Seq for an operation.
Sane(B, K) ==
    /\ \A b \in B : IsTriple(b) /\ <<b[2], b[3]>> \in K
    /\ \A b, c \in B : b[1] = c[1] /\ b[3] = c[3] => b[2] = c[2]
    /\ \A x \in K : IsPair(x) /\ x[1] \in Int
    /\ \A x, y \in K : x[1] = y[1] => x[2] = y[2]

Owns(i, nonces, B) ==
    /\ \A t \in nonces : t = <<0, t[2], t[3]>> /\ <<i, t[2], t[3]>> \in B
    /\ \A b \in B : b[1] = i => <<0, b[2], b[3]>> \in nonces

\* What is executed has the votes of enough replicas.
EntrySound(i, n, e, B) ==
    /\ {"pp", "c", "sendReply", "r"} \subseteq DOMAIN e
    /\ e.pp # Nil => <<i, n, e.pp.op>> \in B
    /\ \A vote \in e.c : IsPair(vote) /\ vote[1] \in Replicas /\ <<vote[1], n, vote[2]>> \in B
    /\ e.sendReply => Agreed(B, n, e.pp.op)
    /\ e.r => e.sendReply
LogSound(i, log, B) ==
    \A k \in DOMAIN log : k = <<0, k[2]>> /\ EntrySound(i, k[2], log[k], B)

\* The queue holds one task per Seq, and it is the entry's.
QueueSound(queue, apply, log, B) ==
    /\ \A task \in queue : /\ task.view = 0 /\ task.seq > apply
                           /\ Agreed(B, task.seq, task.req.op)
                           /\ <<0, task.seq>> \in DOMAIN log /\ log[<<0, task.seq>>].sendReply
    /\ \A t, u \in queue : t.seq = u.seq => t = u

ExecutedSound(executed, apply, B) ==
    /\ \E S : executed \in Seq(S)
    /\ \A k \in DOMAIN executed : /\ IsPair(executed[k])
                                  /\ executed[k][1] \in Int /\ executed[k][1] <= apply
                                  /\ Agreed(B, executed[k][1], executed[k][2])
    /\ \A k, l \in DOMAIN executed : k < l => executed[k][1] < executed[l][1]

ProofsInView(cps) ==
    \A n \in DOMAIN cps : "Proof" \in DOMAIN cps[n] /\ \A p \in cps[n].Proof : p.view = 0
Leads(i, tSeq, K) == i = 0 => \A x \in K : x[1] < tSeq

MessageSound(m, B, K) ==
    /\ m.type # "NewView"
    /\ m.type = "PrePrepare" => m.view = 0 /\ <<m.seq, m.req.op>> \in K
    /\ m.type = "Commit" => m.from \in Replicas /\ <<m.from, m.seq, m.digest>> \in B
    /\ m.type = "CheckPoint" => m.proof.view = 0
    /\ m.type = "Response" => Agreed(B, m.seq, m.req.op)
OutSound(out, B, K) == \A m \in out : MessageSound(m, B, K)

Sound(s, B, K) ==
    /\ {"view", "panicked"} \subseteq DOMAIN s /\ {"opNonces", "executed"} \subseteq DOMAIN s.db
    /\ s.id \in Replicas /\ s.view = 0 /\ ~s.panicked
    /\ Owns(s.id, s.db.opNonces, B)
    /\ LogSound(s.id, s.log, B)
    /\ QueueSound(s.applyQueue, s.apply, s.log, B)
    /\ ExecutedSound(s.db.executed, s.apply, B)
    /\ ProofsInView(s.cps)
    /\ Leads(s.id, s.tSeq, K)
    /\ OutSound(s.out, B, K)

\* More is recorded, by one replica, and more numbered, by the leader.
Grown(B, K, C, L, i) ==
    /\ B \subseteq C /\ \A b \in C \ B : b[1] = i
    /\ K \subseteq L /\ (L # K => i = 0)
Follows(t, B, K) == \E C, L : Sane(C, L) /\ Grown(B, K, C, L, t.id) /\ Sound(t, C, L)

LEMMA BackersAreReplicas ==
    ASSUME NEW B, NEW n, NEW op
    PROVE  Backers(B, n, op) \in SUBSET Replicas
BY DEF Backers

(* An operation that enough replicas recorded has a Seq of its own.        *)
LEMMA AgreedIsNumbered ==
    ASSUME NEW B, NEW K, Sane(B, K), NEW n, NEW op, Agreed(B, n, op)
    PROVE  <<n, op>> \in K
<1>1. Backers(B, n, op) # {}
  <2> SUFFICES ASSUME Backers(B, n, op) = {} PROVE FALSE
    OBVIOUS
  <2>1. Cardinality({}) > 2 * f
    BY DEF Agreed, Enough
  <2>2. f \in Nat
    BY PBFTNumbers DEF f
  <2> QED
    BY <2>1, <2>2, FS_EmptySet
<1>2. PICK i \in Replicas : <<i, n, op>> \in B
  BY <1>1 DEF Backers
<1>3. <<i, n, op>>[2] = n /\ <<i, n, op>>[3] = op
  OBVIOUS
<1> QED
  BY <1>2, <1>3 DEF Sane

LEMMA OneOperation ==
    ASSUME NEW B, NEW K, Sane(B, K), NEW n, NEW op1, NEW op2, <<n, op1>> \in K, <<n, op2>> \in K
    PROVE  op1 = op2
<1>1. <<n, op1>>[1] = n /\ <<n, op2>>[1] = n /\ <<n, op1>>[2] = op1 /\ <<n, op2>>[2] = op2
  OBVIOUS
<1> QED
  BY <1>1 DEF Sane

LEMMA OneSeq ==
    ASSUME N # 2, NEW B, NEW K, Sane(B, K), NEW n1, NEW n2, NEW op,
           Agreed(B, n1, op), Agreed(B, n2, op)
    PROVE  n1 = n2
<1>1. Backers(B, n1, op) \cap Backers(B, n2, op) # {}
  BY BackersAreReplicas, QuorumsIntersect DEF Agreed
<1>2. PICK i \in Replicas : <<i, n1, op>> \in B /\ <<i, n2, op>> \in B
  BY <1>1 DEF Backers
<1>3. /\ <<i, n1, op>>[1] = i /\ <<i, n1, op>>[2] = n1 /\ <<i, n1, op>>[3] = op
      /\ <<i, n2, op>>[1] = i /\ <<i, n2, op>>[2] = n2 /\ <<i, n2, op>>[3] = op
  OBVIOUS
<1> QED
  BY <1>2, <1>3 DEF Sane

(* Votes for a digest are votes of replicas that recorded it.              *)
LEMMA VotesAreBackers ==
    ASSUME NEW B, NEW n, NEW e, NEW i, EntrySound(i, n, e, B), committed(e)
    PROVE  Agreed(B, n, e.pp.op)
<1>1. Votes(e.c, e) \subseteq Backers(B, n, e.pp.op)
  BY DEF Votes, Backers, EntrySound
<1>2. IsFiniteSet(Backers(B, n, e.pp.op))
  BY BackersAreReplicas, VoteSets
<1>3. Cardinality(Votes(e.c, e)) <= Cardinality(Backers(B, n, e.pp.op))
  BY <1>1, <1>2, FS_Subset
<1>4. /\ Cardinality(Votes(e.c, e)) \in Nat /\ Cardinality(Backers(B, n, e.pp.op)) \in Nat
      /\ f \in Nat
  BY <1>1, <1>2, FS_Subset, FS_CardinalityType, PBFTNumbers DEF f
<1> QED
  BY <1>3, <1>4 DEF Agreed, Enough, committed

LEMMA AgreedLasts ==
    ASSUME NEW B, NEW C, B \subseteq C, NEW n, NEW op, Agreed(B, n, op)
    PROVE  Agreed(C, n, op)
<1>1. Backers(B, n, op) \subseteq Backers(C, n, op)
  BY DEF Backers
<1>2. IsFiniteSet(Backers(C, n, op))
  BY BackersAreReplicas, VoteSets
<1>3. Cardinality(Backers(B, n, op)) <= Cardinality(Backers(C, n, op))
  BY <1>1, <1>2, FS_Subset
<1>4. /\ Cardinality(Backers(B, n, op)) \in Nat /\ Cardinality(Backers(C, n, op)) \in Nat
      /\ f \in Nat
  BY BackersAreReplicas, VoteSets, PBFTNumbers DEF f
<1> QED
  BY <1>3, <1>4 DEF Agreed, Enough

LEMMA MessageLasts ==
    ASSUME NEW B, NEW K, NEW C, NEW L, B \subseteq C, K \subseteq L, NEW m, MessageSound(m, B, K)
    PROVE  MessageSound(m, C, L)
BY AgreedLasts DEF MessageSound

LEMMA EntryStaysSound ==
    ASSUME NEW B, NEW C, B \subseteq C, NEW i, NEW n, NEW e, EntrySound(i, n, e, B)
    PROVE  EntrySound(i, n, e, C)
BY AgreedLasts DEF EntrySound

LEMMA QueueStaysSound ==
    ASSUME NEW B, NEW C, B \subseteq C, NEW queue, NEW apply, NEW log, QueueSound(queue, apply, log, B)
    PROVE  QueueSound(queue, apply, log, C)
BY AgreedLasts DEF QueueSound

LEMMA ExecutedStaysSound ==
    ASSUME NEW B, NEW C, B \subseteq C, NEW executed, NEW apply, ExecutedSound(executed, apply, B)
    PROVE  ExecutedSound(executed, apply, C)
<1>1. \A n, op : Agreed(B, n, op) => Agreed(C, n, op)
  BY AgreedLasts
<1> QED
  BY <1>1 DEF ExecutedSound

\* What one replica records and numbers leaves the others sound.
LEMMA OthersStaySound ==
    ASSUME NEW B, NEW K, NEW C, NEW L, NEW i, Grown(B, K, C, L, i),
           NEW s, Sound(s, B, K), s.id # i
    PROVE  Sound(s, C, L)
<1>1. B \subseteq C /\ K \subseteq L /\ (\A b \in C \ B : b[1] = i) /\ (L # K => i = 0)
  BY DEF Grown
<1>2. Owns(s.id, s.db.opNonces, C)
  BY <1>1 DEF Sound, Owns
<1>3. LogSound(s.id, s.log, C)
  BY <1>1, EntryStaysSound DEF Sound, LogSound
<1>4. QueueSound(s.applyQueue, s.apply, s.log, C) /\ ExecutedSound(s.db.executed, s.apply, C)
  BY <1>1, QueueStaysSound, ExecutedStaysSound DEF Sound
<1>5. Leads(s.id, s.tSeq, L)
  BY <1>1 DEF Sound, Leads
<1>6. OutSound(s.out, C, L)
  BY <1>1, MessageLasts DEF Sound, OutSound
<1> QED
  BY <1>2, <1>3, <1>4, <1>5, <1>6 DEF Sound

\* The fields that are not listed may change, and something may be sent.
LEMMA OthersFieldsAreFree ==
    ASSUME NEW B, NEW K, NEW s, Sound(s, B, K), NEW t, DOMAIN t = DOMAIN s,
           t.id = s.id, t.view = s.view, t.panicked = s.panicked, t.tSeq = s.tSeq,
           t.apply = s.apply, t.log = s.log, t.cps = s.cps, t.applyQueue = s.applyQueue,
           t.db = s.db, \A m \in t.out : m \in s.out \/ MessageSound(m, B, K)
    PROVE  Sound(t, B, K)
<1>1. OutSound(t.out, B, K)
  BY DEF Sound, OutSound
<1> QED
  BY <1>1 DEF Sound

LEMMA SendsSoundly ==
    ASSUME NEW B, NEW K, NEW s, Core(s), Sound(s, B, K), NEW m, NEW to,
           \A j : MessageSound(Over(m, [from |-> s.id, to |-> j]), B, K)
    PROVE  Sound(Send(s, m, to), B, K)
<1> DEFINE t == Send(s, m, to)
<1>1. /\ DOMAIN t = DOMAIN s /\ t.id = s.id /\ t.view = s.view /\ t.panicked = s.panicked
      /\ t.tSeq = s.tSeq /\ t.apply = s.apply /\ t.log = s.log /\ t.cps = s.cps
      /\ t.applyQueue = s.applyQueue /\ t.db = s.db
      /\ \A x \in t.out : x \in s.out \/ \E j : x = Over(m, [from |-> s.id, to |-> j])
  <2>1. {"view", "panicked"} \subseteq DOMAIN s
    BY DEF Sound
  <2> QED
    BY <2>1 DEF Send, Core, Fields
<1> HIDE DEF t
<1>2. \A x \in t.out : x \in s.out \/ MessageSound(x, B, K)
  BY <1>1
<1>3. Sound(t, B, K)
  BY <1>1, <1>2, OthersFieldsAreFree
<1> QED
  BY <1>3 DEF t

LEMMA Addressed ==
    ASSUME NEW m, NEW i, NEW j
    PROVE  LET x == Over(m, [from |-> i, to |-> j])
           IN  /\ \A z \in DOMAIN m : x[z] = m[z]
               /\ "from" \notin DOMAIN m => x.from = i
BY OverKeeps DEF Over

LEMMA StopTimerIsSound ==
    ASSUME NEW B, NEW K, NEW s, Sound(s, B, K)
    PROVE  Sound(stopTimer(s), B, K)
<1> DEFINE t == stopTimer(s)
<1>1. /\ DOMAIN t = DOMAIN s /\ t.id = s.id /\ t.view = s.view /\ t.panicked = s.panicked
      /\ t.tSeq = s.tSeq /\ t.apply = s.apply /\ t.log = s.log /\ t.cps = s.cps
      /\ t.applyQueue = s.applyQueue /\ t.db = s.db /\ t.out = s.out
  BY DEF stopTimer
<1> HIDE DEF t
<1>2. Sound(t, B, K)
  BY <1>1, OthersFieldsAreFree
<1> QED
  BY <1>2 DEF t

LEMMA GetsSoundly ==
    ASSUME NEW B, NEW K, NEW s, Sound(s, B, K), NEW n
    PROVE  /\ EntrySound(s.id, n, getEntry(s, 0, n), B)
           /\ \A task \in s.applyQueue : task.seq = n => getEntry(s, 0, n).sendReply
<1> DEFINE key == <<0, n>>
<1>1. key[2] = n
  OBVIOUS
<1> HIDE DEF key
<1>2. getEntry(s, 0, n) = IF key \in DOMAIN s.log THEN s.log[key] ELSE NewEntry
  BY DEF getEntry, key
<1>3. EntrySound(s.id, n, NewEntry, B)
  BY DEF EntrySound, NewEntry
<1>4. key \in DOMAIN s.log => EntrySound(s.id, n, s.log[key], B)
  BY <1>1 DEF Sound, LogSound
<1>5. \A task \in s.applyQueue : task.seq = n => key \in DOMAIN s.log /\ s.log[key].sendReply
  BY DEF Sound, QueueSound, key
<1> QED
  BY <1>2, <1>3, <1>4, <1>5

LEMMA PutsSoundly ==
    ASSUME NEW B, NEW K, NEW s, Core(s), Sound(s, B, K), NEW n, NEW e, EntrySound(s.id, n, e, B),
           getEntry(s, 0, n).sendReply => e.sendReply
    PROVE  /\ Sound(putEntry(s, 0, n, e), B, K)
           /\ getEntry(putEntry(s, 0, n, e), 0, n) = e
<1> DEFINE key == <<0, n>>
           t == putEntry(s, 0, n, e)
<1>1. key = <<0, key[2]>> /\ key[2] = n
  OBVIOUS
<1>2. /\ DOMAIN t = DOMAIN s /\ t.id = s.id /\ t.view = s.view /\ t.panicked = s.panicked
      /\ t.tSeq = s.tSeq /\ t.apply = s.apply /\ t.cps = s.cps
      /\ t.applyQueue = s.applyQueue /\ t.db = s.db /\ t.out = s.out
      /\ t.log = Put(s.log, key, e)
  BY DEF putEntry, Core, Fields
<1>3. getEntry(t, 0, n) = IF key \in DOMAIN t.log THEN t.log[key] ELSE NewEntry
  BY DEF getEntry
<1>4. \A task \in s.applyQueue : task.seq = n => e.sendReply
  BY GetsSoundly
<1> HIDE DEF t
<1>5. /\ DOMAIN t.log = DOMAIN s.log \cup {key}
      /\ \A k \in DOMAIN t.log : t.log[k] = IF k = key THEN e ELSE s.log[k]
  BY <1>2 DEF Put
<1>6. \A task \in s.applyQueue : <<0, task.seq>> = key => task.seq = n
  OBVIOUS
<1> HIDE DEF key
<1>7. LogSound(s.id, t.log, B)
  BY <1>1, <1>5 DEF Sound, LogSound
<1>8. QueueSound(s.applyQueue, s.apply, t.log, B)
  BY <1>4, <1>5, <1>6 DEF Sound, QueueSound
<1>9. Sound(t, B, K)
  BY <1>2, <1>7, <1>8 DEF Sound
<1> QED
  BY <1>3, <1>5, <1>9 DEF t

(* An answer tells what enough replicas recorded.                          *)
LEMMA ReplyIsSound ==
    ASSUME NEW B, NEW K, NEW s, Core(s), Sound(s, B, K), NEW task, Agreed(B, task.seq, task.req.op)
    PROVE  Sound(reply(s, task), B, K) /\ reply(s, task).log = s.log
<1> DEFINE m == Response(s, task)
           to == {task.req.client} \cap Up
<1>1. /\ {"type", "seq", "req"} \subseteq DOMAIN m /\ m.type = "Response"
      /\ m.seq = task.seq /\ m.req = task.req
  BY DEF Response
<1> HIDE DEF m
<1>2. ASSUME NEW j PROVE MessageSound(Over(m, [from |-> s.id, to |-> j]), B, K)
  <2> DEFINE x == Over(m, [from |-> s.id, to |-> j])
  <2>1. x.type = "Response" /\ x.seq = task.seq /\ x.req = task.req
    BY <1>1, Addressed
  <2> HIDE DEF x
  <2>2. MessageSound(x, B, K)
    BY <2>1 DEF MessageSound
  <2> QED
    BY <2>2 DEF x
<1>3. Sound(Send(s, m, to), B, K)
  BY <1>2, SendsSoundly
<1>4. Send(s, m, to).log = s.log
  BY DEF Send, Core, Fields
<1>5. reply(s, task) = IF task.req = NoRequest THEN s ELSE Send(s, m, to)
  BY DEF reply, m
<1> HIDE DEF to
<1> QED
  BY <1>3, <1>4, <1>5

SameReplies(s, t) == /\ DOMAIN t.log = DOMAIN s.log
                     /\ \A k \in DOMAIN t.log : t.log[k].sendReply = s.log[k].sendReply
Replyable(task, s, B) ==
    /\ task.seq \in Int /\ Agreed(B, task.seq, task.req.op)
    /\ <<task.view, task.seq>> \in DOMAIN s.log => s.log[<<task.view, task.seq>>].sendReply

LEMMA ReplyByPendingTaskIsSound ==
    ASSUME NEW B, NEW K, NEW s, Core(s), Sound(s, B, K), NEW task, Replyable(task, s, B)
    PROVE  LET t == replyByPendingTask(task, s)
           IN  Core(t) /\ Sound(t, B, K) /\ SameReplies(s, t)
<1> DEFINE u == UpdateSeq(s, task.seq)
           key == <<task.view, task.seq>>
           log == [k \in DOMAIN u.log |-> IF k = key THEN [u.log[k] EXCEPT !.r = TRUE] ELSE u.log[k]]
           t == [u EXCEPT !.log = log]
<1>1. /\ {"view", "panicked"} \subseteq DOMAIN s /\ {"opNonces", "executed"} \subseteq DOMAIN s.db
      /\ Fields \subseteq DOMAIN s /\ task.seq \in Int
  BY DEF Sound, Core, Replyable
<1>2. /\ DOMAIN u = DOMAIN s /\ u.id = s.id /\ u.view = s.view /\ u.panicked = s.panicked
      /\ u.tSeq = s.tSeq /\ u.apply = s.apply /\ u.log = s.log /\ u.cps = s.cps
      /\ u.applyQueue = s.applyQueue /\ u.out = s.out /\ DOMAIN u.db = DOMAIN s.db
      /\ u.db.opNonces = s.db.opNonces /\ u.db.executed = s.db.executed
  BY <1>1 DEF UpdateSeq, Fields
<1>3. Core(u) /\ u.db.nonce >= task.seq
  BY <1>1, UpdateSeqIsSteady DEF Steady
<1> HIDE DEF u
<1>4. \A k \in DOMAIN log : /\ {"pp", "c", "sendReply", "r"} \subseteq DOMAIN log[k]
                            /\ log[k].pp = s.log[k].pp /\ log[k].c = s.log[k].c
                            /\ log[k].sendReply = s.log[k].sendReply
                            /\ log[k].r => s.log[k].sendReply
  <2>1. \A k \in DOMAIN s.log : /\ {"pp", "c", "sendReply", "r"} \subseteq DOMAIN s.log[k]
                                /\ s.log[k].r => s.log[k].sendReply
    BY DEF Sound, LogSound, EntrySound
  <2>2. key \in DOMAIN s.log => s.log[key].sendReply
    BY DEF Replyable
  <2> HIDE DEF key
  <2> QED
    BY <1>2, <2>1, <2>2
<1>5. DOMAIN log = DOMAIN s.log
  BY <1>2
<1> HIDE DEF log
<1>6. LogSound(s.id, log, B)
  BY <1>4, <1>5 DEF Sound, LogSound, EntrySound
<1>7. QueueSound(s.applyQueue, s.apply, log, B)
  BY <1>4, <1>5 DEF Sound, QueueSound
<1>8. /\ DOMAIN t = DOMAIN s /\ t.id = s.id /\ t.view = s.view /\ t.panicked = s.panicked
      /\ t.tSeq = s.tSeq /\ t.apply = s.apply /\ t.log = log /\ t.cps = s.cps
      /\ t.applyQueue = s.applyQueue /\ t.out = s.out /\ t.db = u.db
  BY <1>1, <1>2 DEF Fields
<1>9. t = [UpdateSeq(s, task.seq) EXCEPT
                 !.log = [k \in DOMAIN @ |-> IF k = <<task.view, task.seq>>
                                             THEN [@[k] EXCEPT !.r = TRUE] ELSE @[k]]]
  BY DEF t, log, u
<1> HIDE DEF t
<1>10. Sound(t, B, K)
  BY <1>2, <1>6, <1>7, <1>8 DEF Sound
<1>11. SameReplies(s, t)
  BY <1>4, <1>5, <1>8 DEF SameReplies
<1>12. Core(t)
  <2>1. EntriesOK(log, u.db.nonce)
    <3>1. \A k \in DOMAIN log : log[k] = u.log[k] \/ k = key
      BY DEF log
    <3>2. key[2] = task.seq
      OBVIOUS
    <3> HIDE DEF key
    <3>3. DOMAIN log = DOMAIN u.log
      BY DEF log
    <3> QED
      BY <1>3, <1>4, <3>1, <3>2, <3>3 DEF Core, EntriesOK
  <2>2. t.seqmap = u.seqmap /\ t.vcs = u.vcs /\ DOMAIN t = DOMAIN u
    BY <1>3 DEF t, Core, Fields
  <2> QED
    BY <1>2, <1>3, <1>8, <2>1, <2>2 DEF Core, Honest
<1>13. replyByPendingTask(task, s) = reply(t, task)
  BY <1>9 DEF replyByPendingTask
<1>14. Sound(reply(t, task), B, K) /\ reply(t, task).log = t.log
  BY <1>10, <1>12, ReplyIsSound DEF Replyable
<1>15. Core(reply(t, task))
  BY <1>1, <1>3, <1>8, <1>12, ReplyIsSteady DEF Steady
<1> QED
  BY <1>11, <1>13, <1>14, <1>15 DEF SameReplies

\* A context is a replica before the fold, with B and K.
Answered(x, t) == Core(t) /\ Sound(t, x.B, x.K) /\ SameReplies(x.s, t)
Answering(x, task, t) == replyByPendingTask(task, t)
Answers == INSTANCE Folds_proofs WITH Op <- Answering, Good <- Answered

LEMMA RepliesAreSound ==
    ASSUME NEW B, NEW K, NEW s, Core(s), Sound(s, B, K),
           NEW S, IsFiniteSet(S), \A task \in S : Replyable(task, s, B)
    PROVE  Sound(FoldSet(replyByPendingTask, s, S), B, K)
<1> DEFINE x == [s |-> s, B |-> B, K |-> K]
<1>1. x.s = s /\ x.B = B /\ x.K = K
  OBVIOUS
<1> HIDE DEF x
<1>2. FoldSet(replyByPendingTask, s, S) = Answers!Fold(x, s, S)
  BY DEF FoldSet, MapThenFoldSet, Answers!Fold, Answers!Defines, Answers!First, Answering
<1>3. \A task \in S : \A t : Answered(x, t) => Answered(x, Answering(x, task, t))
  <2> SUFFICES ASSUME NEW task \in S, NEW t, Answered(x, t)
               PROVE  Answered(x, replyByPendingTask(task, t))
    BY DEF Answering
  <2>1. Core(t) /\ Sound(t, B, K) /\ SameReplies(s, t)
    BY <1>1 DEF Answered
  <2>2. Replyable(task, t, B)
    BY <2>1 DEF Replyable, SameReplies
  <2> DEFINE u == replyByPendingTask(task, t)
  <2>3. Core(u) /\ Sound(u, B, K) /\ SameReplies(t, u)
    BY <2>1, <2>2, ReplyByPendingTaskIsSound
  <2> HIDE DEF u
  <2>4. SameReplies(s, u)
    BY <2>1, <2>3 DEF SameReplies
  <2>5. Answered(x, u)
    BY <1>1, <2>3, <2>4 DEF Answered
  <2> QED
    BY <2>5 DEF u
<1>4. Answered(x, s)
  BY <1>1 DEF Answered, SameReplies
<1>5. Answers!IsFiniteSet(S)
  BY DEF IsFiniteSet, Answers!IsFiniteSet
<1>6. Answered(x, Answers!Fold(x, s, S))
  BY <1>3, <1>4, <1>5, Answers!FoldKeeps
<1> QED
  BY <1>1, <1>2, <1>6 DEF Answered

(* A checkpoint that becomes stable drops what lies before it, and of the  *)
(* queue what it answers.                                                  *)
LEMMA StablizeCPIsSound ==
    ASSUME NEW B, NEW K, NEW s, Core(s), Sound(s, B, K), NEW n \in DOMAIN s.cps,
           NEW p, p.view = 0
    PROVE  Sound(stablizeCP(s, n, p), B, K)
<1> DEFINE t2 == removeOldLog(s, n)
           cps == [k \in {j \in DOMAIN t2.cps : j >= n} |->
                      IF k = n THEN Stabilized(t2.cps[k], p) ELSE t2.cps[k]]
           seqmap == [op \in {o \in DOMAIN t2.seqmap : t2.seqmap[o] > n - 2 * CheckpointDiv}
                         |-> t2.seqmap[op]]
           queue == {task \in t2.applyQueue : task.seq > n}
           u == [t2 EXCEPT
                   !.cps = cps,
                   !.apply = Max({@, n}),
                   !.state = <<[seq |-> n, digest |-> p.digest]>> \o removeOldState(s, n),
                   !.seqmap = seqmap,
                   !.h = n, !.lastcp = n,
                   !.applyQueue = queue]
<1>1. /\ {"view", "panicked"} \subseteq DOMAIN s /\ Fields \subseteq DOMAIN s
      /\ s.view = 0 /\ n \in Int /\ s.apply \in Int
      /\ IsFiniteSet(s.applyQueue) /\ \A task \in s.applyQueue : task.seq \in Int
  BY DEF Sound, Core
<1>2. stablizeCP(s, n, p) = FoldSet(replyByPendingTask, u, s.applyQueue \ u.applyQueue)
  <2>1. ~(p.view > s.view)
    BY <1>1
  <2> QED
    BY <2>1 DEF stablizeCP, u, t2, cps, seqmap, queue
<1>3. /\ DOMAIN t2 = DOMAIN s /\ t2.id = s.id /\ t2.view = s.view /\ t2.panicked = s.panicked
      /\ t2.tSeq = s.tSeq /\ t2.apply = s.apply /\ t2.cps = s.cps /\ t2.seqmap = s.seqmap
      /\ t2.vcs = s.vcs /\ t2.applyQueue = s.applyQueue /\ t2.db = s.db /\ t2.out = s.out
      /\ t2.log = [k \in {j \in DOMAIN s.log : j[2] >= n} |-> s.log[k]]
  BY <1>1 DEF removeOldLog, Fields
<1>4. Core(t2)
  BY RemoveOldLogIsSteady DEF Steady
<1> HIDE DEF t2
<1>5. /\ DOMAIN u = DOMAIN s /\ u.id = s.id /\ u.view = s.view /\ u.panicked = s.panicked
      /\ u.tSeq = s.tSeq /\ u.apply = Max({s.apply, n}) /\ u.cps = cps /\ u.seqmap = seqmap
      /\ u.vcs = s.vcs /\ u.applyQueue = queue /\ u.db = s.db /\ u.out = s.out /\ u.log = t2.log
  BY <1>1, <1>3 DEF Fields
<1>6. u.apply \in Int /\ u.apply >= n /\ u.apply >= s.apply /\ (u.apply = n \/ u.apply = s.apply)
  <2>1. \E x \in {s.apply, n} : \A y \in {s.apply, n} : x >= y
    BY <1>1
  <2>2. Max({s.apply, n}) \in {s.apply, n}
    BY <2>1 DEF Max
  <2>3. Max({s.apply, n}) \in Int /\ Max({s.apply, n}) >= s.apply /\ Max({s.apply, n}) >= n
    BY <1>1, MaxOfTwo
  <2> HIDE DEF u
  <2> QED
    BY <1>5, <2>2, <2>3
<1>7. ProofsInView(cps) /\ (\A k \in DOMAIN cps : k \in Int /\ "Stable" \in DOMAIN cps[k])
  <2>1. /\ "Proof" \in DOMAIN Stabilized(s.cps[n], p)
        /\ "Stable" \in DOMAIN Stabilized(s.cps[n], p)
        /\ Stabilized(s.cps[n], p).Proof = s.cps[n].Proof
    BY DEF Sound, ProofsInView, Stabilized, Core
  <2> QED
    BY <1>3, <2>1 DEF Sound, ProofsInView, Core
<1>8. \A op \in DOMAIN seqmap : seqmap[op] \in Int
  BY <1>3 DEF Core
<1>9. /\ queue \subseteq s.applyQueue /\ \A task \in queue : task.seq > n
      /\ \A task \in s.applyQueue \ queue : ~(task.seq > n)
  BY <1>3
<1> HIDE DEF u, cps, seqmap, queue
<1>10. /\ DOMAIN t2.log \subseteq DOMAIN s.log /\ \A k \in DOMAIN t2.log : t2.log[k] = s.log[k]
       /\ \A k \in DOMAIN s.log : k[2] >= n => k \in DOMAIN t2.log
  BY <1>3
<1>11. LogSound(s.id, t2.log, B)
  BY <1>10 DEF Sound, LogSound
<1>12. QueueSound(queue, u.apply, t2.log, B)
  <2>1. ASSUME NEW task \in queue
        PROVE  <<0, task.seq>> \in DOMAIN t2.log /\ t2.log[<<0, task.seq>>].sendReply
    <3>1. <<0, task.seq>>[2] = task.seq /\ task.seq >= n
      BY <1>1, <1>9
    <3>2. <<0, task.seq>> \in DOMAIN s.log /\ s.log[<<0, task.seq>>].sendReply
      BY <1>9 DEF Sound, QueueSound
    <3> QED
      BY <1>10, <3>1, <3>2
  <2>2. \A task \in queue : task.seq > u.apply
    BY <1>6, <1>9 DEF Sound, QueueSound
  <2> QED
    BY <1>9, <2>1, <2>2 DEF Sound, QueueSound
<1>13. ExecutedSound(s.db.executed, u.apply, B)
  <2>1. \A k \in Int : k <= s.apply => k <= u.apply
    BY <1>1, <1>6
  <2> QED
    BY <2>1 DEF Sound, ExecutedSound
<1>14. Sound(u, B, K)
  BY <1>5, <1>7, <1>11, <1>12, <1>13 DEF Sound
<1>15. Core(u)
  <2>1. IsFiniteSet(queue)
    BY <1>1, <1>9, FS_Subset
  <2> QED
    BY <1>3, <1>4, <1>5, <1>6, <1>7, <1>8, <1>9, <2>1 DEF Core, Honest
<1>16. ASSUME NEW task \in s.applyQueue PROVE Replyable(task, u, B)
  <2>1. /\ task.seq \in Int /\ task.view = 0 /\ Agreed(B, task.seq, task.req.op)
        /\ s.log[<<0, task.seq>>].sendReply
    BY <1>1 DEF Sound, QueueSound
  <2> QED
    BY <1>5, <1>10, <2>1 DEF Replyable
<1>17. IsFiniteSet(s.applyQueue \ u.applyQueue)
  BY <1>1, FS_Subset
<1> QED
  BY <1>2, <1>14, <1>15, <1>16, <1>17, RepliesAreSound

LEMMA CheckpointsMayChange ==
    ASSUME NEW B, NEW K, NEW s, Sound(s, B, K), NEW t, DOMAIN t = DOMAIN s,
           t.id = s.id, t.view = s.view, t.panicked = s.panicked, t.tSeq = s.tSeq,
           t.apply = s.apply, t.log = s.log, t.applyQueue = s.applyQueue,
           t.db = s.db, t.out = s.out, ProofsInView(t.cps)
    PROVE  Sound(t, B, K)
BY DEF Sound

LEMMA GetCheckPointIsSound ==
    ASSUME NEW B, NEW K, NEW s, Core(s), Sound(s, B, K), NEW n
    PROVE  Sound(getCheckPoint(s, n), B, K)
<1> DEFINE t == getCheckPoint(s, n)
           old == IF n \in DOMAIN s.cps THEN s.cps[n]
                  ELSE [Stable |-> FALSE, Digest |-> Nil, Proof |-> {}]
           cp == [old EXCEPT !.Digest = checkPointDigest(s, n)]
<1>1. {"view", "panicked"} \subseteq DOMAIN s /\ Fields \subseteq DOMAIN s /\ ProofsInView(s.cps)
  BY DEF Sound, Core
<1>2. /\ DOMAIN t = DOMAIN s /\ t.id = s.id /\ t.view = s.view /\ t.panicked = s.panicked
      /\ t.tSeq = s.tSeq /\ t.apply = s.apply /\ t.log = s.log
      /\ t.applyQueue = s.applyQueue /\ t.db = s.db /\ t.out = s.out
      /\ t.cps = Put(s.cps, n, cp)
  BY <1>1 DEF getCheckPoint, Fields
<1>3. "Proof" \in DOMAIN cp /\ \A p \in cp.Proof : p.view = 0
  BY <1>1 DEF ProofsInView
<1> HIDE DEF t, cp
<1>4. ProofsInView(t.cps)
  BY <1>1, <1>2, <1>3 DEF ProofsInView, Put
<1>5. Sound(t, B, K)
  BY <1>2, <1>4, CheckpointsMayChange
<1> QED
  BY <1>5 DEF t

LEMMA CheckPointIsSound ==
    ASSUME NEW B, NEW K, NEW s, ReplicaOK(s), Sound(s, B, K), NEW n \in Int, NEW p, p.view = 0
    PROVE  Sound(CheckPoint(s, n, p), B, K)
<1> DEFINE t == getCheckPoint(s, n)
           u == [t EXCEPT !.cps[n].Proof = @ \cup {p}]
           agreed == {q \in u.cps[n].Proof :
                        /\ Enough({r \in u.cps[n].Proof : r.digest = q.digest})
                        /\ Enough({r \in u.cps[n].Proof : r.view = q.view})}
<1>1. ReplicaOK(t) /\ Core(s) /\ Core(t) /\ n \in DOMAIN t.cps
  BY GetCheckPointIsLater DEF Later, ReplicaOK
<1>2. Sound(t, B, K)
  BY <1>1, GetCheckPointIsSound
<1> HIDE DEF t
<1>3. {"view", "panicked"} \subseteq DOMAIN t /\ Fields \subseteq DOMAIN t /\ ProofsInView(t.cps)
  BY <1>1, <1>2 DEF Sound, Core
<1>4. /\ DOMAIN u = DOMAIN t /\ u.id = t.id /\ u.view = t.view /\ u.panicked = t.panicked
      /\ u.tSeq = t.tSeq /\ u.apply = t.apply /\ u.log = t.log
      /\ u.applyQueue = t.applyQueue /\ u.db = t.db /\ u.out = t.out
      /\ u.seqmap = t.seqmap /\ u.vcs = t.vcs
      /\ DOMAIN u.cps = DOMAIN t.cps /\ \A k \in DOMAIN t.cps : DOMAIN u.cps[k] = DOMAIN t.cps[k]
      /\ \A k \in DOMAIN t.cps \ {n} : u.cps[k] = t.cps[k]
      /\ u.cps[n].Stable = t.cps[n].Stable /\ u.cps[n].Proof = t.cps[n].Proof \cup {p}
  BY <1>1, <1>3 DEF Fields, ProofsInView
<1> HIDE DEF u
<1>5. ProofsInView(u.cps)
  BY <1>1, <1>3, <1>4 DEF ProofsInView
<1>6. Sound(u, B, K)
  BY <1>2, <1>4, <1>5, CheckpointsMayChange
<1>7. Core(u) /\ n \in DOMAIN u.cps
  BY <1>1, <1>4 DEF Core, Honest
<1>8. ASSUME agreed # {} PROVE Sound(stablizeCP(u, n, CHOOSE q \in agreed : TRUE), B, K)
  <2>1. (CHOOSE q \in agreed : TRUE) \in agreed
    BY <1>8
  <2> DEFINE q == CHOOSE q \in agreed : TRUE
  <2>2. q.view = 0
    BY <1>5, <1>7, <2>1 DEF ProofsInView
  <2> HIDE DEF q
  <2>3. Sound(stablizeCP(u, n, q), B, K)
    BY <1>6, <1>7, <2>2, StablizeCPIsSound
  <2> QED
    BY <2>3 DEF q
<1>9. CheckPoint(s, n, p) = IF tooOld(s, n) THEN s
                            ELSE IF t.cps[n].Stable THEN t
                            ELSE IF agreed = {} THEN u ELSE stablizeCP(u, n, CHOOSE q \in agreed : TRUE)
  BY DEF CheckPoint, t, u
<1> HIDE DEF agreed
<1> QED
  BY <1>2, <1>6, <1>8, <1>9

LEMMA StartCheckPointIsSound ==
    ASSUME NEW B, NEW K, NEW s, ReplicaOK(s), Sound(s, B, K), NEW n \in Int,
           \E k \in DOMAIN s.cps \ {n} : s.cps[k].Stable
    PROVE  Sound(startCheckPoint(s, n), B, K)
<1> DEFINE t == getCheckPoint(s, n)
           u == [t EXCEPT !.cps[n].Stable = FALSE]
           p == [rid |-> s.id, digest |-> u.cps[n].Digest, view |-> s.view]
           m == [type |-> "CheckPoint", seq |-> n, proof |-> p]
           w == Send(u, m, Others(s))
<1>1. /\ ReplicaOK(t) /\ Core(s) /\ Core(t) /\ n \in DOMAIN t.cps
      /\ \E k \in DOMAIN t.cps \ {n} : t.cps[k].Stable
  <2>1. PICK k \in DOMAIN s.cps \ {n} : s.cps[k].Stable
    OBVIOUS
  <2> QED
    BY <2>1, GetCheckPointIsLater DEF Later, ReplicaOK
<1>2. Sound(t, B, K)
  BY <1>1, GetCheckPointIsSound
<1> HIDE DEF t
<1>3. {"view", "panicked"} \subseteq DOMAIN t /\ Fields \subseteq DOMAIN t /\ ProofsInView(t.cps)
  BY <1>1, <1>2 DEF Sound, Core
<1>4. /\ DOMAIN u = DOMAIN t /\ u.id = t.id /\ u.view = t.view /\ u.panicked = t.panicked
      /\ u.tSeq = t.tSeq /\ u.apply = t.apply /\ u.log = t.log
      /\ u.applyQueue = t.applyQueue /\ u.db = t.db /\ u.out = t.out
      /\ u.seqmap = t.seqmap /\ u.vcs = t.vcs
      /\ DOMAIN u.cps = DOMAIN t.cps /\ DOMAIN u.cps[n] = DOMAIN t.cps[n]
      /\ \A k \in DOMAIN t.cps \ {n} : u.cps[k] = t.cps[k]
      /\ ~u.cps[n].Stable /\ u.cps[n].Proof = t.cps[n].Proof
  BY <1>1, <1>3 DEF Fields, ProofsInView, Core
<1> HIDE DEF u
<1>5. ProofsInView(u.cps)
  BY <1>1, <1>3, <1>4 DEF ProofsInView
<1>6. Sound(u, B, K)
  BY <1>2, <1>4, <1>5, CheckpointsMayChange
<1>7. ReplicaOK(u) /\ Core(u)
  <2>1. Later(t, u)
    BY <1>1, <1>4, ChangedCheckpoint
  <2> QED
    BY <2>1, LaterOn
<1>8. p.view = 0 /\ m.type = "CheckPoint" /\ m.proof = p /\ {"type", "proof"} \subseteq DOMAIN m
  BY DEF Sound
<1> HIDE DEF p
<1>9. Sound(w, B, K)
  <2>1. ASSUME NEW j PROVE MessageSound(Over(m, [from |-> u.id, to |-> j]), B, K)
    <3> DEFINE x == Over(m, [from |-> u.id, to |-> j])
    <3> HIDE DEF m
    <3>1. x.type = "CheckPoint" /\ x.proof = p
      BY <1>8, Addressed
    <3> HIDE DEF x
    <3>2. MessageSound(x, B, K)
      BY <1>8, <3>1 DEF MessageSound
    <3> QED
      BY <3>2 DEF x
  <2> HIDE DEF m
  <2> QED
    BY <1>6, <1>7, <2>1, SendsSoundly
<1>10. ReplicaOK(w)
  <2>1. MessageOK(m) /\ Honest(m, u) /\ "seq" \in DOMAIN m
    BY DEF MessageOK, Honest, Numbered
  <2>2. m.type = "CheckPoint" /\ "type" \in DOMAIN m
    OBVIOUS
  <2> HIDE DEF m
  <2>3. Steady(u, w)
    BY <1>7, <2>1, <2>2, Sends
  <2> QED
    BY <1>7, <2>3, SteadyIsLater, LaterOn
<1> HIDE DEF w, m
<1>11. Sound(CheckPoint(w, n, p), B, K)
  BY <1>8, <1>9, <1>10, CheckPointIsSound
<1>12. startCheckPoint(s, n) = IF tooOld(s, n) THEN s ELSE CheckPoint(w, n, p)
  BY DEF startCheckPoint, t, u, w, m, p
<1> QED
  BY <1>11, <1>12

(* What is executed comes after all that was, and before all that waits.   *)
LEMMA ExecuteNextIsSound ==
    ASSUME NEW B, NEW K, NEW s, ReplicaOK(s), Sound(s, B, K), NEW k
    PROVE  Sound(executeNext(k, s), B, K)
<1> DEFINE next == First(s.applyQueue)
           queue == s.applyQueue \ {next}
           done == Append(s.db.executed, <<next.seq, next.req.op>>)
           t == [s EXCEPT !.apply = next.seq,
                          !.state = IF next.req = NoRequest THEN @
                                    ELSE Append(@, [seq |-> next.seq, digest |-> next.req.op]),
                          !.applyQueue = queue,
                          !.db.executed = done]
           u == replyByPendingTask(next, t)
           w == [s EXCEPT !.panicked = TRUE]
<1>1. /\ Core(s) /\ Fields \subseteq DOMAIN s /\ {"view", "panicked"} \subseteq DOMAIN s
      /\ {"nonce", "opNonces", "executed"} \subseteq DOMAIN s.db /\ s.apply \in Int
      /\ IsFiniteSet(s.applyQueue) /\ (\A task \in s.applyQueue : task.seq \in Int)
  BY DEF ReplicaOK, Core, Sound
<1>2. executeNext(k, s) = IF s.applyQueue = {} \/ s.apply + 1 < next.seq THEN s
                          ELSE IF s.apply + 1 > next.seq THEN w
                          ELSE IF next.seq % CheckpointDiv = 0 THEN startCheckPoint(u, next.seq) ELSE u
  BY DEF executeNext, First, next, t, u, w, queue, done
<1> HIDE DEF w
<1>3. CASE s.applyQueue = {} \/ s.apply + 1 < next.seq
  BY <1>2, <1>3
<1>4. CASE s.applyQueue # {} /\ ~(s.apply + 1 < next.seq)
  <2>1. next \in s.applyQueue /\ (\A task \in s.applyQueue : next.seq <= task.seq) /\ next.seq \in Int
    BY <1>1, <1>4, FirstIsFirst
  <2>2. /\ next.seq = s.apply + 1 /\ next.view = 0 /\ Agreed(B, next.seq, next.req.op)
        /\ <<0, next.seq>> \in DOMAIN s.log /\ s.log[<<0, next.seq>>].sendReply
    <3>1. next.seq > s.apply /\ next.view = 0 /\ Agreed(B, next.seq, next.req.op)
          /\ <<0, next.seq>> \in DOMAIN s.log /\ s.log[<<0, next.seq>>].sendReply
      BY <2>1 DEF Sound, QueueSound
    <3> QED
      BY <1>1, <1>4, <2>1, <3>1
  <2> HIDE DEF next
  <2>3. /\ DOMAIN t = DOMAIN s /\ t.id = s.id /\ t.view = s.view /\ t.panicked = s.panicked
        /\ t.tSeq = s.tSeq /\ t.log = s.log /\ t.cps = s.cps /\ t.out = s.out
        /\ t.seqmap = s.seqmap /\ t.vcs = s.vcs
        /\ t.apply = next.seq /\ t.applyQueue = queue /\ DOMAIN t.db = DOMAIN s.db
        /\ t.db.nonce = s.db.nonce /\ t.db.opNonces = s.db.opNonces /\ t.db.executed = done
    BY <1>1 DEF Fields
  <2>4. IsFiniteSet(queue) /\ queue \subseteq s.applyQueue /\ next \notin queue
    BY <1>1, FS_Subset
  <2> HIDE DEF queue
  <2>5. QueueSound(queue, next.seq, s.log, B)
    <3>1. ASSUME NEW task \in queue PROVE task.seq > next.seq
      <4>1. task.seq # next.seq
        BY <2>1, <2>4 DEF Sound, QueueSound
      <4> QED
        BY <1>1, <2>1, <2>4, <4>1
    <3> QED
      BY <2>4, <3>1 DEF Sound, QueueSound
  <2>6. ExecutedSound(done, next.seq, B)
    <3>1. PICK S : s.db.executed \in Seq(S)
      BY DEF Sound, ExecutedSound
    <3> DEFINE x == <<next.seq, next.req.op>>
               e == s.db.executed
    <3>2. IsPair(x) /\ x[1] = next.seq /\ x[2] = next.req.op
      BY DEF IsPair
    <3> HIDE DEF x
    <3>3. /\ done \in Seq(S \cup {x}) /\ DOMAIN e = 1 .. Len(e) /\ Len(e) \in Nat
          /\ DOMAIN done = 1 .. Len(e) + 1 /\ done[Len(e) + 1] = x
          /\ \A i \in DOMAIN e : done[i] = e[i]
      <4>1. e \in Seq(S \cup {x})
        BY <3>1
      <4>2. done = Append(e, x)
        BY DEF x
      <4> HIDE DEF e, done
      <4> QED
        BY <4>1, <4>2
    <3>4. \A i \in DOMAIN e : /\ IsPair(e[i]) /\ e[i][1] \in Int /\ e[i][1] <= s.apply
                              /\ Agreed(B, e[i][1], e[i][2])
      BY DEF Sound, ExecutedSound
    <3>5. \A i, j \in DOMAIN e : i < j => e[i][1] < e[j][1]
      BY DEF Sound, ExecutedSound
    <3> HIDE DEF done, e
    <3>6. ASSUME NEW i \in DOMAIN done
          PROVE  /\ IsPair(done[i]) /\ done[i][1] \in Int /\ done[i][1] <= next.seq
                 /\ Agreed(B, done[i][1], done[i][2])
                 /\ i \in DOMAIN e => done[i][1] < next.seq
      <4>1. CASE i \in DOMAIN e
        BY <1>1, <2>1, <2>2, <3>3, <3>4, <4>1
      <4>2. CASE i = Len(e) + 1
        BY <2>1, <2>2, <3>2, <3>3, <4>2
      <4> QED
        BY <3>3, <4>1, <4>2
    <3>7. ASSUME NEW i \in DOMAIN done, NEW j \in DOMAIN done, i < j
          PROVE  done[i][1] < done[j][1]
      <4>1. i \in DOMAIN e
        BY <3>3, <3>7
      <4>2. CASE j \in DOMAIN e
        BY <3>3, <3>5, <3>7, <4>1, <4>2
      <4>3. CASE j = Len(e) + 1
        BY <3>2, <3>3, <3>6, <4>1, <4>3
      <4> QED
        BY <3>3, <4>2, <4>3
    <3> QED
      BY <3>3, <3>6, <3>7 DEF ExecutedSound
  <2> HIDE DEF t, done
  <2>7. Sound(t, B, K)
    BY <1>1, <2>3, <2>5, <2>6 DEF Sound
  <2>8. Core(t) /\ HasStable(t)
    BY <1>1, <2>1, <2>2, <2>3, <2>4 DEF Core, Honest, ReplicaOK, HasStable
  <2>9. Replyable(next, t, B)
    BY <2>1, <2>2, <2>3 DEF Replyable
  <2>10. Sound(u, B, K)
    BY <2>7, <2>8, <2>9, ReplyByPendingTaskIsSound
  <2>11. Steady(t, u)
    BY <2>1, <2>8, ReplyByPendingTaskIsSteady
  <2> HIDE DEF u
  <2>12. ReplicaOK(u)
    BY <2>8, <2>11, SteadyIsLater, LaterOn DEF ReplicaOK
  <2>13. \E n \in DOMAIN u.cps \ {next.seq} : u.cps[n].Stable
    <3>1. PICK n \in DOMAIN s.cps : s.cps[n].Stable /\ n <= s.apply
      BY DEF ReplicaOK, HasStable
    <3>2. n \in Int /\ n # next.seq
      BY <1>1, <2>2, <3>1 DEF Core
    <3> QED
      BY <2>3, <2>11, <3>1, <3>2 DEF Steady
  <2>14. Sound(startCheckPoint(u, next.seq), B, K)
    BY <2>1, <2>10, <2>12, <2>13, StartCheckPointIsSound
  <2> QED
    BY <1>1, <1>2, <1>4, <2>2, <2>10, <2>14
<1> QED
  BY <1>3, <1>4

Ordered(x, t) == ReplicaOK(t) /\ Sound(t, x.B, x.K)
Orders == INSTANCE Folds_proofs WITH Op <- Executing, Good <- Ordered

(* An operation with enough commits is queued once: its entry says so.     *)
LEMMA ExecuteIsSound ==
    ASSUME NEW B, NEW K, NEW s, ReplicaOK(s), Sound(s, B, K), NEW n \in Int,
           ~getEntry(s, 0, n).sendReply, Agreed(B, n, getEntry(s, 0, n).pp.op)
    PROVE  Sound(execute(s, 0, n), B, K)
<1> DEFINE e0 == getEntry(s, 0, n)
           e == [e0 EXCEPT !.sendReply = TRUE, !.c = {}]
           p == putEntry(s, 0, n, e)
           task == [seq |-> n, view |-> 0, req |-> e0.pp]
           queue == p.applyQueue \cup {task}
           t == [p EXCEPT !.applyQueue = queue]
           w == [s EXCEPT !.panicked = TRUE]
           r == FoldSet(executeNext, t, 1 .. Cardinality(t.applyQueue))
           x == [B |-> B, K |-> K]
<1>1. Core(s) /\ EntrySound(s.id, n, e0, B) /\ \A other \in s.applyQueue : other.seq # n
  BY GetsSoundly DEF ReplicaOK
<1>2. execute(s, 0, n) = IF n <= s.apply THEN s
                         ELSE IF \E other \in s.applyQueue : other.seq = n THEN w ELSE r
  BY DEF execute, w, r, t, queue, p, e, e0, task
<1>3. EntrySound(s.id, n, e, B) /\ e.sendReply
  BY <1>1 DEF EntrySound
<1>4. Entry(e, n, s)
  BY <1>1, GetsAnEntry DEF Entry
<1>5. /\ task.seq = n /\ task.view = 0 /\ Agreed(B, task.seq, task.req.op)
  OBVIOUS
<1> HIDE DEF e0, e, task
<1>6. Sound(p, B, K) /\ getEntry(p, 0, n) = e
  BY <1>1, <1>3, PutsSoundly
<1>7. Steady(s, p) /\ Core(p) /\ p.applyQueue = s.applyQueue /\ ReplicaOK(p)
  <2>1. Steady(s, p)
    BY <1>1, <1>4, PutsAnEntry
  <2>2. p.applyQueue = s.applyQueue
    BY <1>1 DEF putEntry, Core, Fields
  <2> QED
    BY <2>1, <2>2, SteadyIsLater, LaterOn DEF Steady
<1>8. <<0, n>> \in DOMAIN p.log /\ p.log[<<0, n>>].sendReply
  BY <1>1, <1>3 DEF p, putEntry, Put, Core, Fields
<1> HIDE DEF p
<1>9. CASE ~(n <= s.apply)
  <2>1. n > p.apply
    BY <1>7, <1>9 DEF Steady, Core
  <2>2. /\ {"view", "panicked"} \subseteq DOMAIN p /\ Fields \subseteq DOMAIN p
        /\ IsFiniteSet(p.applyQueue) /\ \A other \in p.applyQueue : other.seq \in Int
    BY <1>6, <1>7 DEF Sound, Core
  <2>3. /\ DOMAIN t = DOMAIN p /\ t.id = p.id /\ t.view = p.view /\ t.panicked = p.panicked
        /\ t.tSeq = p.tSeq /\ t.apply = p.apply /\ t.log = p.log /\ t.cps = p.cps
        /\ t.applyQueue = queue /\ t.db = p.db /\ t.out = p.out
        /\ t.seqmap = p.seqmap /\ t.vcs = p.vcs
    BY <2>2 DEF Fields
  <2>4. IsFiniteSet(queue) /\ \A other \in queue : other.seq \in Int
    BY <1>5, <2>2, FS_AddElement
  <2>5. \A other \in queue : other \in p.applyQueue \/ other = task
    OBVIOUS
  <2> HIDE DEF t, queue
  <2>6. QueueSound(queue, p.apply, p.log, B)
    <3>1. \A other \in p.applyQueue : other.seq # n
      BY <1>1, <1>7
    <3> QED
      BY <1>5, <1>6, <1>8, <2>1, <2>5, <3>1 DEF Sound, QueueSound
  <2>7. Sound(t, B, K)
    BY <1>6, <2>3, <2>6 DEF Sound
  <2>8. ReplicaOK(t)
    BY <1>7, <2>3, <2>4 DEF ReplicaOK, Core, Honest, HasStable
  <2>9. x.B = B /\ x.K = K
    OBVIOUS
  <2> HIDE DEF x
  <2>10. ASSUME NEW k, NEW y, Ordered(x, y) PROVE Ordered(x, Executing(x, k, y))
    <3>1. Later(y, executeNext(k, y)) /\ Sound(executeNext(k, y), B, K)
      BY <2>9, <2>10, ExecuteNextIsLater, ExecuteNextIsSound DEF Ordered
    <3> QED
      BY <2>9, <3>1 DEF Ordered, Later, Executing
  <2> DEFINE S == 1 .. Cardinality(t.applyQueue)
  <2>11. Orders!IsFiniteSet(S)
    <3>1. Cardinality(t.applyQueue) \in Nat
      BY <2>3, <2>4, FS_CardinalityType
    <3>2. IsFiniteSet(S)
      BY <3>1, FS_Interval
    <3> QED
      BY <3>2 DEF IsFiniteSet, Orders!IsFiniteSet
  <2>12. r = Orders!Fold(x, t, S)
    BY DEF FoldSet, MapThenFoldSet, Orders!Fold, Orders!Defines, Orders!First, Executing
  <2>13. Ordered(x, t)
    BY <2>7, <2>8, <2>9 DEF Ordered
  <2> HIDE DEF S, r
  <2>14. Ordered(x, Orders!Fold(x, t, S))
    BY <2>10, <2>11, <2>13, Orders!FoldKeeps
  <2> QED
    BY <1>1, <1>2, <1>9, <2>9, <2>12, <2>14 DEF Ordered
<1> HIDE DEF r, w
<1> QED
  BY <1>2, <1>9

LEMMA CommitIsSound ==
    ASSUME NEW B, NEW K, NEW s, ReplicaOK(s), Sound(s, B, K), NEW v, NEW n \in Int, NEW digest,
           NEW rid \in Replicas, <<rid, n, digest>> \in B
    PROVE  Sound(Commit(s, v, n, digest, rid), B, K)
<1> DEFINE t == stopTimer(s)
           e == [getEntry(s, v, n) EXCEPT !.c = @ \cup {<<rid, digest>>}]
           u == putEntry(t, v, n, e)
           w == execute(u, v, n)
<1>1. Commit(s, v, n, digest, rid) =
        IF s.changing THEN s
        ELSE IF e.sendReply \/ ~Fits(s, v, n, digest) THEN t
        ELSE IF e.sendCommit /\ committed(e) THEN w
        ELSE u
  BY DEF Commit, t, e, u, w
<1>2. Sound(t, B, K) /\ ReplicaOK(t) /\ Core(t) /\ t.id = s.id /\ t.log = s.log /\ Core(s)
  <2>1. t.id = s.id /\ t.log = s.log
    BY DEF stopTimer
  <2> QED
    BY <2>1, StopTimerIsSound, StopTimerIsLater, LaterOn, Still
<1>3. Fits(s, v, n, digest) => v = 0
  BY DEF Fits, Sound
<1> HIDE DEF w
<1>4. CASE ~(v = 0 /\ ~e.sendReply)
  BY <1>1, <1>2, <1>3, <1>4
<1>5. CASE v = 0 /\ ~e.sendReply
  <2>1. EntrySound(s.id, n, e, B) /\ e.sendReply = getEntry(s, 0, n).sendReply
        /\ getEntry(t, 0, n).sendReply = getEntry(s, 0, n).sendReply
    <3>1. EntrySound(s.id, n, getEntry(s, 0, n), B)
      BY GetsSoundly
    <3>2. getEntry(t, 0, n) = getEntry(s, 0, n)
      BY <1>2 DEF getEntry
    <3>3. IsPair(<<rid, digest>>) /\ <<rid, digest>>[1] = rid /\ <<rid, digest>>[2] = digest
      BY DEF IsPair
    <3> QED
      BY <1>5, <3>1, <3>2, <3>3 DEF EntrySound
  <2>2. Entry(e, n, s)
    BY <1>2, <1>5, GetsAnEntry DEF Entry
  <2> HIDE DEF t, e
  <2>3. Sound(u, B, K) /\ getEntry(u, 0, n) = e
    BY <1>2, <1>5, <2>1, PutsSoundly
  <2>4. ReplicaOK(u)
    <3>1. Entry(e, n, t)
      BY <1>2, <2>2, StopTimerIsLater, EntryLasts DEF t
    <3> QED
      BY <1>2, <3>1, PutsItLater, LaterOn
  <2> HIDE DEF u
  <2>5. committed(e) => Agreed(B, n, e.pp.op)
    BY <2>1, VotesAreBackers
  <2>6. committed(e) => Sound(w, B, K)
    BY <1>5, <2>3, <2>4, <2>5, ExecuteIsSound DEF w
  <2> QED
    BY <1>1, <1>2, <2>3, <2>6
<1> QED
  BY <1>4, <1>5

LEMMA RecordsSoundly ==
    ASSUME NEW B, NEW K, NEW s, Core(s), Sound(s, B, K), NEW n, NEW op,
           NEW C, C = B \cup {<<s.id, n, op>>}
    PROVE  Sound(NewNonceForOp(s, 0, n, op), C, K)
<1> DEFINE t == NewNonceForOp(s, 0, n, op)
           t3 == <<0, n, op>>
           b3 == <<s.id, n, op>>
<1>1. /\ {"view", "panicked"} \subseteq DOMAIN s /\ Fields \subseteq DOMAIN s
      /\ {"opNonces", "executed"} \subseteq DOMAIN s.db /\ B \subseteq C
  BY DEF Sound, Core
<1>2. /\ DOMAIN t = DOMAIN s /\ t.id = s.id /\ t.view = s.view /\ t.panicked = s.panicked
      /\ t.tSeq = s.tSeq /\ t.apply = s.apply /\ t.log = s.log /\ t.cps = s.cps
      /\ t.applyQueue = s.applyQueue /\ t.out = s.out /\ DOMAIN t.db = DOMAIN s.db
      /\ t.db.opNonces = s.db.opNonces \cup {t3} /\ t.db.executed = s.db.executed
  BY <1>1 DEF NewNonceForOp, Fields
<1>3. t3 = <<0, t3[2], t3[3]>> /\ t3[2] = n /\ t3[3] = op /\ b3[2] = n /\ b3[3] = op
  OBVIOUS
<1>4. Owns(s.id, t.db.opNonces, C)
  <2>1. C = B \cup {b3} /\ <<s.id, t3[2], t3[3]>> = b3 /\ <<0, b3[2], b3[3]>> = t3
    BY <1>3
  <2> HIDE DEF t, t3, b3
  <2> QED
    BY <1>2, <1>3, <2>1 DEF Sound, Owns
<1> HIDE DEF t
<1>5. LogSound(s.id, s.log, C)
  BY <1>1, EntryStaysSound DEF Sound, LogSound
<1>6. QueueSound(s.applyQueue, s.apply, s.log, C) /\ ExecutedSound(s.db.executed, s.apply, C)
  BY <1>1, QueueStaysSound, ExecutedStaysSound DEF Sound
<1>7. OutSound(s.out, C, K)
  BY <1>1, MessageLasts DEF Sound, OutSound
<1>8. Sound(t, C, K)
  BY <1>1, <1>2, <1>4, <1>5, <1>6, <1>7 DEF Sound
<1> QED
  BY <1>8 DEF t

LEMMA SeqmapIsFree ==
    ASSUME NEW B, NEW K, NEW s, Sound(s, B, K), NEW op, NEW n
    PROVE  Sound([s EXCEPT !.seqmap = Put(@, op, n)], B, K)
<1> DEFINE t == [s EXCEPT !.seqmap = Put(@, op, n)]
<1>1. {"view", "panicked"} \subseteq DOMAIN s
  BY DEF Sound
<1>2. /\ DOMAIN t = DOMAIN s /\ t.id = s.id /\ t.view = s.view /\ t.panicked = s.panicked
      /\ t.tSeq = s.tSeq /\ t.apply = s.apply /\ t.log = s.log /\ t.cps = s.cps
      /\ t.applyQueue = s.applyQueue /\ t.db = s.db /\ t.out = s.out
  BY <1>1
<1> HIDE DEF t
<1>3. Sound(t, B, K)
  BY <1>2, OthersFieldsAreFree
<1> QED
  BY <1>3 DEF t

(* A replica commits what it recorded.                                     *)
LEMMA SendCommitIsSound ==
    ASSUME NEW B, NEW K, NEW s, ReplicaOK(s), Sound(s, B, K), NEW n \in Int,
           NEW e, <<s.id, n, e.pp.op>> \in B
    PROVE  Sound(sendCommit(s, 0, n, e), B, K)
<1> DEFINE t0 == NewNonceForOp(s, 0, n, e.pp.op)
           t == [t0 EXCEPT !.seqmap = Put(@, e.pp.op, n)]
           m == [type |-> "Commit", view |-> 0, seq |-> n, digest |-> e.pp.op]
           w == Send(t, m, Others(s))
           u == Commit(w, 0, n, e.pp.op, s.id)
           f1 == [getEntry(u, 0, n) EXCEPT !.sendCommit = TRUE, !.p = {}]
<1>1. sendCommit(s, 0, n, e) = putEntry(u, 0, n, f1)
  BY DEF sendCommit, t0, t, m, w, u, f1
<1>2. Core(s) /\ s.id \in Replicas
  BY DEF ReplicaOK, Sound
<1>3. Sound(t0, B, K) /\ Steady(s, t0) /\ Core(t0)
  <2>1. Sound(t0, B, K)
    <3>1. B = B \cup {<<s.id, n, e.pp.op>>}
      OBVIOUS
    <3> QED
      BY <1>2, <3>1, RecordsSoundly
  <2> QED
    BY <1>2, <2>1, NewNonceForOpIsSteady DEF Steady
<1> HIDE DEF t0
<1>4. Sound(t, B, K) /\ Steady(t0, t) /\ Core(t)
  BY <1>3, SeqmapIsFree, SeqmapIsSteady DEF Steady
<1> HIDE DEF t
<1>5. t.id = s.id
  BY <1>3, <1>4 DEF Steady
<1>6. /\ m.type = "Commit" /\ m.seq = n /\ m.digest = e.pp.op
      /\ {"type", "seq", "digest"} \subseteq DOMAIN m /\ "from" \notin DOMAIN m
      /\ MessageOK(m) /\ Honest(m, t)
  BY DEF MessageOK, Honest, Numbered
<1> HIDE DEF m
<1>7. Sound(w, B, K) /\ Steady(t, w)
  <2>1. ASSUME NEW j PROVE MessageSound(Over(m, [from |-> t.id, to |-> j]), B, K)
    <3> DEFINE x == Over(m, [from |-> t.id, to |-> j])
    <3>1. x.type = "Commit" /\ x.seq = n /\ x.digest = e.pp.op /\ x.from = s.id
      BY <1>5, <1>6, Addressed
    <3> HIDE DEF x
    <3>2. MessageSound(x, B, K)
      BY <1>2, <3>1 DEF MessageSound
    <3> QED
      BY <3>2 DEF x
  <2> QED
    BY <1>4, <1>6, <2>1, SendsSoundly, Sends
<1> HIDE DEF w
<1>8. ReplicaOK(w)
  <2>1. Steady(s, w)
    BY <1>2, <1>3, <1>4, <1>7, SteadyTwice
  <2> QED
    BY <2>1, SteadyIsLater, LaterOn
<1>9. Sound(u, B, K) /\ ReplicaOK(u) /\ Core(u)
  BY <1>2, <1>7, <1>8, CommitIsSound, CommitIsLater, LaterOn
<1> HIDE DEF u
<1>10. EntrySound(u.id, n, f1, B) /\ f1.sendReply = getEntry(u, 0, n).sendReply
  <2>1. EntrySound(u.id, n, getEntry(u, 0, n), B)
    BY <1>9, GetsSoundly
  <2> QED
    BY <2>1 DEF EntrySound
<1> HIDE DEF f1
<1> QED
  BY <1>1, <1>9, <1>10, PutsSoundly

LEMMA PrepareIsSound ==
    ASSUME NEW B, NEW K, NEW s, ReplicaOK(s), Sound(s, B, K), NEW v, NEW n \in Int, NEW digest, NEW rid
    PROVE  Sound(Prepare(s, v, n, digest, rid), B, K)
<1> DEFINE t == stopTimer(s)
           e == [getEntry(s, v, n) EXCEPT !.p = @ \cup {<<rid, digest>>}]
           u == putEntry(t, v, n, e)
           w == [u EXCEPT !.timeouts = @ + 1]
           x == sendCommit(u, v, n, e)
<1>1. Prepare(s, v, n, digest, rid) =
        IF s.changing THEN s
        ELSE IF e.sendCommit \/ ~Fits(s, v, n, digest) THEN t
        ELSE IF e.pp = Nil \/ ~prepared(e) THEN u
        ELSE IF Refuses(s, v, n, e.pp.op) THEN w
        ELSE x
  BY DEF Prepare, t, e, u, w, x
<1>2. Sound(t, B, K) /\ ReplicaOK(t) /\ Core(t) /\ t.id = s.id /\ t.log = s.log /\ Core(s)
  <2>1. t.id = s.id /\ t.log = s.log
    BY DEF stopTimer
  <2> QED
    BY <2>1, StopTimerIsSound, StopTimerIsLater, LaterOn, Still
<1>3. Fits(s, v, n, digest) => v = 0
  BY DEF Fits, Sound
<1> HIDE DEF w, x
<1>4. CASE v # 0
  BY <1>1, <1>2, <1>3, <1>4
<1>5. CASE v = 0
  <2>1. EntrySound(s.id, n, e, B) /\ e.sendReply = getEntry(s, 0, n).sendReply
        /\ getEntry(t, 0, n).sendReply = getEntry(s, 0, n).sendReply
    <3>1. EntrySound(s.id, n, getEntry(s, 0, n), B)
      BY GetsSoundly
    <3>2. getEntry(t, 0, n) = getEntry(s, 0, n)
      BY <1>2 DEF getEntry
    <3> QED
      BY <1>5, <3>1, <3>2 DEF EntrySound
  <2>2. Entry(e, n, s)
    BY <1>2, <1>5, GetsAnEntry DEF Entry
  <2> HIDE DEF t, e
  <2>3. Sound(u, B, K) /\ u.id = s.id /\ Core(u) /\ ReplicaOK(u)
    <3>1. Entry(e, n, t)
      BY <1>2, <2>2, StopTimerIsLater, EntryLasts DEF t
    <3>2. Later(t, u)
      BY <1>2, <3>1, PutsItLater
    <3>3. Sound(u, B, K)
      BY <1>2, <1>5, <2>1, PutsSoundly
    <3> QED
      BY <1>2, <3>2, <3>3, LaterOn DEF Later
  <2> HIDE DEF u
  <2>4. Sound(w, B, K)
    <3>1. {"view", "panicked"} \subseteq DOMAIN u
      BY <2>3 DEF Sound
    <3>2. /\ DOMAIN w = DOMAIN u /\ w.id = u.id /\ w.view = u.view /\ w.panicked = u.panicked
          /\ w.tSeq = u.tSeq /\ w.apply = u.apply /\ w.log = u.log /\ w.cps = u.cps
          /\ w.applyQueue = u.applyQueue /\ w.db = u.db /\ w.out = u.out
      BY <3>1 DEF w
    <3> QED
      BY <2>3, <3>2, OthersFieldsAreFree
  <2>5. e.pp # Nil => Sound(x, B, K)
    <3>1. e.pp # Nil => <<u.id, n, e.pp.op>> \in B
      BY <2>1, <2>3 DEF EntrySound
    <3> QED
      BY <1>5, <2>3, <3>1, SendCommitIsSound DEF x
  <2> QED
    BY <1>1, <1>2, <2>3, <2>4, <2>5
<1> QED
  BY <1>4, <1>5

LEMMA SendsHarmlessly ==
    ASSUME NEW B, NEW K, NEW s, Core(s), Sound(s, B, K), NEW m, NEW to,
           "type" \in DOMAIN m, m.type \in {"Request", "Prepare", "ViewChange"}
    PROVE  Sound(Send(s, m, to), B, K)
<1>1. ASSUME NEW j PROVE MessageSound(Over(m, [from |-> s.id, to |-> j]), B, K)
  <2> DEFINE x == Over(m, [from |-> s.id, to |-> j])
  <2>1. x.type = m.type
    BY Addressed
  <2> HIDE DEF x
  <2>2. MessageSound(x, B, K)
    BY <2>1 DEF MessageSound
  <2> QED
    BY <2>2 DEF x
<1> QED
  BY <1>1, SendsSoundly

LEMMA SoundFollows ==
    ASSUME NEW B, NEW K, Sane(B, K), NEW t, Sound(t, B, K)
    PROVE  Follows(t, B, K)
BY DEF Follows, Grown

(* A replica records a Seq for an operation, unless it has another one.    *)
LEMMA RecordingIsSane ==
    ASSUME NEW B, NEW K, Sane(B, K), NEW s, Sound(s, B, K), NEW n, NEW op, <<n, op>> \in K,
           ~Refuses(s, 0, n, op), NEW C, C = B \cup {<<s.id, n, op>>}
    PROVE  Sane(C, K)
<1> DEFINE b3 == <<s.id, n, op>>
<1>1. IsTriple(b3) /\ b3[1] = s.id /\ b3[2] = n /\ b3[3] = op
  BY DEF IsTriple
<1> HIDE DEF b3
<1>2. C = B \cup {b3}
  BY DEF b3
<1>3. ASSUME NEW b \in B, b[1] = s.id, b[3] = op PROVE b[2] = n
  <2> DEFINE t == <<0, b[2], b[3]>>
  <2>1. t \in s.db.opNonces
    BY <1>3 DEF Sound, Owns
  <2>2. t[1] = 0 /\ t[2] = b[2] /\ t[3] = op
    BY <1>3
  <2> HIDE DEF t
  <2> QED
    BY <2>1, <2>2 DEF Refuses
<1>4. \A b \in C : IsTriple(b) /\ <<b[2], b[3]>> \in K
  BY <1>1, <1>2 DEF Sane
<1>5. \A b, c \in C : b[1] = c[1] /\ b[3] = c[3] => b[2] = c[2]
  BY <1>1, <1>2, <1>3 DEF Sane
<1> QED
  BY <1>4, <1>5 DEF Sane

LEMMA PrePrepareIsSound ==
    ASSUME NEW B, NEW K, Sane(B, K), NEW s, ReplicaOK(s), Sound(s, B, K),
           NEW n \in Int, NEW req, <<n, req.op>> \in K
    PROVE  Follows(PrePrepare(s, 0, n, req), B, K)
<1> DEFINE t0 == NewNonceForOp(s, 0, n, req.op)
           t == stopTimer(t0)
           e == [getEntry(s, 0, n) EXCEPT !.pp = req]
           u == putEntry(t, 0, n, e)
           m == [type |-> "Prepare", view |-> 0, seq |-> n, digest |-> req.op]
           w == Send(u, m, Others(s))
           x == Prepare(w, 0, n, req.op, s.id)
           C == B \cup {<<s.id, n, req.op>>}
<1>1. PrePrepare(s, 0, n, req) = IF s.changing \/ Refuses(s, 0, n, req.op) THEN s
                                 ELSE IF ~Fits(s, 0, n, req.op) THEN t ELSE x
  BY DEF PrePrepare, t0, t, e, u, m, w, x
<1>2. CASE s.changing \/ Refuses(s, 0, n, req.op)
  BY <1>1, <1>2, SoundFollows
<1>3. CASE ~Refuses(s, 0, n, req.op)
  <2>1. Sane(C, K) /\ Grown(B, K, C, K, s.id) /\ <<s.id, n, req.op>> \in C /\ B \subseteq C
    <3>1. Sane(C, K)
      BY <1>3, RecordingIsSane
    <3>2. \A b \in C \ B : b[1] = s.id
      OBVIOUS
    <3> QED
      BY <3>1, <3>2 DEF Grown
  <2>2. Core(s) /\ Sound(t0, C, K) /\ t0.log = s.log /\ t0.id = s.id /\ ReplicaOK(t0)
    <3>1. Core(s) /\ Sound(t0, C, K)
      BY Still, RecordsSoundly
    <3>2. t0.log = s.log /\ t0.id = s.id
      BY DEF NewNonceForOp
    <3> QED
      BY <3>1, <3>2, NewNonceForOpIsSteady, SteadyIsLater, LaterOn
  <2> HIDE DEF t0, C
  <2>3. Sound(t, C, K) /\ t.log = s.log /\ t.id = s.id /\ ReplicaOK(t) /\ Core(t)
    <3>1. t.log = s.log /\ t.id = s.id
      BY <2>2 DEF stopTimer
    <3> QED
      BY <2>2, <3>1, StopTimerIsSound, StopTimerIsLater, LaterOn
  <2>4. Later(s, t)
    BY <2>2, NewNonceForOpIsSteady, SteadyIsLater, StopTimerIsLater, LaterTwice DEF t0
  <2> HIDE DEF t
  <2>5. EntrySound(s.id, n, e, C) /\ e.sendReply = getEntry(t, 0, n).sendReply
    <3> DEFINE e0 == getEntry(s, 0, n)
    <3>1. EntrySound(s.id, n, e0, B)
      BY GetsSoundly
    <3>2. EntrySound(s.id, n, e0, C)
      BY <2>1, <3>1, EntryStaysSound
    <3>3. e0.sendReply => e0.pp.op = req.op
      <4>1. e0.sendReply => <<n, e0.pp.op>> \in K
        BY <3>1, AgreedIsNumbered DEF EntrySound
      <4> QED
        BY <4>1, OneOperation
    <3>4. getEntry(t, 0, n) = e0
      BY <2>3 DEF getEntry
    <3> HIDE DEF e0
    <3>5. e = [e0 EXCEPT !.pp = req]
      BY DEF e0
    <3> HIDE DEF e
    <3> QED
      BY <2>1, <3>2, <3>3, <3>4, <3>5 DEF EntrySound
  <2>6. Entry(e, n, t)
    <3>1. Entry(e, n, s)
      BY <2>2, GetsAnEntry DEF Entry
    <3> QED
      BY <2>2, <2>4, <3>1, EntryLasts
  <2> HIDE DEF e
  <2>7. Sound(u, C, K) /\ ReplicaOK(u) /\ Core(u)
    <3>1. ReplicaOK(u)
      BY <2>3, <2>6, PutsItLater, LaterOn
    <3> QED
      BY <2>3, <2>5, <3>1, PutsSoundly, Still
  <2> HIDE DEF u
  <2>8. Sound(w, C, K) /\ ReplicaOK(w)
    <3>1. MessageOK(m) /\ Honest(m, u) /\ m.type = "Prepare" /\ {"type", "seq"} \subseteq DOMAIN m
      BY DEF MessageOK, Honest, Numbered
    <3> HIDE DEF m
    <3> QED
      BY <2>7, <3>1, SendsHarmlessly, Sends, SteadyIsLater, LaterOn
  <2> HIDE DEF w
  <2>9. Sound(x, C, K)
    BY <2>8, PrepareIsSound
  <2>10. Follows(t, B, K)
    BY <2>1, <2>3 DEF Follows
  <2>11. Later(s, PrePrepare(s, 0, n, req))
    BY PrePrepareIsLater
  <2> HIDE DEF x
  <2>12. PrePrepare(s, 0, n, req) = x => Follows(x, B, K)
    BY <2>1, <2>9, <2>11 DEF Follows, Later
  <2> QED
    BY <1>1, <2>10, <2>12, SoundFollows
<1> QED
  BY <1>2, <1>3

LEMMA ProposeIsSound ==
    ASSUME NEW B, NEW K, Sane(B, K), NEW s, ReplicaOK(s), Sound(s, B, K),
           NEW n \in Int, NEW req, <<n, req.op>> \in K
    PROVE  Follows(propose(s, n, req), B, K)
<1> DEFINE m == [type |-> "PrePrepare", view |-> s.view, seq |-> n, req |-> req]
           t == Send(s, m, Others(s))
<1>1. propose(s, n, req) = PrePrepare(t, s.view, n, req)
  BY DEF propose, t
<1>2. Core(s) /\ s.view = 0
  BY Still DEF Sound
<1>3. /\ m.type = "PrePrepare" /\ m.view = 0 /\ m.seq = n /\ m.req = req
      /\ {"type", "view", "seq", "req"} \subseteq DOMAIN m
      /\ MessageOK(m) /\ Honest(m, s)
  BY <1>2 DEF MessageOK, Honest, Numbered
<1> HIDE DEF m
<1>4. Sound(t, B, K) /\ ReplicaOK(t)
  <2>1. ASSUME NEW j PROVE MessageSound(Over(m, [from |-> s.id, to |-> j]), B, K)
    <3> DEFINE x == Over(m, [from |-> s.id, to |-> j])
    <3>1. x.type = "PrePrepare" /\ x.view = 0 /\ x.seq = n /\ x.req = req
      BY <1>3, Addressed
    <3> HIDE DEF x
    <3>2. MessageSound(x, B, K)
      BY <3>1 DEF MessageSound
    <3> QED
      BY <3>2 DEF x
  <2> QED
    BY <1>2, <1>3, <2>1, SendsSoundly, Sends, SteadyIsLater, LaterOn
<1> HIDE DEF t
<1> QED
  BY <1>1, <1>2, <1>4, PrePrepareIsSound

(* The leader gives an operation the Seq after all that it gave.           *)
LEMMA NumberingIsSane ==
    ASSUME NEW B, NEW K, Sane(B, K), NEW n \in Int, \A x \in K : x[1] < n, NEW op
    PROVE  Sane(B, K \cup {<<n, op>>})
<1> DEFINE y == <<n, op>>
           L == K \cup {y}
<1>1. IsPair(y) /\ y[1] = n
  BY DEF IsPair
<1> HIDE DEF y
<1>2. \A x \in K : x[1] \in Int /\ x[1] # n
  BY DEF Sane
<1>3. \A x \in L : IsPair(x) /\ x[1] \in Int
  BY <1>1 DEF Sane
<1>4. \A x, z \in L : x[1] = z[1] => x[2] = z[2]
  BY <1>1, <1>2 DEF Sane
<1>5. K \subseteq L
  OBVIOUS
<1> HIDE DEF L
<1>6. Sane(B, L)
  BY <1>3, <1>4, <1>5 DEF Sane
<1> QED
  BY <1>6 DEF L, y

LEMMA HandleRequestLeaderIsSound ==
    ASSUME NEW B, NEW K, Sane(B, K), NEW s, ReplicaOK(s), Sound(s, B, K), s.id = 0, NEW req
    PROVE  Follows(handleRequestLeader(s, req), B, K)
<1> DEFINE map == Put(s.seqmap, req.op, s.tSeq)
           t == [s EXCEPT !.seqmap = map, !.tSeq = @ + 1]
           x == propose(t, s.tSeq, req)
           n == s.seqmap[req.op]
           e == getEntry(s, s.view, n)
           y == propose(s, n, e.pp)
           task == [seq |-> n, view |-> s.view, req |-> e.pp]
           z == reply(s, task)
<1>1. handleRequestLeader(s, req) =
        IF req.op \notin DOMAIN s.seqmap
        THEN IF s.tSeq >= H(s) THEN s ELSE x
        ELSE IF n <= s.lastcp \/ e.pp \in {Nil, NoRequest} THEN s
             ELSE IF ~e.sendReply THEN y
             ELSE IF e.r THEN z ELSE s
  BY DEF handleRequestLeader, map, t, x, n, e, y, z, task
<1>2. /\ Core(s) /\ Fields \subseteq DOMAIN s /\ {"view", "panicked"} \subseteq DOMAIN s
      /\ s.tSeq \in Int /\ s.view = 0
  BY Still DEF Core, Sound
<1>3. Follows(x, B, K)
  <2> DEFINE L == K \cup {<<s.tSeq, req.op>>}
  <2>1. \A k \in K : k[1] < s.tSeq
    BY DEF Sound, Leads
  <2>2. Sane(B, L)
    BY <1>2, <2>1, NumberingIsSane
  <2>3. \A op \in DOMAIN map : map[op] \in Int
    BY <1>2 DEF Core, Put
  <2> HIDE DEF map
  <2>4. /\ DOMAIN t = DOMAIN s /\ t.id = s.id /\ t.view = s.view /\ t.panicked = s.panicked
        /\ t.tSeq = s.tSeq + 1 /\ t.apply = s.apply /\ t.log = s.log /\ t.cps = s.cps
        /\ t.applyQueue = s.applyQueue /\ t.db = s.db /\ t.out = s.out
        /\ t.seqmap = map /\ t.vcs = s.vcs
    BY <1>2 DEF Fields
  <2> HIDE DEF t
  <2>5. ReplicaOK(t)
    BY <1>2, <2>3, <2>4 DEF ReplicaOK, Core, Honest, HasStable
  <2>6. <<s.tSeq, req.op>> \in L /\ K \subseteq L /\ \A k \in L : k \in K \/ k = <<s.tSeq, req.op>>
    OBVIOUS
  <2>7. <<s.tSeq, req.op>>[1] = s.tSeq
    OBVIOUS
  <2> HIDE DEF L
  <2>8. \A k \in L : k[1] < t.tSeq
    <3>1. \A k \in K : k[1] \in Int
      BY DEF Sane
    <3> QED
      BY <1>2, <2>1, <2>4, <2>6, <2>7, <3>1
  <2>9. OutSound(t.out, B, L)
    BY <2>4, <2>6, MessageLasts DEF Sound, OutSound
  <2>10. Sound(t, B, L)
    BY <2>4, <2>8, <2>9 DEF Sound, Leads
  <2>11. Follows(x, B, L)
    BY <1>2, <2>2, <2>5, <2>6, <2>10, ProposeIsSound
  <2>12. x.id = 0
    BY <1>2, <2>4, <2>5, ProposeIsLater DEF Later
  <2> HIDE DEF x
  <2>13. PICK C, M : Sane(C, M) /\ Grown(B, L, C, M, x.id) /\ Sound(x, C, M)
    BY <2>11 DEF Follows
  <2>14. Grown(B, K, C, M, x.id)
    BY <2>6, <2>12, <2>13 DEF Grown
  <2> QED
    BY <2>13, <2>14 DEF Follows
<1>4. EntrySound(0, n, e, B)
  BY <1>2, GetsSoundly
<1>5. ASSUME req.op \in DOMAIN s.seqmap, e.pp # Nil PROVE Follows(y, B, K)
  <2>1. n \in Int
    BY <1>2, <1>5 DEF Core
  <2> DEFINE b3 == <<0, n, e.pp.op>>
  <2>2. b3 \in B /\ b3[2] = n /\ b3[3] = e.pp.op
    BY <1>4, <1>5 DEF EntrySound
  <2> HIDE DEF b3, e, n
  <2>3. <<n, e.pp.op>> \in K
    BY <2>2 DEF Sane
  <2> QED
    BY <2>1, <2>3, ProposeIsSound
<1>6. ASSUME e.r PROVE Follows(z, B, K)
  <2>1. Agreed(B, n, e.pp.op)
    BY <1>4, <1>6 DEF EntrySound
  <2>2. task.seq = n /\ task.req = e.pp
    OBVIOUS
  <2> HIDE DEF task, n, e
  <2>3. Sound(z, B, K)
    BY <1>2, <2>1, <2>2, ReplyIsSound
  <2> QED
    BY <2>3, SoundFollows
<1>7. Follows(s, B, K)
  BY SoundFollows
<1> HIDE DEF x, n, e, y, z
<1> QED
  BY <1>1, <1>3, <1>5, <1>6, <1>7

LEMMA RequestIsSound ==
    ASSUME NEW B, NEW K, Sane(B, K), NEW s, ReplicaOK(s), Sound(s, B, K), NEW req
    PROVE  Follows(Request(s, req), B, K)
<1> DEFINE t == [s EXCEPT !.monitor = TRUE, !.ticking = TRUE]
           m == [type |-> "Request", req |-> req]
           u == Send(t, m, {Primary(s.view)} \cap Up)
<1>1. Core(s) /\ s.view = 0 /\ {"view", "panicked"} \subseteq DOMAIN s
  BY Still DEF Sound
<1>2. Primary(s.view) = 0
  <2>1. N \in Nat \ {0}
    BY PBFTNumbers
  <2> QED
    BY <1>1, <2>1 DEF Primary
<1>3. Sound(t, B, K) /\ Core(t)
  <2>1. /\ DOMAIN t = DOMAIN s /\ t.id = s.id /\ t.view = s.view /\ t.panicked = s.panicked
        /\ t.tSeq = s.tSeq /\ t.apply = s.apply /\ t.log = s.log /\ t.cps = s.cps
        /\ t.applyQueue = s.applyQueue /\ t.db = s.db /\ t.out = s.out
        /\ t.seqmap = s.seqmap /\ t.vcs = s.vcs
    BY <1>1
  <2> HIDE DEF t
  <2> QED
    BY <1>1, <2>1, OthersFieldsAreFree, OtherFields DEF Steady
<1> HIDE DEF t
<1>4. Sound(u, B, K)
  <2>1. "type" \in DOMAIN m /\ m.type = "Request"
    OBVIOUS
  <2> HIDE DEF m
  <2> QED
    BY <1>3, <2>1, SendsHarmlessly
<1>5. handleRequestFollower(s, req) = IF s.monitor THEN s ELSE u
  BY DEF handleRequestFollower, t, m, u
<1> HIDE DEF u
<1>6. Follows(s, B, K) /\ Follows(handleRequestFollower(s, req), B, K)
  BY <1>4, <1>5, SoundFollows
<1> QED
  BY <1>2, <1>6, HandleRequestLeaderIsSound DEF Request

\* No field is added to a replica, and entering a view leaves the first one.
Shaped(fields, t) == DOMAIN t = fields
Shaping(fields, task, t) == replyByPendingTask(task, t)
Shapes == INSTANCE Folds_proofs WITH Op <- Shaping, Good <- Shaped

LEMMA ReplyByPendingTaskKeepsFields ==
    ASSUME NEW s, NEW task
    PROVE  DOMAIN replyByPendingTask(task, s) = DOMAIN s
<1>1. \A t : DOMAIN reply(t, task) = DOMAIN t
  BY DEF reply, Send
<1>2. DOMAIN UpdateSeq(s, task.seq) = DOMAIN s
  BY DEF UpdateSeq
<1> QED
  BY <1>1, <1>2 DEF replyByPendingTask

LEMMA StablizeCPKeepsFields ==
    ASSUME NEW s, IsFiniteSet(s.applyQueue), NEW n, NEW p
    PROVE  DOMAIN stablizeCP(s, n, p) = DOMAIN s
<1> DEFINE t == IF p.view > s.view
                THEN stopTimer([s EXCEPT !.view = p.view, !.changing = FALSE]) ELSE s
           u == [removeOldLog(t, n) EXCEPT
                !.cps = [k \in {j \in DOMAIN @ : j >= n} |->
                            IF k = n THEN Stabilized(@[k], p) ELSE @[k]],
                !.apply = Max({@, n}),
                !.state = <<[seq |-> n, digest |-> p.digest]>> \o removeOldState(t, n),
                !.seqmap = [op \in {o \in DOMAIN @ : @[o] > n - 2 * CheckpointDiv} |-> @[op]],
                !.h = n, !.lastcp = n,
                !.applyQueue = {task \in @ : task.seq > n}]
           S == s.applyQueue \ u.applyQueue
<1>1. stablizeCP(s, n, p) = FoldSet(replyByPendingTask, u, S)
  BY DEF stablizeCP, u, t, S
<1>2. DOMAIN u = DOMAIN s
  <2>1. DOMAIN t = DOMAIN s
    BY DEF stopTimer
  <2> HIDE DEF t
  <2>2. DOMAIN removeOldLog(t, n) = DOMAIN s
    BY <2>1 DEF removeOldLog
  <2> QED
    BY <2>2
<1>3. IsFiniteSet(S)
  BY FS_Subset
<1> HIDE DEF u, S
<1>4. FoldSet(replyByPendingTask, u, S) = Shapes!Fold(DOMAIN s, u, S)
  BY DEF FoldSet, MapThenFoldSet, Shapes!Fold, Shapes!Defines, Shapes!First, Shaping
<1>5. \A task \in S : \A x : Shaped(DOMAIN s, x) => Shaped(DOMAIN s, Shaping(DOMAIN s, task, x))
  BY ReplyByPendingTaskKeepsFields DEF Shaped, Shaping
<1>6. Shaped(DOMAIN s, u)
  BY <1>2 DEF Shaped
<1>7. Shapes!IsFiniteSet(S)
  BY <1>3 DEF IsFiniteSet, Shapes!IsFiniteSet
<1>8. Shaped(DOMAIN s, Shapes!Fold(DOMAIN s, u, S))
  BY <1>5, <1>6, <1>7, Shapes!FoldKeeps
<1> QED
  BY <1>1, <1>4, <1>8 DEF Shaped

LEMMA EnteringNewViewChangesView ==
    ASSUME NEW s, "view" \in DOMAIN s, "applyQueue" \in DOMAIN s, IsFiniteSet(s.applyQueue), NEW v, NEW V
    PROVE  "view" \in DOMAIN enteringNewView(s, v, V) /\ enteringNewView(s, v, V).view = v
<1> DEFINE cp  == CHOOSE k \in DOMAIN V : V[k].cp = mins(V) /\ \A j \in 1 .. k - 1 : V[j].cp # mins(V)
           pps == calcPPS(V)
           s2 == [s EXCEPT !.cps = Put(@, mins(V), [Stable |-> TRUE, Digest |-> V[cp].digest,
                                                    Proof |-> {}])]
           p == [digest |-> V[cp].digest, view |-> s.view]
           t == IF mins(V) > stableCheckPoint(s) THEN stablizeCP(s2, mins(V), p) ELSE s
           u == [t EXCEPT
                !.tSeq = maxs(V) + 1,
                !.seqmap = Over([op \in {pps[n].op : n \in DOMAIN pps} |->
                                    Max({n \in DOMAIN pps : pps[n].op = op})], @),
                !.log = Over([k \in {<<v, n>> : n \in DOMAIN pps} |->
                                 [getEntry(t, v, k[2]) EXCEPT !.pp = pps[k[2]]]], @),
                !.view = v, !.changing = FALSE,
                !.vcs = [w \in {x \in DOMAIN @ : x > v} |-> @[w]],
                !.out = @ \cup {[type |-> "Prepare", view |-> v, seq |-> n, digest |-> pps[n].op,
                                 from |-> s.id, to |-> j] : n \in DOMAIN pps, j \in Up}]
<1>1. enteringNewView(s, v, V) = stopTimer(removeOldLog(u, mins(V)))
  BY DEF enteringNewView, u, t, s2, p, pps, cp
<1>2. DOMAIN t = DOMAIN s
  <2>1. DOMAIN s2 = DOMAIN s /\ s2.applyQueue = s.applyQueue
    OBVIOUS
  <2> HIDE DEF s2, p
  <2> QED
    BY <2>1, StablizeCPKeepsFields
<1> HIDE DEF t, pps
<1>3. "view" \in DOMAIN u /\ u.view = v
  BY <1>2
<1> HIDE DEF u
<1> QED
  BY <1>1, <1>3 DEF stopTimer, removeOldLog

LEMMA ViewChangeIsSound ==
    ASSUME NEW B, NEW K, NEW s, Sound(s, B, K), NEW vc,
           "applyQueue" \in DOMAIN s, IsFiniteSet(s.applyQueue)
    PROVE  LET t == ViewChange(s, vc)
           IN  "view" \in DOMAIN t /\ (t.view = 0 => Sound(t, B, K))
<1> DEFINE old == IF vc.view \in DOMAIN s.vcs THEN s.vcs[vc.view] ELSE <<>>
           V == Append(old, vc)
           t == [s EXCEPT !.vcs = Put(@, vc.view, V)]
           m == [type |-> "NewView", view |-> vc.view, V |-> V]
           u == Send(t, m, Others(s))
           w == enteringNewView(u, vc.view, V)
<1>1. ViewChange(s, vc) = IF vc.view <= s.view \/ Primary(vc.view) # s.id THEN s
                          ELSE IF ~EnoughChanges(V) THEN t ELSE w
  BY DEF ViewChange, old, V, t, m, u, w
<1>2. {"view", "panicked"} \subseteq DOMAIN s /\ s.view = 0
  BY DEF Sound
<1> HIDE DEF V
<1>3. Sound(t, B, K)
  <2>1. /\ DOMAIN t = DOMAIN s /\ t.id = s.id /\ t.view = s.view /\ t.panicked = s.panicked
        /\ t.tSeq = s.tSeq /\ t.apply = s.apply /\ t.log = s.log /\ t.cps = s.cps
        /\ t.applyQueue = s.applyQueue /\ t.db = s.db /\ t.out = s.out
    BY <1>2
  <2> HIDE DEF t
  <2> QED
    BY <2>1, OthersFieldsAreFree
<1>4. /\ DOMAIN u = DOMAIN s /\ u.applyQueue = s.applyQueue
      /\ "view" \in DOMAIN t
  BY <1>2 DEF Send
<1> HIDE DEF t, u
<1>5. "view" \in DOMAIN w /\ w.view = vc.view
  BY <1>2, <1>4, EnteringNewViewChangesView
<1>6. w.view = 0 => vc.view <= s.view
  BY <1>2, <1>5
<1> HIDE DEF w
<1> QED
  BY <1>1, <1>2, <1>3, <1>4, <1>5, <1>6

LEMMA HandleTimerIsSound ==
    ASSUME NEW B, NEW K, NEW s, Core(s), Sound(s, B, K), NEW P
    PROVE  LET t == handleTimer(s, P)
           IN  "view" \in DOMAIN t /\ (t.view = 0 => Sound(t, B, K))
<1> DEFINE vc == viewChange(s, P)
           u == [s EXCEPT !.changing = TRUE, !.myViewChangeCount = @ + 1]
           m == [type |-> "ViewChange", vc |-> vc]
           w == Send(u, m, {Primary(vc.view)} \cap Others(s))
           t == ViewChange(w, vc)
           x == [t EXCEPT !.ticking = TRUE, !.monitor = TRUE, !.stray = @ + IF t.ticking THEN 1 ELSE 0]
<1>1. handleTimer(s, P) = x
  BY DEF handleTimer, vc, u, m, w, t, x
<1>2. {"view", "panicked"} \subseteq DOMAIN s
  BY DEF Sound
<1> HIDE DEF vc
<1>3. Sound(u, B, K) /\ Core(u)
  <2>1. /\ DOMAIN u = DOMAIN s /\ u.id = s.id /\ u.view = s.view /\ u.panicked = s.panicked
        /\ u.tSeq = s.tSeq /\ u.apply = s.apply /\ u.log = s.log /\ u.cps = s.cps
        /\ u.applyQueue = s.applyQueue /\ u.db = s.db /\ u.out = s.out
        /\ u.seqmap = s.seqmap /\ u.vcs = s.vcs
    BY <1>2
  <2> HIDE DEF u
  <2> QED
    BY <2>1, OthersFieldsAreFree, OtherFields DEF Steady
<1> HIDE DEF u
<1>4. Sound(w, B, K) /\ "applyQueue" \in DOMAIN w /\ IsFiniteSet(w.applyQueue)
  <2>1. "type" \in DOMAIN m /\ m.type = "ViewChange"
    OBVIOUS
  <2> HIDE DEF m
  <2>2. Sound(w, B, K)
    BY <1>3, <2>1, SendsHarmlessly
  <2>3. DOMAIN w = DOMAIN u /\ w.applyQueue = u.applyQueue
    BY <1>3 DEF Send, Core, Fields
  <2> QED
    BY <1>3, <2>2, <2>3 DEF Core, Fields
<1> HIDE DEF w
<1>5. "view" \in DOMAIN t /\ (t.view = 0 => Sound(t, B, K))
  BY <1>4, ViewChangeIsSound
<1> HIDE DEF t
<1>6. /\ DOMAIN x = DOMAIN t /\ x.id = t.id /\ x.view = t.view
      /\ x.tSeq = t.tSeq /\ x.apply = t.apply /\ x.log = t.log /\ x.cps = t.cps
      /\ x.applyQueue = t.applyQueue /\ x.db = t.db /\ x.out = t.out
  BY <1>5
<1>7. Sound(t, B, K) => x.panicked = t.panicked
  <2>1. Sound(t, B, K) => "panicked" \in DOMAIN t
    BY DEF Sound
  <2> QED
    BY <2>1
<1> HIDE DEF x
<1> QED
  BY <1>1, <1>5, <1>6, <1>7, OthersFieldsAreFree

\* Whatever message a replica handles, while it stays in the first view.
LEMMA HandledIsSound ==
    ASSUME NEW B, NEW K, Sane(B, K), NEW s, ReplicaOK(s), Sound(s, B, K),
           NEW m, MessageOK(m), MessageSound(m, B, K), m.type # "Response",
           [Handled(s, m) EXCEPT !.out = {}].view = 0
    PROVE  Follows(Handled(s, m), B, K)
<1>1. CASE m.type = "Request"
  BY <1>1, RequestIsSound DEF Handled
<1>2. CASE m.type = "PrePrepare"
  BY <1>2, PrePrepareIsSound DEF Handled, MessageOK, MessageSound, Numbered
<1>3. CASE m.type = "Prepare"
  <2>1. m.seq \in Int
    BY <1>3 DEF MessageOK, Numbered
  <2>2. Sound(Prepare(s, m.view, m.seq, m.digest, m.from), B, K)
    BY <2>1, PrepareIsSound
  <2> QED
    BY <1>3, <2>2, SoundFollows DEF Handled
<1>4. CASE m.type = "Commit"
  <2>1. m.seq \in Int /\ m.from \in Replicas /\ <<m.from, m.seq, m.digest>> \in B
    BY <1>4 DEF MessageOK, MessageSound, Numbered
  <2>2. Sound(Commit(s, m.view, m.seq, m.digest, m.from), B, K)
    BY <2>1, CommitIsSound
  <2> QED
    BY <1>4, <2>2, SoundFollows DEF Handled
<1>5. CASE m.type = "CheckPoint"
  <2>1. m.seq \in Int /\ m.proof.view = 0
    BY <1>5 DEF MessageOK, MessageSound, Numbered
  <2>2. Sound(CheckPoint(s, m.seq, m.proof), B, K)
    BY <2>1, CheckPointIsSound
  <2> QED
    BY <1>5, <2>2, SoundFollows DEF Handled
<1>6. CASE m.type = "ViewChange"
  <2> DEFINE t == ViewChange(s, m.vc)
  <2>1. "applyQueue" \in DOMAIN s /\ IsFiniteSet(s.applyQueue)
    BY DEF ReplicaOK, Core, Fields
  <2>2. "view" \in DOMAIN t /\ (t.view = 0 => Sound(t, B, K))
    BY <2>1, ViewChangeIsSound
  <2>3. Handled(s, m) = t
    BY <1>6 DEF Handled
  <2> HIDE DEF t
  <2>4. t.view = 0
    BY <2>2, <2>3
  <2> QED
    BY <2>2, <2>3, <2>4, SoundFollows
<1> QED
  BY <1>1, <1>2, <1>3, <1>4, <1>5, <1>6 DEF MessageOK, MessageSound, Numbered

ClientsSound(B) ==
    \A r \in Requests : /\ \A a \in client[r].res : Agreed(B, a[2], r.op)
                        /\ Granted(r) => Agreed(B, client[r].seq, r.op)
AgreesOn(B, K) == /\ Sane(B, K)
                  /\ \A i \in Up : Sound(server[i], B, K)
                  /\ OutSound(net, B, K)
                  /\ ClientsSound(B)
AgreementInv == \E B, K : AgreesOn(B, K)

\* Clients that learn nothing new.
LEMMA ClientsStaySound ==
    ASSUME MemoryInv, NEW B, ClientsSound(B), NEW C, B \subseteq C, NothingTold
    PROVE  ClientsSound(C)'
BY AgreedLasts DEF ClientsSound, NothingTold, Granted

LEMMA SameClientsAreTold ==
    ASSUME MemoryInv, client' = client
    PROVE  NothingTold
BY DEF MemoryInv, ClientsOK, Granted, NothingTold

\* One replica goes on, and what it sends is on its way.
LEMMA OneReplicaFollows ==
    ASSUME MemoryInv, NEW B, NEW K, AgreesOn(B, K), NEW i \in Up, NEW s, s.id = i, Follows(s, B, K),
           server' = [server EXCEPT ![i] = [s EXCEPT !.out = {}]],
           net' \subseteq net \cup s.out, NothingTold
    PROVE  AgreementInv'
<1> DEFINE t == [s EXCEPT !.out = {}]
<1>1. PICK C, L : Sane(C, L) /\ Grown(B, K, C, L, i) /\ Sound(s, C, L)
  BY DEF Follows
<1>2. Sound(t, C, L)
  <2>1. {"view", "panicked"} \subseteq DOMAIN s
    BY <1>1 DEF Sound
  <2>2. /\ DOMAIN t = DOMAIN s /\ t.id = s.id /\ t.view = s.view /\ t.panicked = s.panicked
        /\ t.tSeq = s.tSeq /\ t.apply = s.apply /\ t.log = s.log /\ t.cps = s.cps
        /\ t.applyQueue = s.applyQueue /\ t.db = s.db /\ \A m \in t.out : m \in s.out
    BY <2>1
  <2> HIDE DEF t
  <2> QED
    BY <1>1, <2>2, OthersFieldsAreFree
<1>3. server' = [server EXCEPT ![i] = t]
  OBVIOUS
<1> HIDE DEF t
<1>4. ASSUME NEW j \in Up PROVE Sound(server'[j], C, L)
  <2>1. i \in DOMAIN server /\ j \in DOMAIN server /\ server[j].id = j
    BY UpAreReplicas DEF MemoryInv, ReplicasOK
  <2>2. CASE j = i
    BY <1>2, <1>3, <2>1, <2>2
  <2>3. CASE j # i
    <3>1. server'[j] = server[j]
      BY <1>3, <2>1, <2>3
    <3> QED
      BY <1>1, <2>1, <2>3, <3>1, OthersStaySound DEF AgreesOn
  <2> QED
    BY <2>2, <2>3
<1>5. OutSound(net', C, L)
  <2>1. \A m \in net : MessageSound(m, C, L)
    BY <1>1, MessageLasts DEF AgreesOn, OutSound, Grown
  <2> QED
    BY <1>1, <2>1 DEF OutSound, Sound
<1>6. ClientsSound(C)'
  BY <1>1, ClientsStaySound DEF AgreesOn, Grown
<1> QED
  BY <1>1, <1>4, <1>5, <1>6 DEF AgreementInv, AgreesOn

LEMMA HandleReqAgrees ==
    ASSUME MemoryInv, AgreementInv, FirstView', NEW m \in net, handleReq(m)
    PROVE  AgreementInv'
<1> DEFINE s == IF Accepted(m) THEN Handled(server[m.to], m) ELSE server[m.to]
<1>1. PICK B, K : AgreesOn(B, K)
  BY DEF AgreementInv
<1>2. /\ m.to \in Up /\ m.type # "Response" /\ Becomes(s, {m}) /\ client' = client
      /\ ReplicaOK(server[m.to]) /\ server[m.to].id = m.to /\ MessageOK(m)
  BY DEF handleReq, Running, MemoryInv, ReplicasOK, AnswersOK
<1>3. Sane(B, K) /\ Sound(server[m.to], B, K) /\ MessageSound(m, B, K)
  BY <1>1, <1>2 DEF AgreesOn, OutSound
<1>4. Later(server[m.to], s)
  BY <1>2, Still, HandledIsLater
<1>5. s.id = m.to
  BY <1>2, <1>4 DEF Later
<1>6. server' = [server EXCEPT ![m.to] = [s EXCEPT !.out = {}]] /\ net' \subseteq net \cup s.out
  BY <1>2, <1>5 DEF Becomes
<1>7. [s EXCEPT !.out = {}].view = 0
  BY <1>2, <1>6, UpAreReplicas DEF FirstView, MemoryInv, ReplicasOK
<1>8. Follows(s, B, K)
  <2>1. CASE Accepted(m)
    BY <1>2, <1>3, <1>7, <2>1, HandledIsSound
  <2>2. CASE ~Accepted(m)
    BY <1>3, <2>2, SoundFollows
  <2> QED
    BY <2>1, <2>2
<1> HIDE DEF s
<1> QED
  BY <1>1, <1>2, <1>5, <1>6, <1>8, SameClientsAreTold, OneReplicaFollows

LEMMA StartViewChangeAgrees ==
    ASSUME MemoryInv, AgreementInv, NEW i \in Up, startViewChange(i)
    PROVE  AgreementInv'
<1>1. PICK B, K : AgreesOn(B, K)
  BY DEF AgreementInv
<1>2. PICK s \in Fired(server[i]) : server' = [server EXCEPT ![i] = [s EXCEPT !.timeouts = @ + 1]]
  BY DEF startViewChange
<1> DEFINE t == [s EXCEPT !.timeouts = @ + 1]
           o == server[i]
<1>3. Sane(B, K) /\ Sound(o, B, K) /\ o.id = i /\ o.out = {} /\ {"view", "panicked", "out"} \subseteq DOMAIN o
  BY <1>1 DEF AgreesOn, Sound, MemoryInv, ReplicasOK, ReplicaOK, Core, Fields
<1>4. /\ DOMAIN t = DOMAIN o /\ t.id = o.id /\ t.view = o.view /\ t.panicked = o.panicked
      /\ t.tSeq = o.tSeq /\ t.apply = o.apply /\ t.log = o.log /\ t.cps = o.cps
      /\ t.applyQueue = o.applyQueue /\ t.db = o.db /\ t.out = o.out
  <2>1. s = [o EXCEPT !.ticking = FALSE] \/ s = [o EXCEPT !.stray = @ - 1]
    BY DEF Fired
  <2> HIDE DEF o
  <2>2. CASE s = [o EXCEPT !.ticking = FALSE]
    BY <2>2
  <2>3. CASE s = [o EXCEPT !.stray = @ - 1]
    BY <2>3
  <2> QED
    BY <2>1, <2>2, <2>3
<1>5. server' = [server EXCEPT ![i] = t] /\ net' = net /\ client' = client
  BY <1>2 DEF startViewChange
<1> HIDE DEF o, t
<1>6. Sound(t, B, K)
  BY <1>3, <1>4, OthersFieldsAreFree
<1>7. t = [t EXCEPT !.out = {}] /\ t.id = i
  <2>1. t = [x \in DOMAIN t |-> t[x]]
    BY DEF t
  <2> QED
    BY <1>3, <1>4, <2>1
<1>8. Follows(t, B, K)
  BY <1>3, <1>6, SoundFollows
<1> QED
  BY <1>1, <1>5, <1>7, <1>8, SameClientsAreTold, OneReplicaFollows

LEMMA InternalTimerAgrees ==
    ASSUME MemoryInv, AgreementInv, FirstView', NEW i \in Up, internalTimer(i)
    PROVE  AgreementInv'
<1>1. PICK B, K : AgreesOn(B, K)
  BY DEF AgreementInv
<1>2. PICK P \in PreparedLists(server[i]) :
         Becomes(handleTimer([server[i] EXCEPT !.timeouts = @ - 1], P), {})
  BY DEF internalTimer
<1> DEFINE o == server[i]
           s == [o EXCEPT !.timeouts = @ - 1]
           t == handleTimer(s, P)
<1>3. /\ ReplicaOK(o) /\ Core(o) /\ o.id = i /\ Sane(B, K) /\ Sound(o, B, K)
      /\ {"view", "panicked"} \subseteq DOMAIN o
  BY <1>1 DEF MemoryInv, ReplicasOK, ReplicaOK, AgreesOn, Sound
<1>4. IsFiniteSet(DOMAIN P) /\ DOMAIN P \subseteq Int
  BY <1>3, PreparedListsAreFinite
<1>5. Becomes(t, {}) /\ client' = client
  BY <1>2 DEF internalTimer
<1> HIDE DEF o
<1>6. ReplicaOK(s) /\ s.id = i /\ Sound(s, B, K)
  <2>1. /\ DOMAIN s = DOMAIN o /\ s.id = o.id /\ s.tSeq = o.tSeq /\ s.seqmap = o.seqmap
        /\ s.apply = o.apply /\ s.log = o.log /\ s.cps = o.cps /\ s.vcs = o.vcs
        /\ s.applyQueue = o.applyQueue /\ s.db = o.db /\ s.out = o.out
        /\ s.view = o.view /\ s.panicked = o.panicked
    OBVIOUS
  <2> HIDE DEF s
  <2>2. Later(o, s)
    BY <1>3, <2>1, OtherFields, SteadyIsLater
  <2>3. Sound(s, B, K)
    BY <1>3, <2>1, OthersFieldsAreFree
  <2> QED
    BY <1>3, <2>2, <2>3 DEF Later
<1> HIDE DEF s
<1>7. t.id = i
  BY <1>4, <1>6, HandleTimerIsLater DEF Later
<1>8. "view" \in DOMAIN t /\ (t.view = 0 => Sound(t, B, K))
  BY <1>6, HandleTimerIsSound DEF ReplicaOK
<1> HIDE DEF t
<1>9. server' = [server EXCEPT ![i] = [t EXCEPT !.out = {}]] /\ net' \subseteq net \cup t.out
  BY <1>5, <1>7 DEF Becomes
<1>10. t.view = 0
  <2>1. [t EXCEPT !.out = {}].view = 0
    BY <1>9, UpAreReplicas DEF FirstView, MemoryInv, ReplicasOK
  <2> QED
    BY <1>8, <2>1
<1>11. Follows(t, B, K)
  BY <1>3, <1>8, <1>10, SoundFollows
<1> QED
  BY <1>1, <1>5, <1>7, <1>9, <1>11, SameClientsAreTold, OneReplicaFollows

LEMMA SendRequestAgrees ==
    ASSUME MemoryInv, AgreementInv, NEW r \in Requests, sendRequest(r)
    PROVE  AgreementInv'
<1>1. PICK B, K : AgreesOn(B, K)
  BY DEF AgreementInv
<1>2. OutSound(net', B, K)
  <2>1. ASSUME NEW m \in net' PROVE MessageSound(m, B, K)
    <3>1. m \in net \/ \E j : m = [type |-> "Request", req |-> r, from |-> r.client, to |-> j]
      BY DEF sendRequest
    <3>2. CASE m \in net
      BY <1>1, <3>2 DEF AgreesOn, OutSound
    <3>3. CASE \E j : m = [type |-> "Request", req |-> r, from |-> r.client, to |-> j]
      BY <3>3 DEF MessageSound
    <3> QED
      BY <3>1, <3>2, <3>3
  <2> QED
    BY <2>1 DEF OutSound
<1>3. NothingTold
  BY DEF sendRequest, MemoryInv, ClientsOK, Granted, NothingTold
<1>4. ClientsSound(B)'
  BY <1>1, <1>3, ClientsStaySound DEF AgreesOn
<1>5. server' = server
  BY DEF sendRequest
<1> QED
  BY <1>1, <1>2, <1>4, <1>5 DEF AgreementInv, AgreesOn

(* f + 1 answers with one Seq: what the client is granted was agreed on.   *)
LEMMA ClientResponseAgrees ==
    ASSUME MemoryInv, AgreementInv, NEW m \in net, ClientResponse(m)
    PROVE  AgreementInv'
<1> DEFINE q == m.req
           res == client[q].res \cup {<<m.rid, m.seq>>}
           same == {a \in res : a[2] = m.seq}
<1>1. PICK B, K : AgreesOn(B, K)
  BY DEF AgreementInv
<1>2. server' = server /\ net' \subseteq net /\ m.type = "Response"
  BY DEF ClientResponse
<1>3. Agreed(B, m.seq, q.op) /\ OutSound(net', B, K)
  BY <1>1, <1>2 DEF AgreesOn, OutSound, MessageSound
<1>4. CASE client' = client
  <2>1. ClientsSound(B)'
    BY <1>1, <1>4, SameClientsAreTold, ClientsStaySound DEF AgreesOn
  <2> QED
    BY <1>1, <1>2, <1>3, <2>1 DEF AgreementInv, AgreesOn
<1>5. CASE client' # client
  <2>1. /\ client[q].stage = "waiting"
        /\ client' = IF EnoughAnswers(same)
                     THEN [client EXCEPT ![q].stage = "done", ![q].seq = m.seq, ![q].res = {},
                                         ![q].ticking = FALSE]
                     ELSE [client EXCEPT ![q].res = res, ![q].ticking = FALSE]
    BY <1>5 DEF ClientResponse
  <2>2. ASSUME NEW r \in Requests
        PROVE  /\ \A a \in client'[r].res : Agreed(B, a[2], r.op)
               /\ client'[r].stage = "done" => Agreed(B, client'[r].seq, r.op)
    <3>1. /\ r \in DOMAIN client /\ {"stage", "res", "seq"} \subseteq DOMAIN client[r]
          /\ \A a \in client[r].res : Agreed(B, a[2], r.op)
          /\ client[r].stage = "done" => Agreed(B, client[r].seq, r.op)
      BY <1>1 DEF MemoryInv, ClientsOK, AgreesOn, ClientsSound, Granted
    <3>2. CASE r = q
      <4>1. \A a \in res : Agreed(B, a[2], q.op)
        BY <1>3, <3>1, <3>2
      <4>2. /\ client'[q].res \in {{}, res}
            /\ client'[q].stage = "done" => client'[q].seq = m.seq
        BY <2>1, <3>1, <3>2
      <4> QED
        BY <1>3, <3>2, <4>1, <4>2
    <3>3. CASE r # q
      <4>1. client'[r] = client[r]
        BY <2>1, <3>1, <3>3
      <4> QED
        BY <3>1, <4>1
    <3> QED
      BY <3>2, <3>3
  <2>3. ClientsSound(B)'
    BY <2>2 DEF ClientsSound, Granted
  <2> QED
    BY <1>1, <1>2, <1>3, <2>3 DEF AgreementInv, AgreesOn
<1> QED
  BY <1>4, <1>5

LEMMA StepAgrees ==
    ASSUME MemoryInv, FirstView, FirstView', AgreementInv, [Next]_vars
    PROVE  AgreementInv'
<1>1. CASE UNCHANGED vars
  BY <1>1 DEF vars, AgreementInv, AgreesOn, ClientsSound, Granted
<1>2. CASE Next
  <2>1. ASSUME NEW m \in net, handleReq(m) \/ ClientResponse(m) PROVE AgreementInv'
    BY <2>1, HandleReqAgrees, ClientResponseAgrees
  <2>2. ASSUME NEW i \in Up, startViewChange(i) \/ internalTimer(i) \/ Restart(i)
        PROVE  AgreementInv'
    <3>1. ~Restart(i)
      BY DEF Restart, FirstView
    <3> QED
      BY <2>2, <3>1, StartViewChangeAgrees, InternalTimerAgrees
  <2>3. ASSUME NEW r \in Requests, sendRequest(r) PROVE AgreementInv'
    BY <2>3, SendRequestAgrees
  <2> QED
    BY <1>2, <2>1, <2>2, <2>3 DEF Next
<1> QED
  BY <1>1, <1>2

LEMMA InitAgrees ==
    ASSUME Init
    PROVE  AgreementInv
<1>1. Sane({}, {})
  BY DEF Sane
<1>2. ASSUME NEW i \in Up PROVE Sound(server[i], {}, {})
  <2> DEFINE d == [nonce |-> InitSeq - 1, opNonces |-> {}, executed |-> <<>>]
             s == NewPBFTServer(i, d)
  <2>1. server[i] = s /\ i \in Replicas
    BY UpAreReplicas DEF Init
  <2>2. d.opNonces = {} /\ d.executed = <<>> /\ {"opNonces", "executed"} \subseteq DOMAIN d
    OBVIOUS
  <2> HIDE DEF d
  <2>3. /\ {"view", "panicked"} \subseteq DOMAIN s /\ s.id = i /\ s.view = 0 /\ ~s.panicked /\ s.db = d
        /\ DOMAIN s.log = {} /\ s.applyQueue = {} /\ s.out = {}
        /\ DOMAIN s.cps = {-1} /\ s.cps[-1] = [Stable |-> TRUE, Digest |-> Nil, Proof |-> {}]
    BY DEF NewPBFTServer
  <2> HIDE DEF s
  <2>4. ProofsInView(s.cps)
    BY <2>3 DEF ProofsInView
  <2>5. ExecutedSound(<<>>, s.apply, {})
    <3>1. <<>> \in Seq({}) /\ DOMAIN <<>> = {}
      OBVIOUS
    <3> QED
      BY <3>1 DEF ExecutedSound
  <2>6. /\ Owns(i, {}, {}) /\ LogSound(i, s.log, {}) /\ QueueSound({}, s.apply, s.log, {})
        /\ Leads(i, s.tSeq, {}) /\ OutSound({}, {}, {})
    BY <2>3 DEF Owns, LogSound, QueueSound, Leads, OutSound
  <2> QED
    BY <2>1, <2>2, <2>3, <2>4, <2>5, <2>6 DEF Sound
<1>3. OutSound(net, {}, {}) /\ ClientsSound({})
  BY DEF Init, OutSound, ClientsSound, Granted
<1> QED
  BY <1>1, <1>2, <1>3 DEF AgreementInv, AgreesOn

\* Who is in view 0 now was so before.
LEMMA FirstViewWasFirst ==
    ASSUME MemoryInv, TypeInv, [Next]_vars, FirstView'
    PROVE  FirstView
<1>1. ViewsGrow
  BY StepIsTyped
<1>2. restarts \in Nat /\ \A i \in Up : server[i].view \in Nat
  BY ViewIsANumber DEF TypeInv
<1>3. restarts = 0 /\ restarts' = restarts
  BY <1>1, <1>2 DEF ViewsGrow, FirstView
<1>4. \A i \in Up : server[i].view <= 0
  BY <1>1, <1>3 DEF ViewsGrow, FirstView
<1>5. \A i \in Up : server[i].view = 0
  BY <1>2, <1>4
<1> QED
  BY <1>3, <1>5 DEF FirstView

LEMMA FirstViewAgreement == Spec => [](FirstView => AgreementInv)
<1>1. MemoryInv /\ TypeInv /\ (FirstView => AgreementInv) /\ [Next]_vars => (FirstView => AgreementInv)'
  BY FirstViewWasFirst, StepAgrees
<1> QED
  BY <1>1, MemoryIsKept, TypesAreKept, InitAgrees, PTL DEF Spec

(* While no view was changed and no replica restarted, two operations are  *)
(* not granted one nonce (assertNotDuplicate): a client is told what a     *)
(* replica executed, a replica executes what enough replicas recorded for  *)
(* the Seq, and these recorded what the leader numbered once.              *)
THEOREM FirstViewGrantsAreDistinct == Spec => [](FirstView => NoDuplicateSeq)
<1>1. AgreementInv => NoDuplicateSeq
  <2> SUFFICES ASSUME AgreementInv, NEW r1 \in Requests, NEW r2 \in Requests,
                      Granted(r1), Granted(r2), client[r1].seq = client[r2].seq
               PROVE  r1.op = r2.op
    BY DEF NoDuplicateSeq
  <2>1. PICK B, K : AgreesOn(B, K)
    BY DEF AgreementInv
  <2>2. /\ Sane(B, K)
        /\ Agreed(B, client[r1].seq, r1.op) /\ Agreed(B, client[r1].seq, r2.op)
    BY <2>1 DEF AgreesOn, ClientsSound
  <2>3. <<client[r1].seq, r1.op>> \in K /\ <<client[r1].seq, r2.op>> \in K
    BY <2>2, AgreedIsNumbered
  <2> QED
    BY <2>2, <2>3, OneOperation
<1> QED
  BY <1>1, FirstViewAgreement, PTL

(* While no view was changed and no replica restarted, all replicas        *)
(* execute in one order, and an operation once (execute, the three         *)
(* phases).  Two notaries are too few: one of them is then enough to       *)
(* commit.                                                                 *)
THEOREM FirstViewSameOrder ==
    ASSUME N # 2
    PROVE  Spec => [](FirstView => SameOrder)
<1>1. AgreementInv => SameOrder
  <2> SUFFICES ASSUME AgreementInv, NEW i \in Up, NEW j \in Up,
                      NEW k \in DOMAIN Executions(i), NEW l \in DOMAIN Executions(j)
               PROVE  LET x == Executions(i)[k]  y == Executions(j)[l]
                      IN  /\ x[1] = y[1] \/ (x[2] = y[2] /\ x[2] # NoOp) => x = y
                          /\ i = j /\ k < l => x[1] < y[1]
    BY DEF SameOrder
  <2>1. PICK B, K : AgreesOn(B, K)
    BY DEF AgreementInv
  <2> DEFINE x == Executions(i)[k]
             y == Executions(j)[l]
  <2>2. /\ Sane(B, K)
        /\ ExecutedSound(Executions(i), server[i].apply, B)
        /\ ExecutedSound(Executions(j), server[j].apply, B)
    BY <2>1 DEF AgreesOn, Sound, Executions
  <2>3. /\ x = <<x[1], x[2]>> /\ y = <<y[1], y[2]>>
        /\ Agreed(B, x[1], x[2]) /\ Agreed(B, y[1], y[2])
        /\ i = j /\ k < l => x[1] < y[1]
    BY <2>2 DEF ExecutedSound, IsPair
  <2> HIDE DEF x, y
  <2>4. ASSUME x[1] = y[1] PROVE x[2] = y[2]
    BY <2>2, <2>3, <2>4, AgreedIsNumbered, OneOperation
  <2>5. ASSUME x[2] = y[2] PROVE x[1] = y[1]
    BY <2>2, <2>3, <2>5, OneSeq
  <2>6. x[1] = y[1] \/ x[2] = y[2] => x = y
    BY <2>3, <2>4, <2>5
  <2> QED
    BY <2>3, <2>6 DEF x, y
<1> QED
  BY <1>1, FirstViewAgreement, PTL

(* While no view was changed and no replica restarted, no replica panics:  *)
(* execute never finds a Seq queued twice or already executed.             *)
THEOREM FirstViewNoPanic == Spec => [](FirstView => NoPanic)
<1>1. AgreementInv /\ MemoryInv => NoPanic
  <2> SUFFICES ASSUME AgreementInv, MemoryInv, NEW i \in Up
               PROVE  /\ ~server[i].panicked
                      /\ \E n \in DOMAIN server[i].cps : server[i].cps[n].Stable
    BY DEF NoPanic
  <2>1. ~server[i].panicked
    BY DEF AgreementInv, AgreesOn, Sound
  <2>2. \E n \in DOMAIN server[i].cps : server[i].cps[n].Stable
    BY DEF MemoryInv, ReplicasOK, ReplicaOK, HasStable
  <2> QED
    BY <2>1, <2>2
<1> QED
  BY <1>1, FirstViewAgreement, MemoryIsKept, PTL
=============================================================================
