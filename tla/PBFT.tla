-------------------------------- MODULE PBFT --------------------------------
(***************************************************************************)
(* One instance of pbft/pbft as service/pbftservice.go runs it: every      *)
(* notary is a replica (PBFTServer.go) and a client (PBFTClient.go), and   *)
(* the replicas agree on the nonce (Seq) of every operation the clients    *)
(* ask a nonce for.  Pre-prepare, prepare, commit, execution in order,     *)
(* checkpoints and view changes are modelled; replicas follow the code.    *)
(*                                                                         *)
(* A replica handles its messages one at a time (Server.loop), and what it *)
(* broadcasts it handles itself before it goes on (broadcast(true, ..)     *)
(* calls handleReq), so a handler is a function from the state of a        *)
(* replica to its next state, which collects in `out` what is sent.        *)
(***************************************************************************)
EXTENDS Integers, FiniteSets, SequencesExt

CONSTANTS
    N,                 \* replicas, numbered 0 .. N-1: len(allNotaries)
    Down,              \* replicas that do not run
    Requests,          \* RequestArgs: an operation and the client that asks
    NoOp,              \* the operation of an empty RequestArgs
    Nil,               \* a nil pointer; the digest of the empty history
    InitSeq,           \* one more than the nonce the databases hold at the start
    CheckpointDiv,     \* checkpointDiv
    Arrives(_),        \* the messages the network may deliver
    Patient,           \* are messages faster than timeouts and new requests?
    MaxView,           \* bound: views
    MaxTimeouts,       \* bound: timer messages waiting at a replica
    MaxSends,          \* bound: how often a client sends a request
    MaxRestarts        \* bound: restarts of replicas

ASSUME PBFTNumbers == /\ N \in Nat \ {0}
                      /\ Down \subseteq 0 .. N - 1
                      /\ InitSeq \in Nat
                      /\ CheckpointDiv \in Nat \ {0, 1}
                      /\ Patient \in BOOLEAN

ASSUME PBFTBounds == MaxView \in Nat /\ MaxSends \in Nat /\ MaxRestarts \in Nat

\* A nil pointer points to no request.
ASSUME NilIsNoRequest == Nil \notin Requests \cup {[op |-> NoOp, client |-> Nil]}

VARIABLES
    server,     \* replica -> Server
    client,     \* request -> what its client knows of it (cEntry)
    view,       \* replica -> Client.view
    net,        \* messages on their way
    restarts    \* restarts so far

vars == <<server, client, view, net, restarts>>

Replicas   == 0 .. N - 1
Up         == Replicas \ Down
f          == N \div 3
Enough(S)  == Cardinality(S) > 2 * f
Primary(v) == v % N

NoRequest == [op |-> NoOp, client |-> Nil]

\* What is new, and what was there before beyond it.
Over(new, old)       == [x \in DOMAIN new \cup DOMAIN old |->
                            IF x \in DOMAIN new THEN new[x] ELSE old[x]]
Put(map, key, value) == [x \in DOMAIN map \cup {key} |-> IF x = key THEN value ELSE map[x]]

-----------------------------------------------------------------------------
(* The state of a replica.  Its db (models/nonce.go) outlives it: the      *)
(* nonce used last, OpNonce, and as a history what it executed, in order.  *)
NewEntry == [pp |-> Nil, p |-> {}, sendCommit |-> FALSE,
             c |-> {}, sendReply |-> FALSE, r |-> FALSE]

NewPBFTServer(id, d) ==
    [id |-> id, tSeq |-> d.nonce + 1, seqmap |-> <<>>, view |-> 0, apply |-> d.nonce,
     log |-> <<>>, h |-> d.nonce + 1, lastcp |-> -1,
     cps |-> [n \in {-1} |-> [Stable |-> TRUE, Digest |-> Nil, Proof |-> {}]],
     monitor |-> FALSE, ticking |-> FALSE, stray |-> 0, timeouts |-> 0,
     changing |-> FALSE, myViewChangeCount |-> 0, vcs |-> <<>>,
     state |-> <<[seq |-> -1, digest |-> Nil]>>, applyQueue |-> {}, panicked |-> FALSE,
     db |-> d, out |-> {}]

H(s)           == s.h + 2 * CheckpointDiv
InWindow(s, n) == s.h <= n /\ n < H(s)

getEntry(s, v, n)    == IF <<v, n>> \in DOMAIN s.log THEN s.log[<<v, n>>] ELSE NewEntry
putEntry(s, v, n, e) == [s EXCEPT !.log = Put(@, <<v, n>>, e)]

Send(s, m, to)  == [s EXCEPT !.out = @ \cup {Over(m, [from |-> s.id, to |-> j]) : j \in to}]
Others(s)       == Up \ {s.id}

stopTimer(s) == [s EXCEPT !.ticking = FALSE, !.monitor = FALSE, !.myViewChangeCount = 0]

\* NewNonceForOp: a view gives an operation one nonce.
Refuses(s, v, n, op)       == \E t \in s.db.opNonces : t[1] = v /\ t[3] = op /\ t[2] # n
NewNonceForOp(s, v, n, op) == [s EXCEPT !.db.opNonces = @ \cup {<<v, n, op>>}]

-----------------------------------------------------------------------------
(* Checkpoints.  The digest of a checkpoint stands for the history it is   *)
(* computed from.                                                          *)
stateDigest(s, n) ==
    LET at == {k \in DOMAIN s.state : s.state[k].seq = n}
    IN  IF at = {} THEN Nil ELSE s.state[Min(at)].digest

stateRange(s, from, to) ==
    LET inside == {k \in DOMAIN s.state : s.state[k].seq \in from .. to - 1}
        first  == IF inside = {} THEN Len(s.state) ELSE Min(inside)
    IN  IF first = Len(s.state) THEN <<>>
        ELSE SubSeq(s.state, first, Min({first + to - from - 1, Len(s.state)}))

checkPointDigest(s, n) ==
    IF n = 0 THEN <<stateDigest(s, -1), stateDigest(s, 0)>>
    ELSE <<stateDigest(s, n - CheckpointDiv), stateRange(s, n - CheckpointDiv + 1, n + 1)>>

\* No checkpoint is made below a stable one.
tooOld(s, n) == n \notin DOMAIN s.cps /\ \E k \in DOMAIN s.cps : k > n /\ s.cps[k].Stable

\* Its digest is computed again at every use.
getCheckPoint(s, n) ==
    LET cp == IF n \in DOMAIN s.cps THEN s.cps[n]
              ELSE [Stable |-> FALSE, Digest |-> Nil, Proof |-> {}]
    IN  [s EXCEPT !.cps = Put(@, n, [cp EXCEPT !.Digest = checkPointDigest(s, n)])]

stableCheckPoint(s) == CHOOSE n \in DOMAIN s.cps : s.cps[n].Stable

\* A finished operation is recorded and its client told.
Response(s, task) ==
    [type |-> "Response", req |-> task.req, seq |-> task.seq, view |-> task.view, rid |-> s.id]
reply(s, task) ==
    IF task.req = NoRequest THEN s ELSE Send(s, Response(s, task), {task.req.client} \cap Up)

\* Mistake.
UpdateNoSeq(s, n)    == s
UpdateSeq(s, n)      == [s EXCEPT !.db.nonce = Max({@, n})]

\* In whatever order.
replyByPendingTask(task, s) ==
    LET t == [UpdateSeq(s, task.seq) EXCEPT
                       !.log = [k \in DOMAIN @ |-> IF k = <<task.view, task.seq>>
                                                   THEN [@[k] EXCEPT !.r = TRUE] ELSE @[k]]]
    IN  reply(t, task)

\* Mistake.
keepOldLog(s, n)   == s
removeOldLog(s, n) ==
    [s EXCEPT !.log = [k \in {j \in DOMAIN @ : j[2] >= n} |-> @[k]]]

removeOldState(s, n) ==
    LET at == {k \in DOMAIN s.state : s.state[k].seq = n}
    IN  IF at = {} THEN s.state ELSE SubSeq(s.state, Min(at) + 1, Len(s.state))

\* Mistake.
OnlyDigested(cp, p) == [cp EXCEPT !.Digest = p.digest]
Stabilized(cp, p)   == [cp EXCEPT !.Stable = TRUE, !.Digest = p.digest]

\* The digest and the view of a majority replace the replica's own.
stablizeCP(s, n, p) ==
    LET t == IF p.view > s.view
             THEN stopTimer([s EXCEPT !.view = p.view, !.changing = FALSE]) ELSE s
        u == [removeOldLog(t, n) EXCEPT
                !.cps = [k \in {j \in DOMAIN @ : j >= n} |->
                            IF k = n THEN Stabilized(@[k], p) ELSE @[k]],
                !.apply = Max({@, n}),
                !.state = <<[seq |-> n, digest |-> p.digest]>> \o removeOldState(t, n),
                !.seqmap = [op \in {o \in DOMAIN @ : @[o] > n - 2 * CheckpointDiv} |-> @[op]],
                !.h = n, !.lastcp = n,
                !.applyQueue = {task \in @ : task.seq > n}]
    IN  FoldSet(replyByPendingTask, u, s.applyQueue \ u.applyQueue)

CheckPoint(s, n, p) ==
    IF tooOld(s, n) THEN s
    ELSE LET t == getCheckPoint(s, n)
             u == [t EXCEPT !.cps[n].Proof = @ \cup {p}]
             agreed == {q \in u.cps[n].Proof :
                          /\ Enough({r \in u.cps[n].Proof : r.digest = q.digest})
                          /\ Enough({r \in u.cps[n].Proof : r.view = q.view})}
         IN  IF t.cps[n].Stable THEN t
             ELSE IF agreed = {} THEN u ELSE stablizeCP(u, n, CHOOSE q \in agreed : TRUE)

startCheckPoint(s, n) ==
    IF tooOld(s, n) THEN s
    ELSE LET t == [getCheckPoint(s, n) EXCEPT !.cps[n].Stable = FALSE]
             p == [rid |-> s.id, digest |-> t.cps[n].Digest, view |-> s.view]
         IN  CheckPoint(Send(t, [type |-> "CheckPoint", seq |-> n, proof |-> p], Others(s)), n, p)

-----------------------------------------------------------------------------
(* Execution in the order of Seq.                                          *)
executeNext(k, s) ==
    LET next == CHOOSE task \in s.applyQueue : \A other \in s.applyQueue : task.seq <= other.seq
        t == [s EXCEPT !.apply = next.seq,
                       !.state = IF next.req = NoRequest THEN @
                                 ELSE Append(@, [seq |-> next.seq, digest |-> next.req.op]),
                       !.applyQueue = @ \ {next},
                       !.db.executed = Append(@, <<next.seq, next.req.op>>)]
        u == replyByPendingTask(next, t)
    IN  IF s.applyQueue = {} \/ s.apply + 1 < next.seq THEN s
        ELSE IF s.apply + 1 > next.seq THEN [s EXCEPT !.panicked = TRUE]
        ELSE IF next.seq % CheckpointDiv = 0 THEN startCheckPoint(u, next.seq) ELSE u

\* Mistake: operations are numbered as they are committed
executeAtOnce(s, v, n) ==
    executeNext(1, [putEntry(s, v, n, [getEntry(s, v, n) EXCEPT !.sendReply = TRUE, !.c = {}]) EXCEPT
                      !.applyQueue = {[seq |-> s.apply + 1, view |-> v, req |-> getEntry(s, v, n).pp]}])

execute(s, v, n) ==
    LET task == [seq |-> n, view |-> v, req |-> getEntry(s, v, n).pp]
        t    == [putEntry(s, v, n, [getEntry(s, v, n) EXCEPT !.sendReply = TRUE, !.c = {}])
                   EXCEPT !.applyQueue = @ \cup {task}]
    IN  IF n <= s.apply THEN s
        ELSE IF \E other \in s.applyQueue : other.seq = n THEN [s EXCEPT !.panicked = TRUE]
        ELSE FoldSet(executeNext, t, 1 .. Cardinality(t.applyQueue))

-----------------------------------------------------------------------------
(* The three phases.  Votes are <<replica, digest>>; those that come after  *)
(* sendCommit (prepares) or sendReply (commits) are never read again.      *)
Votes(set, e) == {vote[1] : vote \in {w \in set : w[2] = e.pp.op}}
prepared(e)   == Enough(Votes(e.p, e))
committed(e)  == Enough(Votes(e.c, e))

\* A message of this view and window that agrees with the pre-prepare.
Fits(s, v, n, digest) ==
    /\ s.view = v
    /\ InWindow(s, n)
    /\ getEntry(s, v, n).pp \in {Nil} \cup {r \in Requests \cup {NoRequest} : r.op = digest}

Commit(s, v, n, digest, rid) ==
    LET t == stopTimer(s)
        e == [getEntry(s, v, n) EXCEPT !.c = @ \cup {<<rid, digest>>}]
    IN  IF s.changing THEN s
        ELSE IF e.sendReply \/ ~Fits(s, v, n, digest) THEN t
        ELSE IF e.sendCommit /\ committed(e) THEN execute(putEntry(t, v, n, e), v, n)
        ELSE putEntry(t, v, n, e)

\* A replica that finds itself prepared commits; sendCommit is set only after
\* its own commit was handled.
sendCommit(s, v, n, e) ==
    LET t == [NewNonceForOp(s, v, n, e.pp.op) EXCEPT !.seqmap = Put(@, e.pp.op, n)]
        u == Commit(Send(t, [type |-> "Commit", view |-> v, seq |-> n, digest |-> e.pp.op], Others(s)),
                    v, n, e.pp.op, s.id)
    IN  putEntry(u, v, n, [getEntry(u, v, n) EXCEPT !.sendCommit = TRUE, !.p = {}])

Prepare(s, v, n, digest, rid) ==
    LET t == stopTimer(s)
        e == [getEntry(s, v, n) EXCEPT !.p = @ \cup {<<rid, digest>>}]
        u == putEntry(t, v, n, e)
    IN  IF s.changing THEN s
        ELSE IF e.sendCommit \/ ~Fits(s, v, n, digest) THEN t
        ELSE IF e.pp = Nil \/ ~prepared(e) THEN u
        ELSE IF Refuses(s, v, n, e.pp.op) THEN [u EXCEPT !.timeouts = @ + 1]
        ELSE sendCommit(u, v, n, e)

PrePrepare(s, v, n, req) ==
    LET t == stopTimer(NewNonceForOp(s, v, n, req.op))
        u == putEntry(t, v, n, [getEntry(s, v, n) EXCEPT !.pp = req])
    IN  IF s.changing \/ Refuses(s, v, n, req.op) THEN s
        ELSE IF ~Fits(s, v, n, req.op) THEN t
        ELSE Prepare(Send(u, [type |-> "Prepare", view |-> v, seq |-> n, digest |-> req.op], Others(s)),
                     v, n, req.op, s.id)

propose(s, n, req) ==
    PrePrepare(Send(s, [type |-> "PrePrepare", view |-> s.view, seq |-> n, req |-> req], Others(s)),
               s.view, n, req)

\* An operation the primary knows is proposed, or answered, again.
handleRequestLeader(s, req) ==
    IF req.op \notin DOMAIN s.seqmap
    THEN IF s.tSeq >= H(s) THEN s
         ELSE propose([s EXCEPT !.seqmap = Put(@, req.op, s.tSeq), !.tSeq = @ + 1], s.tSeq, req)
    ELSE LET n == s.seqmap[req.op]
             e == getEntry(s, s.view, n)
         IN  IF n <= s.lastcp \/ e.pp \in {Nil, NoRequest} THEN s
             ELSE IF ~e.sendReply THEN propose(s, n, e.pp)
             ELSE IF e.r THEN reply(s, [seq |-> n, view |-> s.view, req |-> e.pp])
             ELSE s

\* The others watch the primary, and pass the request on.
handleRequestFollower(s, req) ==
    IF s.monitor THEN s
    ELSE Send([s EXCEPT !.monitor = TRUE, !.ticking = TRUE],
              [type |-> "Request", req |-> req], {Primary(s.view)} \cap Up)

Request(s, req) ==
    IF s.changing THEN s
    ELSE IF s.id = Primary(s.view) THEN handleRequestLeader(s, req)
    ELSE handleRequestFollower(s, req)

-----------------------------------------------------------------------------
(* View changes.  A ViewChangeArgs keeps, of the prepared entries for one  *)
(* Seq, the one that comes last in its list: the others have no effect.    *)
Prepareds(s) == {k \in DOMAIN s.log : /\ k[2] > stableCheckPoint(s)
                                      /\ s.log[k].pp # Nil
                                      /\ s.log[k].sendCommit \/ prepared(s.log[k])}

\* Every order the map s.log may be read in.
PreparedLists(s) ==
    LET seqs == {k[2] : k \in Prepareds(s)}
    IN  {P \in [seqs -> {s.log[k].pp : k \in Prepareds(s)}] :
            \A n \in seqs : \E k \in Prepareds(s) : k[2] = n /\ s.log[k].pp = P[n]}

viewChange(s, P) ==
    [view |-> s.view + s.myViewChangeCount + 1, rid |-> s.id, P |-> P,
     cp |-> stableCheckPoint(s), digest |-> s.cps[stableCheckPoint(s)].Digest]

\* What the new view starts with: the highest checkpoint, the highest prepared
\* Seq, and per Seq the last of what the messages V say was prepared.
mins(V) == Max({V[k].cp : k \in DOMAIN V})
\* Mistake.
maxsStable(V) == mins(V)
maxs(V) == Max({mins(V)} \cup UNION {DOMAIN V[k].P : k \in DOMAIN V})
calcPPS(V) ==
    [n \in mins(V) + 1 .. maxs(V) |->
        LET say == {k \in DOMAIN V : n \in DOMAIN V[k].P}
        IN  IF say = {} THEN NoRequest ELSE V[Max(say)].P[n]]

\* The prepares are sent by a goroutine: the replica's own is a message too.
enteringNewView(s, v, V) ==
    LET cp  == CHOOSE k \in DOMAIN V : V[k].cp = mins(V) /\ \A j \in 1 .. k - 1 : V[j].cp # mins(V)
        pps == calcPPS(V)
        t == IF mins(V) > stableCheckPoint(s)
             THEN stablizeCP([s EXCEPT !.cps = Put(@, mins(V), [Stable |-> TRUE, Digest |-> V[cp].digest,
                                                                Proof |-> {}])],
                             mins(V), [digest |-> V[cp].digest, view |-> s.view])
             ELSE s
        u == [t EXCEPT
                !.tSeq = maxs(V) + 1,
                !.seqmap = Over([op \in {pps[n].op : n \in DOMAIN pps} |->
                                    Max({n \in DOMAIN pps : pps[n].op = op})], @),
                !.log = Over([k \in {<<v, n>> : n \in DOMAIN pps} |->
                                 [getEntry(t, v, k[2]) EXCEPT !.pp = pps[k[2]]]], @),
                !.view = v, !.changing = FALSE,
                !.vcs = [w \in {x \in DOMAIN @ : x > v} |-> @[w]],
                !.out = @ \cup {[type |-> "Prepare", view |-> v, seq |-> n, digest |-> pps[n].op,
                                 from |-> s.id, to |-> j] : n \in DOMAIN pps, j \in Up}]
    IN  stopTimer(removeOldLog(u, mins(V)))

\* View changes are counted, whoever they are from.  Only the primary of the
\* view they ask for reads them.
\* Mistake.
MoreChanges(V)   == Len(V) > 2 * f + 1
EnoughChanges(V) == Len(V) >= 2 * f + 1

ViewChange(s, vc) ==
    LET old == IF vc.view \in DOMAIN s.vcs THEN s.vcs[vc.view] ELSE <<>>
        V   == Append(old, vc)
        t   == [s EXCEPT !.vcs = Put(@, vc.view, V)]
    IN  IF vc.view <= s.view \/ Primary(vc.view) # s.id THEN s
        ELSE IF ~EnoughChanges(V) THEN t
        ELSE enteringNewView(Send(t, [type |-> "NewView", view |-> vc.view, V |-> V], Others(s)),
                             vc.view, V)

NewView(s, v, V) ==
    IF v <= s.view \/ ~Enough({V[k].rid : k \in {j \in DOMAIN V : V[j].view = v}}) THEN s
    ELSE enteringNewView(s, v, V)

\* A timer that still ticks is forgotten: nothing can stop it any more.
handleTimer(s, P) ==
    LET vc == viewChange(s, P)
        t  == ViewChange(Send([s EXCEPT !.changing = TRUE, !.myViewChangeCount = @ + 1],
                              [type |-> "ViewChange", vc |-> vc], {Primary(vc.view)} \cap Others(s)), vc)
    IN  [t EXCEPT !.ticking = TRUE, !.monitor = TRUE, !.stray = @ + IF t.ticking THEN 1 ELSE 0]

-----------------------------------------------------------------------------
(* The actions.  OnRequest lets pass what its sender may send.             *)
Accepted(m) ==
    /\ m.type = "Request" => m.req.client = m.from
    /\ m.type \in {"PrePrepare", "NewView"} => m.view = m.from

Handled(s, m) ==
    CASE m.type = "Request"    -> Request(s, m.req)
      [] m.type = "PrePrepare" -> PrePrepare(s, m.view, m.seq, m.req)
      [] m.type = "Prepare"    -> Prepare(s, m.view, m.seq, m.digest, m.from)
      [] m.type = "Commit"     -> Commit(s, m.view, m.seq, m.digest, m.from)
      [] m.type = "CheckPoint" -> CheckPoint(s, m.seq, m.proof)
      [] m.type = "ViewChange" -> ViewChange(s, m.vc)
      [] m.type = "NewView"    -> NewView(s, m.view, m.V)

Running(i) == i \in Up /\ ~server[i].panicked

\* The replica is in state s, and what it sent is on its way.
Becomes(s, taken) ==
    /\ server' = [server EXCEPT ![s.id] = [s EXCEPT !.out = {}]]
    /\ net' = (net \ taken) \cup {m \in s.out : Arrives(m)}

handleReq(m) ==
    /\ m.type # "Response"
    /\ Running(m.to)
    /\ Becomes(IF Accepted(m) THEN Handled(server[m.to], m) ELSE server[m.to], {m})
    /\ UNCHANGED <<client, view, restarts>>

\* The view a replica has given up waiting for.
Target(i) == server[i].view + server[i].myViewChangeCount

\* The timer the replica knows runs out, or one it has forgotten.
Fired(s) == (IF s.ticking THEN {[s EXCEPT !.ticking = FALSE]} ELSE {})
              \cup (IF s.stray > 0 THEN {[s EXCEPT !.stray = @ - 1]} ELSE {})

RunsOut(i) == /\ Running(i)
              /\ \/ Fired(server[i]) # {} /\ server[i].timeouts < MaxTimeouts
                 \/ server[i].timeouts > 0 /\ Target(i) < MaxView

\* The timer runs out and startViewChange puts a message in msgChan.
startViewChange(i) ==
    /\ Running(i)
    /\ server[i].timeouts < MaxTimeouts
    /\ Patient => net = {} /\ \A j \in Up : RunsOut(j) => Target(i) <= Target(j)
    /\ \E s \in Fired(server[i]) : server' = [server EXCEPT ![i] = [s EXCEPT !.timeouts = @ + 1]]
    /\ UNCHANGED <<client, view, net, restarts>>

internalTimer(i) ==
    /\ Running(i)
    /\ server[i].timeouts > 0
    /\ Target(i) < MaxView
    /\ \E P \in PreparedLists(server[i]) :
          Becomes(handleTimer([server[i] EXCEPT !.timeouts = @ - 1], P), {})
    /\ UNCHANGED <<client, view, restarts>>

\* No message is on its way and no timer runs.
Calm == net = {} /\ \A i \in Up : ~RunsOut(i)

\* The memory of the process is lost, its database is not.  Bound: nothing is
\* under way, and the replica did something since it was started.
Restart(i) ==
    /\ i \in Up
    /\ restarts < MaxRestarts
    /\ Calm /\ server[i] # NewPBFTServer(i, server[i].db)
    /\ restarts' = restarts + 1
    /\ server' = [server EXCEPT ![i] = NewPBFTServer(i, @.db)]
    /\ view' = [view EXCEPT ![i] = 0]
    /\ client' = [r \in Requests |-> IF r.client = i /\ client[r].stage = "waiting"
                                     THEN [client[r] EXCEPT !.stage = "lost", !.ticking = FALSE] ELSE client[r]]
    /\ UNCHANGED net

\* A client sends a request to the primary first, then to all, until it hears
\* one answer: Response stops the timer, and nothing starts it again.
sendRequest(r) ==
    /\ Running(r.client)
    /\ client[r].stage = "new" \/ client[r].ticking
    /\ client[r].sends < MaxSends
    /\ Patient => Calm
    /\ LET to == IF client[r].stage = "new" THEN {Primary(view[r.client])} \cap Up ELSE Up
       IN  net' = net \cup {m \in {[type |-> "Request", req |-> r, from |-> r.client, to |-> j] : j \in to} :
                              Arrives(m)}
    /\ client' = [client EXCEPT ![r].stage = "waiting", ![r].sends = @ + 1, ![r].ticking = TRUE]
    /\ UNCHANGED <<server, view, restarts>>

\* Mistake.
AnyAnswers(A)    == Cardinality(A) >= f
EnoughAnswers(A) == Cardinality(A) > f

ClientResponse(m) ==
    LET r   == m.req
        res == client[r].res \cup {<<m.rid, m.seq>>}
    IN  /\ m.type = "Response"
        /\ Running(m.to)
        /\ net' = net \ {m}
        /\ IF client[r].stage = "waiting"
           THEN /\ view' = [view EXCEPT ![m.to] = Max({@, m.view})]
                /\ client' = IF EnoughAnswers({a \in res : a[2] = m.seq})
                             THEN [client EXCEPT ![r].stage = "done", ![r].seq = m.seq, ![r].res = {},
                                                 ![r].ticking = FALSE]
                             ELSE [client EXCEPT ![r].res = res, ![r].ticking = FALSE]
           ELSE UNCHANGED <<view, client>>
        /\ UNCHANGED <<server, restarts>>

Init ==
    /\ server = [i \in Replicas |-> NewPBFTServer(i, [nonce |-> InitSeq - 1, opNonces |-> {},
                                                      executed |-> <<>>])]
    /\ client = [r \in Requests |-> [stage |-> "new", res |-> {}, seq |-> -1, sends |-> 0,
                                   ticking |-> FALSE]]
    /\ view = [i \in Replicas |-> 0]
    /\ net = {} /\ restarts = 0

Next == \/ \E m \in net : handleReq(m) \/ ClientResponse(m)
        \/ \E i \in Up : startViewChange(i) \/ internalTimer(i) \/ Restart(i)
        \/ \E r \in Requests : sendRequest(r)

Spec == Init /\ [][Next]_vars

-----------------------------------------------------------------------------
Granted(r) == client[r].stage = "done"
Executions(i) == server[i].db.executed

(* The state is well formed: an entry goes through its phases in order,    *)
(* the queue holds what is still to be executed, and what a replica keeps  *)
(* lies above its last checkpoint, until it enters a view that starts from *)
(* an older one.                                                           *)
EntryOK(e) ==
    /\ e.pp \in Requests \cup {NoRequest, Nil}
    /\ e.p \cup e.c \subseteq Replicas \X ({r.op : r \in Requests} \cup {NoOp})
    /\ e.r => e.sendReply
    /\ e.sendReply => e.sendCommit
    /\ e.sendCommit => e.pp # Nil
TypeOK ==
    /\ restarts \in 0 .. MaxRestarts
    /\ view \in [Replicas -> 0 .. MaxView]
    /\ \A r \in Requests : /\ client[r].stage \in {"new", "waiting", "done", "lost"}
                           /\ client[r].sends \in 0 .. MaxSends
                           /\ Granted(r) => client[r].seq \in Nat
                           /\ client[r].ticking => client[r].stage = "waiting"
    /\ \A m \in net : m.from \in Replicas /\ m.to \in Up /\ m.from \in Up
    /\ \A i \in Replicas :
          LET s == server[i]
          IN  /\ s.id = i /\ s.view \in 0 .. MaxView /\ s.tSeq \in Nat /\ s.h \in Nat
              /\ {s.monitor, s.ticking, s.changing, s.panicked} \subseteq BOOLEAN
              /\ {s.stray, s.timeouts, s.myViewChangeCount} \subseteq Nat
              /\ \A k \in DOMAIN s.log : k[1] \in 0 .. MaxView /\ EntryOK(s.log[k])
              /\ s.view = 0 => \A k \in DOMAIN s.log : k[2] >= s.lastcp
              /\ \A task \in s.applyQueue : task.seq > s.apply

(* Two operations are never given one nonce (assertNotDuplicate in the     *)
(* tests of pbft), whatever restarts and changes its view.                 *)
NoDuplicateSeq ==
    \A r1, r2 \in Requests :
        Granted(r1) /\ Granted(r2) /\ r1.op # r2.op => client[r1].seq # client[r2].seq

(* Every replica executes in the order of Seq, and no two replicas, in     *)
(* whatever views, execute different operations at one Seq or one          *)
(* operation at two (execute's apply and applyQueue, the three phases).    *)
SameOrder ==
    \A i, j \in Up : \A k \in DOMAIN Executions(i), l \in DOMAIN Executions(j) :
        LET x == Executions(i)[k]  y == Executions(j)[l]
        IN  /\ x[1] = y[1] \/ (x[2] = y[2] /\ x[2] # NoOp) => x = y
            /\ i = j /\ k < l => x[1] < y[1]

(* No replica meets the states the code panics in: a Seq queued twice or   *)
(* already executed (execute), no stable checkpoint (getStableCheckPoint). *)
NoPanic == \A i \in Up : /\ ~server[i].panicked
                         /\ \E n \in DOMAIN server[i].cps : server[i].cps[n].Stable

(* A nonce that was granted outlives restarts: it is in the database of    *)
(* one replica more than may fail (UpdateSeq comes before the answer, and  *)
(* the client waits for f + 1 answers).                                    *)
GrantedIsRemembered ==
    \A r \in Requests :
        Granted(r) => Cardinality({i \in Up : server[i].db.nonce >= client[r].seq}) > f

(* A system that has nothing left to do has answered every client: a       *)
(* request is not lost between a replica's phases (client retransmission,  *)
(* view change timers).                                                    *)
Quiet == /\ Calm
         /\ \A r \in Requests : client[r].stage # "new" /\ (client[r].ticking => client[r].sends = MaxSends)
EndsAnswered == Quiet => \A r \in Requests : client[r].stage # "waiting"
=============================================================================
