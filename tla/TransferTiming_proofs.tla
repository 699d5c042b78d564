----------------------- MODULE TransferTiming_proofs ------------------------
(***************************************************************************)
(* What calculateSCExpiration and calculateMCExpiration are for: the lock  *)
(* that the notaries set on the second chain of a transfer ends before the *)
(* lock of the user on the first, so that whoever publishes the secret     *)
(* leaves the notaries time to use it.  The two chains have no common      *)
(* clock; a notary compares block numbers of one with block numbers of the *)
(* other, as of when it last handled a new block of each.                  *)
(*                                                                         *)
(* And what that time is good for: the notary that set the side lock       *)
(* learns of the secret while the lock of the user stands, and claims that *)
(* before it may be taken back.  It must be in charge by then, which it is *)
(* unless the secret came in the very block that set the side lock         *)
(* (NoneHasty excepts that).  So nobody gets value on both chains, and a   *)
(* transfer ends one way on both.  All other records name that notary,     *)
(* once everybody has seen the side lock.                                  *)
(***************************************************************************)
EXTENDS Transfer_proofs

-----------------------------------------------------------------------------
(* Hypotheses, all of them the code's own.  Timely: blocks take longer     *)
(* than a notary needs to handle one (KeptUp with Prompt), the chains stay *)
(* a quarter of MinExpiration together, and no lock of a user expires in   *)
(* the first blocks.  Calm: no notary stops, since a restarted one has no  *)
(* block numbers to compare (seen is 0), and a transfer is asked of one    *)
(* notary, since two of them lock twice for it.                            *)
AllUp       == \A n \in Notaries : status[n] = "up"
Requested(n, h) == session[n][h].stage # "idle"
OneAsked    == \A h \in Hash, n, m \in Notaries : Requested(n, h) /\ Requested(m, h) => n = m
Calm        == AllUp /\ OneAsked

Timely == Prompt /\ 4 * MaxSkew < MinExpiration /\ \A e \in Expirations : MaxSkew < e

-----------------------------------------------------------------------------
(* Both directions at once.  A transfer starts on the First chain, where    *)
(* its user sets a lock; the notaries set the side lock on the Second.      *)
First  == IF Inward THEN "mc" ELSE "sc"
Second == IF Inward THEN "sc" ELSE "mc"
Locks       == IF Inward THEN mcLockin ELSE scLockout
SideLocks   == IF Inward THEN scLockin ELSE mcLockout
UnusedLocks == IF Inward THEN mcLockout ELSE scLockin
Due(info)   == IF Inward THEN info.SCExpiration ELSE info.MCExpiration

\* The hashes whose secret is out, since a side lock was opened with it.
Outs == {h \in Hash : IF Inward THEN Minted(h) ELSE Released(h)}

\* When a side lock with hash h may end: while it has not, the user's lock stands.
Covered == [h \in Hash |-> {due \in Nat :
               \/ h \in Outs
               \/ Height(Second) >= due
               \/ \E u \in Users : /\ Locks[u].SecretHash = h /\ Locks[u].value > 0
                                   /\ due + MaxSkew <= Locks[u].Expiration}]

\* What a notary may be told of the lock of a user: unless it is over, it stands.
Standing == [a \in Users |-> {lock \in LockTerms :
               /\ lock.value > 0 /\ lock.Expiration > MaxSkew
               /\ \/ lock.SecretHash \in Outs
                  \/ Locks[a] = lock
                  \/ Height(First) > lock.Expiration}]

\* A time for a side lock, and the end of the user's lock: it leaves MaxSkew
\* blocks, or it is past, or nobody needs it any more.
OnTime(h, due, end) == \/ due + MaxSkew <= end /\ MinExpiration < end
                       \/ Height(Second) >= due
                       \/ h \in Outs

-----------------------------------------------------------------------------
(* The invariant.                                                          *)
Apart == mcBlock - scBlock <= MaxSkew /\ scBlock - mcBlock <= MaxSkew

\* Notaries are at most one block behind what they can see.
Following(n, c) ==
    /\ saved[n][c] = 0 \/ saved[n][c] <= Newest(c)
    /\ seen[n][c] <= saved[n][c]
    /\ Newest(c) - 1 <= seen[n][c]
    /\ saved[n][c] < Newest(c) => inbox[n][c] = {}
    /\ \/ seen[n][c] = saved[n][c]
       \/ \E e \in inbox[n][c] : e.name = "NewBlock"
    /\ \A e \in inbox[n][c] : /\ Newest(c) - 1 <= e.block /\ e.block <= Height(c)
                              /\ e.name = "NewBlock" => e.block = saved[n][c]
AllFollow == \A n \in Notaries, c \in Chains : Following(n, c)

LocksTimed == \A a \in Users : /\ Locks[a] = MC!Unlocked \/ Locks[a] \in Standing[a]
                               /\ UnusedLocks[a].value = 0
SideLocksTimed == \A a \in Users :
    SideLocks[a].SecretHash \in Hash => SideLocks[a].Expiration \in Covered[SideLocks[a].SecretHash]
AnswersTimed == \A n \in Notaries :
    /\ \A e \in inbox[n][First] :
          e.name = "Queried" => e.lock = MC!Unlocked \/ e.lock \in Standing[e.account]
    /\ \A e \in inbox[n][Second] :
          e.name = "Queried" /\ e.lock.SecretHash \in Hash
          => e.lock.Expiration \in Covered[e.lock.SecretHash]
RecordsTimed == \A n \in Notaries : \A h \in DOMAIN db[n] : Due(db[n][h]) \in Covered[h]
SessionsTimed == \A n \in Notaries, h \in Hash :
    IF Requested(n, h) THEN session[n][h].expiration \in Covered[h] ELSE session[n][h].asked = {}
TxsTimed == \A tx \in mempool :
    /\ tx \in Claims => MC!Sha256(tx.secret) \in Outs
    /\ tx \in Prepared => tx.expiration \in Covered[tx.hash]

\* One transaction at a time is on its way for a session, and one lock set.
SentOnce ==
    /\ \A tx \in mempool \cap Prepared : session[tx.from][tx.hash].stage = "sent"
    /\ \A tx, ty \in mempool \cap Prepared : tx.from = ty.from /\ tx.hash = ty.hash => tx = ty
SetOnce ==
    /\ \A h \in Hash : h \in Outs \/ (\E a \in Users : SideLocks[a].value > 0 /\ SideLocks[a].SecretHash = h)
                       => \E n \in Notaries : session[n][h].stage \in {"mined", "done"}
    /\ \A a, b \in Users : SideLocks[a].value > 0 /\ SideLocks[b].value > 0
                           /\ SideLocks[a].SecretHash = SideLocks[b].SecretHash => a = b
    /\ \A a \in Users : SideLocks[a].value > 0 => SideLocks[a].SecretHash \notin Outs

Timed == /\ Apart /\ AllFollow /\ LogsNamed
         /\ LocksTimed /\ SideLocksTimed
         /\ AnswersTimed /\ RecordsTimed /\ SessionsTimed /\ TxsTimed
         /\ SentOnce /\ SetOnce

-----------------------------------------------------------------------------
(* Half of the time left.                                                  *)
LEMMA Halves == \A y \in Nat : y \div 2 \in Nat /\ 2 * (y \div 2) <= y /\ y <= 2 * (y \div 2) + 1
OBVIOUS

\* f and s: heights of the two chains; sf, ss: what a notary has seen of them;
\* b: block of the event; end: expiration of the user's lock; left: least left.
LEMMA HalfIsInTime ==
    ASSUME NEW skew \in Nat, NEW least \in Nat, 4 * skew < least,
           NEW f \in Nat, NEW s \in Nat, s - f <= skew,
           NEW sf \in Nat, f - 2 <= sf, sf = 0 \/ sf <= f - 1,
           NEW ss \in Nat, ss = 0 \/ ss <= s - 1,
           NEW b \in Nat, f - 2 <= b, NEW end \in Nat, end > least + b
    PROVE  ss + HalfTheTime(end - sf) \in Nat /\ ss + HalfTheTime(end - sf) + skew <= end
<1>1. end - sf \in Nat
  OBVIOUS
<1>2. PICK half \in Nat : /\ half = (end - sf) \div 2
                          /\ 2 * half <= end - sf /\ end - sf <= 2 * half + 1
  BY <1>1, Halves
<1>3. HalfTheTime(end - sf) = half
  BY <1>1, <1>2 DEF HalfTheTime
<1> QED
  BY <1>2, <1>3

LEMMA LateIsOver ==
    ASSUME NEW skew \in Nat, NEW f \in Nat, NEW s \in Nat, f - s <= skew,
           NEW sf \in Nat, f - 2 <= sf, sf = 0 \/ sf <= f - 1,
           NEW ss \in Nat, ss = 0 \/ ss <= s - 1, s - 2 <= ss,
           NEW end \in Nat, end < f, skew < end
    PROVE  ss + HalfTheTime(end - sf) \in Nat /\ ss + HalfTheTime(end - sf) <= s
<1>1. CASE end - sf >= 0
  <2>1. PICK half \in Nat : half = (end - sf) \div 2 /\ 2 * half <= end - sf
    BY <1>1, Halves
  <2>2. HalfTheTime(end - sf) = half
    BY <1>1, <2>1 DEF HalfTheTime
  <2> QED
    BY <1>1, <2>1, <2>2
<1>2. CASE end - sf < 0
  <2>0. sf - end \in Nat
    BY <1>2
  <2>1. PICK half \in Nat : half = (sf - end) \div 2 /\ 2 * half <= sf - end
    BY <2>0, Halves
  <2>2. HalfTheTime(end - sf) = -half
    BY <1>2, <2>1 DEF HalfTheTime
  <2> QED
    BY <1>2, <2>1, <2>2
<1> QED
  BY <1>1, <1>2

-----------------------------------------------------------------------------
(* Time goes on.                                                           *)
GoesOn == /\ UNCHANGED direction
          /\ Outs \subseteq Outs'
          /\ \A h \in Hash : Covered[h] \subseteq Covered'[h]
          /\ \A a \in Users : Standing[a] \subseteq Standing'[a]

LEMMA ChainsSame ==
    ASSUME UNCHANGED <<mcVars, scVars, direction>>
    PROVE  /\ Outs' = Outs /\ Covered' = Covered /\ Standing' = Standing
           /\ First' = First /\ Second' = Second /\ Locks' = Locks /\ SideLocks' = SideLocks
           /\ UnusedLocks' = UnusedLocks
           /\ \A c \in Chains : Log(c)' = Log(c) /\ Height(c)' = Height(c) /\ Newest(c)' = Newest(c)
           /\ GoesOn
<1>1. UNCHANGED <<First, Second, Locks, SideLocks, UnusedLocks, Outs, mcBlock, scBlock, mcLog, scLog>>
  BY DEF mcVars, scVars, First, Second, Locks, SideLocks, UnusedLocks, Inward, Outs, Minted, Released
<1>2. \A c \in Chains : Log(c)' = Log(c) /\ Height(c)' = Height(c) /\ Newest(c)' = Newest(c)
  BY <1>1 DEF Log, Height, Newest
<1>3. Height(First)' = Height(First) /\ Height(Second)' = Height(Second)
  BY <1>1 DEF Height
<1>4. Covered' = Covered
  BY <1>1, <1>3 DEF Covered
<1>5. Standing' = Standing
  BY <1>1, <1>3 DEF Standing
<1> QED
  BY <1>1, <1>2, <1>4, <1>5 DEF GoesOn

\* Locks of users end with the secret out, or after their expiration.
LocksKept == \A a \in Users : Locks[a].value > 0 =>
                \/ Locks'[a] = Locks[a]
                \/ Locks[a].SecretHash \in Outs'
                \/ Height(First) > Locks[a].Expiration

LEMMA ChainsGoOn ==
    ASSUME Typed, Typed', Apart, UNCHANGED direction,
           mcLog \subseteq mcLog', scLog \subseteq scLog', mcBlock <= mcBlock', scBlock <= scBlock',
           LocksKept
    PROVE  GoesOn
<1>1. Outs \subseteq Outs'
  BY DEF Outs, Minted, Released, Inward
<1>2. /\ {Height(First), Height(Second), Height(First)', Height(Second)'} \subseteq Nat
      /\ Height(First) <= Height(First)' /\ Height(Second) <= Height(Second)'
      /\ Height(First) - Height(Second) <= MaxSkew
  BY DEF Typed, OnChain, ChainTyped, Height, First, Second, Inward, Apart
<1>3. Locks \in [AllAccounts -> LockTerms]
  BY DEF Typed, OnChain, LocksTyped, Locks
<1> HIDE DEF Height
<1>4. ASSUME NEW h \in Hash, NEW due \in Covered[h] PROVE due \in Covered'[h]
  <2>1. due \in Nat /\ (\/ h \in Outs
                        \/ Height(Second) >= due
                        \/ \E u \in Users : /\ Locks[u].SecretHash = h /\ Locks[u].value > 0
                                            /\ due + MaxSkew <= Locks[u].Expiration)
    BY <1>4 DEF Covered
  <2>2. Covered'[h] = {d \in Nat :
               \/ h \in Outs'
               \/ Height(Second)' >= d
               \/ \E u \in Users : /\ Locks'[u].SecretHash = h /\ Locks'[u].value > 0
                                   /\ d + MaxSkew <= Locks'[u].Expiration}
    BY DEF Covered
  <2>3. ASSUME NEW u \in Users, Locks[u].SecretHash = h, Locks[u].value > 0,
               due + MaxSkew <= Locks[u].Expiration
        PROVE  due \in Covered'[h]
    <3>1. Locks[u].Expiration \in Nat
      BY <1>3, HashVocabulary DEF AllAccounts
    <3>2. CASE Locks'[u] = Locks[u]
      BY <2>1, <2>2, <2>3, <3>2
    <3>3. CASE h \in Outs'
      BY <2>1, <2>2, <3>3
    <3>4. CASE Height(First) > Locks[u].Expiration
      BY <1>2, <2>1, <2>2, <2>3, <3>1, <3>4, CrossChainNumbers
    <3> QED
      BY <2>3, <3>2, <3>3, <3>4 DEF LocksKept
  <2>4. CASE Height(Second) >= due
    BY <1>2, <2>1, <2>2, <2>4
  <2>5. CASE h \in Outs
    BY <1>1, <2>1, <2>2, <2>5
  <2> QED
    BY <2>1, <2>3, <2>4, <2>5
<1>5. ASSUME NEW a \in Users, NEW lock \in Standing[a] PROVE lock \in Standing'[a]
  <2>1. Standing'[a] = {l \in LockTerms :
               /\ l.value > 0 /\ l.Expiration > MaxSkew
               /\ \/ l.SecretHash \in Outs'
                  \/ Locks'[a] = l
                  \/ Height(First)' > l.Expiration}
    BY DEF Standing
  <2>2. lock \in LockTerms /\ lock.value > 0 /\ lock.Expiration > MaxSkew /\ lock.Expiration \in Nat
        /\ (\/ lock.SecretHash \in Outs \/ Locks[a] = lock \/ Height(First) > lock.Expiration)
    BY <1>5, HashVocabulary DEF Standing
  <2>3. \/ lock.SecretHash \in Outs' \/ Locks'[a] = lock \/ Height(First)' > lock.Expiration
    <3>1. CASE Height(First) > lock.Expiration
      BY <1>2, <2>2, <3>1
    <3>2. CASE Locks[a] = lock
      <4>1. Height(First) > Locks[a].Expiration => Height(First)' > lock.Expiration
        BY <1>2, <2>2, <3>2
      <4> QED
        BY <2>2, <3>2, <4>1 DEF LocksKept
    <3> QED
      BY <1>1, <2>2, <3>1, <3>2
  <2> QED
    BY <2>1, <2>2, <2>3
<1> QED
  BY <1>1, <1>4, <1>5 DEF GoesOn

\* What was in time stays in time.
LEMMA AnswersLast ==
    ASSUME Typed, AnswersTimed, GoesOn,
           \A n \in Notaries, c \in Chains : inbox'[n][c] \subseteq inbox[n][c]
    PROVE  AnswersTimed'
<1>1. First \in Chains /\ Second \in Chains /\ First' = First /\ Second' = Second
  BY DEF First, Second, Chains, Inward, GoesOn
<1>2. ASSUME NEW n \in Notaries, NEW c \in Chains, NEW e \in inbox[n][c], e.name = "Queried"
      PROVE  e.account \in Users
  BY <1>2 DEF Typed, InNotaries, MailTyped, EventOK
<1> QED
  BY <1>1, <1>2 DEF AnswersTimed, GoesOn

LEMMA RecordsLast ==
    ASSUME Typed, RecordsTimed, GoesOn,
           \A n \in Notaries : \A h \in DOMAIN db'[n] :
              \/ h \in DOMAIN db[n] /\ Due(db'[n][h]) = Due(db[n][h])
              \/ h \in Hash /\ Due(db'[n][h]) \in Covered[h]
    PROVE  RecordsTimed'
<1>1. \A info : Due(info)' = Due(info)
  BY DEF Due, Inward, GoesOn
<1>2. \A n \in Notaries : \A h \in DOMAIN db'[n] : h \in Hash /\ Due(db'[n][h]) \in Covered'[h]
  BY DEF RecordsTimed, GoesOn, Typed, InNotaries, RecordsTyped
<1> QED
  BY <1>2 DEF RecordsTimed, Due, Inward, GoesOn

LEMMA RecordsLastUnchanged ==
    ASSUME Typed, RecordsTimed, GoesOn, UNCHANGED db
    PROVE  RecordsTimed'
BY RecordsLast

LEMMA SessionsLast ==
    ASSUME SessionsTimed, GoesOn,
           \A n \in Notaries, h \in Hash :
              /\ session'[n][h].expiration = session[n][h].expiration
              /\ session'[n][h].stage = "idle" <=> session[n][h].stage = "idle"
              /\ session'[n][h].asked \subseteq session[n][h].asked
    PROVE  SessionsTimed'
BY DEF SessionsTimed, GoesOn, Requested

LEMMA TxsLast ==
    ASSUME TxsTimed, GoesOn, mempool' \subseteq mempool
    PROVE  TxsTimed'
<1>1. \A tx \in Prepared : tx.hash \in Hash
  BY DEF Prepared
<1> QED
  BY <1>1 DEF TxsTimed, GoesOn

LEMMA SideLocksLast ==
    ASSUME SideLocksTimed, GoesOn, \A a \in Users : SideLocks'[a] \in {SideLocks[a], MC!Unlocked}
    PROVE  SideLocksTimed'
<1>1. MC!Unlocked.SecretHash \notin Hash
  BY HashVocabulary
<1> QED
  BY <1>1 DEF SideLocksTimed, GoesOn

LEMMA SetOnceLasts ==
    ASSUME SetOnce, Outs' = Outs,
           \A a \in Users : SideLocks'[a] \in {SideLocks[a], MC!Unlocked},
           \A n \in Notaries, h \in Hash :
              session[n][h].stage \in {"mined", "done"} => session'[n][h].stage \in {"mined", "done"}
    PROVE  SetOnce'
<1>1. ~(MC!Unlocked.value > 0)
  BY HashVocabulary
<1> QED
  BY <1>1 DEF SetOnce

LEMMA SentOnceLasts ==
    ASSUME SentOnce, TxsTyped, mempool' \cap Prepared \subseteq mempool,
           \A n \in Notaries, h \in Hash :
              session[n][h].stage = "sent" => session'[n][h].stage = "sent"
    PROVE  SentOnce'
<1>1. \A tx \in Prepared : tx.hash \in Hash /\ tx.from \in Notaries
  BY DEF Prepared
<1> QED
  BY <1>1 DEF SentOnce

LEMMA FollowingLasts ==
    ASSUME AllFollow, \A c \in Chains : Newest(c)' = Newest(c) /\ Height(c)' = Height(c),
           UNCHANGED <<saved, seen, inbox>>
    PROVE  AllFollow'
BY DEF AllFollow, Following

-----------------------------------------------------------------------------
(* The chains grow.                                                        *)
LEMMA GrowthKeepsTime ==
    ASSUME Typed, Typed', Timed, AllUp, Prompt, MCGrows \/ SCGrows
    PROVE  Timed'
<1>1. /\ UNCHANGED <<direction, mempool, nodeVars, mcLog, scLog, mcLockin, mcLockout, scLockin, scLockout>>
      /\ KeptUp
      /\ \/ mcBlock' = mcBlock + 1 /\ scBlock' = scBlock /\ mcBlock - scBlock < MaxSkew
         \/ scBlock' = scBlock + 1 /\ mcBlock' = mcBlock /\ scBlock - mcBlock < MaxSkew
  BY DEF MCGrows, SCGrows, MCNewBlock, SCNewBlock, MC!newBlock, SC!newBlock, mcVars, scVars,
         nodeVars
<1>2. {mcBlock, scBlock} \subseteq Nat /\ MaxSkew \in Nat
  BY CrossChainNumbers DEF Typed, OnChain, ChainTyped
<1>3. UNCHANGED <<Locks, SideLocks, UnusedLocks, Outs, First, Second>>
  BY <1>1 DEF Locks, SideLocks, UnusedLocks, Outs, First, Second, Inward, Minted, Released
<1>4. Apart'
  BY <1>1, <1>2 DEF Timed, Apart
<1>5. GoesOn
  BY <1>1, <1>2, <1>3, ChainsGoOn DEF LocksKept, Timed
<1>6. AllFollow'
  <2> SUFFICES ASSUME NEW n \in Notaries, NEW c \in Chains PROVE Following(n, c)'
    BY DEF AllFollow
  <2>1. saved[n][c] >= Newest(c) /\ inbox[n][c] = {}
    BY <1>1 DEF KeptUp, AllUp
  <2>2. Following(n, c)
    BY DEF Timed, AllFollow
  <2>3. {saved[n][c], seen[n][c]} \subseteq Nat
    BY DEF Typed, InNotaries, PollingTyped
  <2>4. Newest(c)' \in {Newest(c), Newest(c) + 1} /\ Newest(c) \in Int
    BY <1>1, <1>2 DEF Newest, Height
  <2> QED
    BY <1>1, <2>1, <2>2, <2>3, <2>4 DEF Following, nodeVars
<1>7. LogsNamed'
  BY <1>1 DEF Timed, LogsNamed, Log
<1>8. LocksTimed'
  BY <1>3, <1>5 DEF Timed, LocksTimed, GoesOn
<1>9. /\ SideLocksTimed' /\ AnswersTimed' /\ RecordsTimed' /\ SessionsTimed' /\ TxsTimed'
      /\ SentOnce' /\ SetOnce'
  BY <1>1, <1>3, <1>5, SideLocksLast, AnswersLast, RecordsLastUnchanged, SessionsLast, TxsLast,
     SentOnceLasts, SetOnceLasts DEF Timed, nodeVars, Typed
<1> QED
  BY <1>4, <1>6, <1>7, <1>8, <1>9 DEF Timed

-----------------------------------------------------------------------------
(* Transactions on the two chains.                                         *)

\* The log entry e of a transaction.
Entered(e) == \/ mcLog' = mcLog \cup {e} /\ scLog' = scLog
              \/ scLog' = scLog \cup {e} /\ mcLog' = mcLog

LEMMA EntryIsNamed ==
    ASSUME LogsNamed, NEW e, Entered(e), e.name \notin {"NewBlock", "Queried"}
    PROVE  LogsNamed'
BY DEF LogsNamed, Entered, Log, Chains

LEMMA NothingIsOut ==
    ASSUME UNCHANGED direction, NEW e, Entered(e), e.name \notin {"LockinSecret", "LockoutSecret"}
    PROVE  Outs' = Outs
BY DEF Outs, Minted, Released, Inward, Entered

LEMMA SecretIsOut ==
    ASSUME UNCHANGED direction, NEW e, NEW s \in Secrets, e.secret = s,
           \/ Inward /\ e.name = "LockinSecret" /\ scLog' = scLog \cup {e}
           \/ Outward /\ e.name = "LockoutSecret" /\ mcLog' = mcLog \cup {e}
    PROVE  Outs' = Outs \cup {MC!Sha256(s)}
BY HashVocabulary DEF Outs, Minted, Released, Inward, Outward

\* What is neither a block nor a step of the notaries: a transaction.
OnAChain == /\ UNCHANGED <<direction, mcBlock, scBlock, status, db, dealing, saved, fresh, seen, inbox>>
            /\ mcLog \subseteq mcLog' /\ scLog \subseteq scLog' /\ LogsNamed'
            /\ mempool' \subseteq mempool
            /\ \A a \in Users : UnusedLocks'[a] = UnusedLocks[a]

LEMMA EntryIsOnAChain ==
    ASSUME LogsNamed, NEW e, Entered(e), e.name \notin {"NewBlock", "Queried"},
           UNCHANGED <<direction, mcBlock, scBlock, status, db, dealing, saved, fresh, seen, inbox>>,
           mempool' \subseteq mempool, \A a \in Users : UnusedLocks'[a] = UnusedLocks[a]
    PROVE  /\ OnAChain
           /\ e.name \notin {"LockinSecret", "LockoutSecret"} => Outs' = Outs
<1>1. LogsNamed'
  BY EntryIsNamed
<1>2. mcLog \subseteq mcLog' /\ scLog \subseteq scLog'
  BY DEF Entered
<1> QED
  BY <1>1, <1>2, NothingIsOut DEF OnAChain

LEMMA TransactionKeepsTime ==
    ASSUME Typed, Typed', Timed, OnAChain, LocksKept, LocksTimed', SideLocksTimed', SessionsTimed',
           SentOnce', SetOnce'
    PROVE  Timed'
<1> USE DEF Timed, OnAChain
<1>1. GoesOn
  BY ChainsGoOn DEF Typed, OnChain, ChainTyped
<1>2. AnswersTimed' /\ RecordsTimed' /\ TxsTimed'
  BY <1>1, AnswersLast, RecordsLastUnchanged, TxsLast
<1>3. AllFollow'
  BY FollowingLasts DEF Newest, Height
<1> QED
  BY <1>1, <1>2, <1>3 DEF Apart

\* A user sets a lock, or one ends with the secret out or after its expiration.
LEMMA FirstChainStep ==
    ASSUME Typed, Typed', Timed, OnAChain, UNCHANGED <<session, SideLocks>>, Outs' = Outs,
           NEW u \in Users, NEW lock,
           \A a \in Users : Locks'[a] = IF a = u THEN lock ELSE Locks[a],
           \/ Locks[u].value = 0 /\ lock.value > 0 /\ lock.Expiration > MaxSkew
           \/ lock = MC!Unlocked /\ Locks[u].SecretHash \in Outs
           \/ lock = MC!Unlocked /\ Height(First) > Locks[u].Expiration
    PROVE  Timed'
<1> USE DEF OnAChain
<1>1. LocksKept
  BY DEF LocksKept, Typed, OnChain, LocksTyped, Locks, AllAccounts, LockTerms
<1>2. GoesOn
  BY <1>1, ChainsGoOn DEF Timed, Typed, OnChain, ChainTyped
<1>3. LocksTimed'
  <2>1. \A a \in Users : Locks'[a] \in LockTerms
    BY DEF Typed, OnChain, LocksTyped, Locks, AllAccounts
  <2>2. ASSUME NEW a \in Users, Locks'[a] # MC!Unlocked PROVE Locks'[a] \in Standing'[a]
    <3>1. Locks'[a].value > 0 /\ Locks'[a].Expiration > MaxSkew
      BY <2>2 DEF Timed, LocksTimed, Standing
    <3> QED
      BY <2>1, <3>1 DEF Standing
  <2> QED
    BY <2>2, HashVocabulary DEF Timed, LocksTimed
<1>4. SideLocksTimed' /\ SessionsTimed' /\ SentOnce' /\ SetOnce'
  BY <1>2, SideLocksLast, SessionsLast, SentOnceLasts, SetOnceLasts DEF Timed, Typed
<1> QED
  BY <1>1, <1>3, <1>4, TransactionKeepsTime

\* Transactions that leave the locks of users alone.
LEMMA LocksLast ==
    ASSUME Typed, Typed', Timed, OnAChain, UNCHANGED Locks
    PROVE  LocksKept /\ LocksTimed' /\ GoesOn
<1>1. LocksKept
  BY DEF LocksKept
<1>2. GoesOn
  BY <1>1, ChainsGoOn DEF Timed, OnAChain, Typed, OnChain, ChainTyped
<1> QED
  BY <1>1, <1>2 DEF Timed, LocksTimed, GoesOn, OnAChain

\* A side lock that expired is withdrawn, or nothing happens.
LEMMA SideLockEnds ==
    ASSUME Typed, Typed', Timed, OnAChain, UNCHANGED <<session, Locks>>, Outs' = Outs,
           \A a \in Users : SideLocks'[a] \in {SideLocks[a], MC!Unlocked}
    PROVE  Timed'
<1>1. LocksKept /\ LocksTimed' /\ GoesOn
  BY LocksLast
<1>2. SideLocksTimed' /\ SessionsTimed' /\ SentOnce' /\ SetOnce'
  BY <1>1, SideLocksLast, SessionsLast, SentOnceLasts, SetOnceLasts DEF Timed, OnAChain, Typed
<1> QED
  BY <1>1, <1>2, TransactionKeepsTime

\* A side lock is opened: its secret is out.
LEMMA SideLockOpens ==
    ASSUME Typed, Typed', Timed, OnAChain, UNCHANGED <<session, Locks>>,
           NEW u \in Users, SideLocks[u].value > 0, Outs' = Outs \cup {SideLocks[u].SecretHash},
           \A a \in Users : SideLocks'[a] = IF a = u THEN MC!Unlocked ELSE SideLocks[a]
    PROVE  Timed'
<1>1. LocksKept /\ LocksTimed' /\ GoesOn
  BY LocksLast
<1>2. SideLocksTimed' /\ SessionsTimed' /\ SentOnce'
  BY <1>1, SideLocksLast, SessionsLast, SentOnceLasts DEF Timed, OnAChain, Typed
<1>3. SetOnce'
  BY HashVocabulary DEF Timed, SetOnce
<1> QED
  BY <1>1, <1>2, <1>3, TransactionKeepsTime

\* A session finds out how its transaction ended, and in which block.
Settled(s, stage)  == [s EXCEPT !.stage = stage,
                                !.receipt = [chain |-> Second, block |-> Height(Second)]]
Settles(tx, stage) == session' = [session EXCEPT ![tx.from][tx.hash] = Settled(@, stage)]

LEMMA SettledSession ==
    ASSUME Typed, NEW tx \in Prepared, NEW stage, Settles(tx, stage),
           NEW n \in Notaries, NEW h \in Hash
    PROVE  /\ session'[n][h].user = session[n][h].user /\ session'[n][h].account = session[n][h].account
           /\ session'[n][h].amount = session[n][h].amount
           /\ session'[n][h].expiration = session[n][h].expiration
           /\ session'[n][h].asked = session[n][h].asked /\ session'[n][h].agreed = session[n][h].agreed
           /\ IF n = tx.from /\ h = tx.hash
              THEN /\ session'[n][h].stage = stage
                   /\ session'[n][h].receipt = [chain |-> Second, block |-> Height(Second)]
              ELSE session'[n][h] = session[n][h]
<1>1. tx.hash \in MC!Hashes /\ h \in MC!Hashes /\ tx.from \in Notaries
  BY HashVocabulary DEF Prepared
<1>2. session'[n][h] = IF n = tx.from /\ h = tx.hash THEN Settled(session[n][h], stage) ELSE session[n][h]
  BY <1>1 DEF Settles, Typed, InNotaries, SessionsTyped
<1>3. session[n][h] \in SessionRecord
  BY <1>1 DEF Typed, InNotaries, SessionsTyped, SessionOK
<1>4. PICK s \in SessionRecord : s = session[n][h]
  BY <1>3
<1>5. PICK r : r = [chain |-> Second, block |-> Height(Second)]
  OBVIOUS
<1>6. PICK t : t = Settled(s, stage)
  OBVIOUS
<1>7. /\ t.user = s.user /\ t.account = s.account /\ t.amount = s.amount
      /\ t.expiration = s.expiration /\ t.asked = s.asked /\ t.agreed = s.agreed
      /\ t.stage = stage /\ t.receipt = r
  BY <1>5, <1>6 DEF Settled, SessionRecord
<1> QED
  BY <1>2, <1>4, <1>5, <1>6, <1>7

\* The notaries' lock is set.
LEMMA SideLockIsSet ==
    ASSUME Typed, Typed', Timed, OneAsked, OnAChain, UNCHANGED Locks, Outs' = Outs,
           NEW tx \in mempool, tx \in Prepared, mempool' = mempool \ {tx},
           NEW lock, lock.SecretHash = tx.hash, lock.Expiration = tx.expiration,
           \A a \in Users : SideLocks'[a] = IF a = tx.account THEN lock ELSE SideLocks[a],
           Settles(tx, "mined")
    PROVE  Timed'
<1>0. tx.hash \in Hash /\ tx.hash \in MC!Hashes /\ tx.from \in Notaries /\ tx.account \in Users
  BY HashVocabulary DEF Prepared
<1>1. LocksKept /\ LocksTimed' /\ GoesOn
  BY LocksLast
<1>2. SideLocksTimed'
  BY <1>0, <1>1 DEF Timed, SideLocksTimed, TxsTimed, GoesOn
<1>5. session[tx.from][tx.hash].stage = "sent"
  BY DEF Timed, SentOnce
<1>6. \A n \in Notaries, h \in Hash :
         /\ session'[n][h].expiration = session[n][h].expiration
         /\ session'[n][h].asked = session[n][h].asked
         /\ session'[n][h].stage = IF n = tx.from /\ h = tx.hash THEN "mined" ELSE session[n][h].stage
  BY SettledSession
<1>7. SessionsTimed'
  BY <1>1, <1>5, <1>6, SessionsLast DEF Timed
<1>8. SentOnce'
  BY <1>6 DEF Timed, SentOnce, Typed, TxsTyped, Prepared
<1>9. SetOnce'
  <2>1. \A n \in Notaries : session[n][tx.hash].stage \notin {"mined", "done"}
    BY <1>0, <1>5 DEF OneAsked, Requested
  <2>2. tx.hash \notin Outs /\ \A a \in Users : SideLocks[a].value > 0 => SideLocks[a].SecretHash # tx.hash
    BY <1>0, <2>1 DEF Timed, SetOnce
  <2> QED
    BY <1>0, <1>6, <2>2 DEF Timed, SetOnce
<1> QED
  BY <1>1, <1>2, <1>7, <1>8, <1>9, TransactionKeepsTime

\* The transaction that was to set it reverts.
LEMMA PrepareReverts ==
    ASSUME Typed, Typed', Timed, OnAChain, UNCHANGED <<Locks, SideLocks>>, Outs' = Outs,
           NEW tx \in mempool, tx \in Prepared, mempool' = mempool \ {tx},
           Settles(tx, "failed")
    PROVE  Timed'
<1>0. tx.hash \in Hash /\ tx.hash \in MC!Hashes /\ tx.from \in Notaries
  BY HashVocabulary DEF Prepared
<1>1. LocksKept /\ LocksTimed' /\ GoesOn
  BY LocksLast
<1>2. SideLocksTimed'
  BY <1>1, SideLocksLast DEF Timed
<1>5. session[tx.from][tx.hash].stage = "sent"
  BY DEF Timed, SentOnce
<1>6. \A n \in Notaries, h \in Hash :
         /\ session'[n][h].expiration = session[n][h].expiration
         /\ session'[n][h].asked = session[n][h].asked
         /\ session'[n][h].stage = IF n = tx.from /\ h = tx.hash THEN "failed" ELSE session[n][h].stage
  BY SettledSession
<1>7. SessionsTimed'
  BY <1>1, <1>5, <1>6, SessionsLast DEF Timed
<1>8. SentOnce'
  BY <1>6 DEF Timed, SentOnce, Typed, TxsTyped, Prepared
<1>9. SetOnce'
  BY <1>5, <1>6, SetOnceLasts DEF Timed
<1> QED
  BY <1>1, <1>2, <1>7, <1>8, <1>9, TransactionKeepsTime

\* A notary is asked for the side lock: it takes the time from its record.
LEMMA RequestKeepsTime ==
    ASSUME Typed, Typed', Timed, UNCHANGED direction,
           NEW n \in Notaries, NEW h \in Hash, NEW u, NEW a, Known(n, h),
           OpenSession(n, h, u, a, Due(db[n][h]))
    PROVE  Timed'
<1>1. GoesOn /\ UNCHANGED <<Locks, SideLocks, UnusedLocks, Outs, Standing, Covered>>
  BY ChainsSame DEF OpenSession
<1>2. \A m \in Notaries, k \in Hash : m # n \/ k # h => session'[m][k] = session[m][k]
  BY HashVocabulary DEF OpenSession, Typed, InNotaries, SessionsTyped
<1>3. /\ session'[n][h].stage = "signing" /\ session'[n][h].expiration = Due(db[n][h])
      /\ session[n][h].stage = "idle"
  BY HashVocabulary DEF OpenSession, Typed, InNotaries, SessionsTyped
<1>4. SessionsTimed'
  BY <1>1, <1>2, <1>3 DEF Timed, SessionsTimed, Requested, RecordsTimed, Known
<1>5. SentOnce'
  BY <1>2, <1>3 DEF Timed, SentOnce, OpenSession, Prepared
<1>6. SetOnce'
  BY <1>1, <1>2, <1>3 DEF Timed, SetOnce
<1>7. Apart' /\ LogsNamed' /\ LocksTimed' /\ SideLocksTimed'
  BY <1>1 DEF Timed, Apart, LogsNamed, Log, LocksTimed, SideLocksTimed, OpenSession, mcVars, scVars
<1>8. AllFollow' /\ AnswersTimed' /\ RecordsTimed' /\ TxsTimed'
  BY <1>1, ChainsSame, FollowingLasts, AnswersLast, RecordsLastUnchanged, TxsLast
  DEF Timed, OpenSession
<1> QED
  BY <1>4, <1>5, <1>6, <1>7, <1>8 DEF Timed

-----------------------------------------------------------------------------
LEMMA LockinUserKeepsTime ==
    ASSUME Typed, Typed', Timed, Timely, Inward, UNCHANGED direction, LockinUserStep
    PROVE  Timed'
<1> USE DEF mcVars, scVars, nodeVars, Timed
<1>0. /\ Locks = mcLockin /\ SideLocks = scLockin /\ UnusedLocks = mcLockout
      /\ Locks' = mcLockin' /\ SideLocks' = scLockin' /\ UnusedLocks' = mcLockout'
      /\ Height(First) = mcBlock
      /\ {mcLockin, scLockin} \subseteq [AllAccounts -> LockTerms] /\ Users \subseteq AllAccounts
  BY DEF Locks, SideLocks, UnusedLocks, Inward, First, Height, Typed, OnChain, LocksTyped, AllAccounts
<1>1. ASSUME NEW u \in Users, NEW s \in Secrets, NEW e \in Expirations, NEW v \in Amounts,
             UserPrepareLockin(u, MC!Sha256(s), e, v)
      PROVE  Timed'
  <2> DEFINE lock == [SecretHash |-> MC!Sha256(s), Expiration |-> e, value |-> v]
  <2>1. /\ mcLockin' = [mcLockin EXCEPT ![u] = lock] /\ mcLockin[u].value = 0 /\ v > 0
        /\ UNCHANGED <<mcLockout, mcBlock, scVars, mempool, nonces, crashes, nodeVars>>
        /\ Entered(MC!EmitPrepareLockin(u))
    BY <1>1 DEF UserPrepareLockin, Entered, OnMC, MC!prepareLockin
  <2>2. lock.value > 0 /\ lock.Expiration > MaxSkew
    BY <2>1, CrossChainNumbers DEF Timely
  <2> HIDE DEF lock
  <2>3. OnAChain /\ Outs' = Outs
    BY <1>0, <2>1, EntryIsOnAChain DEF MC!EmitPrepareLockin
  <2> QED
    BY <1>0, <2>1, <2>2, <2>3, FirstChainStep
<1>2. ASSUME NEW u \in Users, UserCancelLockin(u) PROVE Timed'
  <2>1. /\ mcLockin' = [mcLockin EXCEPT ![u] = MC!Unlocked] /\ mcBlock > mcLockin[u].Expiration
        /\ UNCHANGED <<mcLockout, mcBlock, scVars, mempool, nonces, crashes, nodeVars>>
        /\ Entered(MC!EmitCancelLockin(u))
    BY <1>2 DEF UserCancelLockin, Entered, OnMC, MC!cancelLockin, MC!Lapsed, MC!Expired
  <2>2. OnAChain /\ Outs' = Outs
    BY <1>0, <2>1, EntryIsOnAChain DEF MC!EmitCancelLockin
  <2> QED
    BY <1>0, <2>1, <2>2, FirstChainStep
<1>3. ASSUME NEW u \in Users, NEW s \in Secrets, UserLockin(u, s) PROVE Timed'
  <2>1. /\ scLockin' = [scLockin EXCEPT ![u] = MC!Unlocked]
        /\ scLockin[u].value > 0 /\ scLockin[u].SecretHash = MC!Sha256(s)
        /\ UNCHANGED <<scBlock, mcVars, mempool, nonces, crashes, nodeVars>>
        /\ Entered(SC!EmitLockinSecret(u, s)) /\ scLog' = scLog \cup {SC!EmitLockinSecret(u, s)}
    BY <1>3, HashVocabulary DEF UserLockin, Entered, OnSC, SC!lockin, SC!Opens
  <2>2. OnAChain
    BY <1>0, <2>1, EntryIsOnAChain DEF SC!EmitLockinSecret
  <2>3. Outs' = Outs \cup {scLockin[u].SecretHash}
    BY <2>1, SecretIsOut DEF SC!EmitLockinSecret
  <2> QED
    BY <1>0, <2>1, <2>2, <2>3, SideLockOpens
<1>4. ASSUME NEW n \in Notaries, NEW u \in Users, NEW a \in Users, NEW h \in Hash,
             onSCPrepareLockinRequest(n, u, a, h)
      PROVE  Timed'
  BY <1>4, RequestKeepsTime DEF onSCPrepareLockinRequest, LockinRequested, Due
<1> QED
  BY <1>1, <1>2, <1>3, <1>4, HashVocabulary DEF LockinUserStep

LEMMA LockoutUserKeepsTime ==
    ASSUME Typed, Typed', Timed, Timely, Outward, UNCHANGED direction, LockoutUserStep
    PROVE  Timed'
<1> USE DEF mcVars, scVars, nodeVars, Timed
<1>0. /\ Locks = scLockout /\ SideLocks = mcLockout /\ UnusedLocks = scLockin
      /\ Locks' = scLockout' /\ SideLocks' = mcLockout' /\ UnusedLocks' = scLockin'
      /\ Height(First) = scBlock
      /\ {scLockout, mcLockout} \subseteq [AllAccounts -> LockTerms] /\ Users \subseteq AllAccounts
  BY DEF Locks, SideLocks, UnusedLocks, Inward, Outward, First, Height, Typed, OnChain, LocksTyped,
         AllAccounts
<1>1. ASSUME NEW u \in Users, NEW s \in Secrets, NEW e \in Expirations, NEW v \in Amounts,
             UserPrepareLockout(u, SC!Sha256(s), e, v)
      PROVE  Timed'
  <2> DEFINE lock == [SecretHash |-> SC!Sha256(s), Expiration |-> e, value |-> v]
  <2>1. /\ scLockout' = [scLockout EXCEPT ![u] = lock] /\ scLockout[u].value = 0 /\ v > 0
        /\ UNCHANGED <<scLockin, scBlock, mcVars, mempool, nonces, crashes, nodeVars>>
        /\ Entered(SC!EmitPrepareLockout(u))
    BY <1>1 DEF UserPrepareLockout, Entered, OnSC, SC!prepareLockout
  <2>2. lock.value > 0 /\ lock.Expiration > MaxSkew
    BY <2>1, CrossChainNumbers DEF Timely
  <2> HIDE DEF lock
  <2>3. OnAChain /\ Outs' = Outs
    BY <1>0, <2>1, EntryIsOnAChain DEF SC!EmitPrepareLockout
  <2> QED
    BY <1>0, <2>1, <2>2, <2>3, FirstChainStep
<1>2. ASSUME NEW u \in Users, UserCancelLockOut(u) PROVE Timed'
  <2>1. /\ scLockout' = [scLockout EXCEPT ![u] = MC!Unlocked] /\ scBlock > scLockout[u].Expiration
        /\ UNCHANGED <<scLockin, scBlock, mcVars, mempool, nonces, crashes, nodeVars>>
        /\ Entered(SC!EmitCancelLockout(u))
    BY <1>2, HashVocabulary DEF UserCancelLockOut, Entered, OnSC, SC!cancelLockOut, SC!Lapsed, SC!Expired
  <2>2. OnAChain /\ Outs' = Outs
    BY <1>0, <2>1, EntryIsOnAChain DEF SC!EmitCancelLockout
  <2> QED
    BY <1>0, <2>1, <2>2, FirstChainStep
<1>3. ASSUME NEW u \in Users, NEW s \in Secrets, UserLockout(u, s) PROVE Timed'
  <2>1. /\ mcLockout' = [mcLockout EXCEPT ![u] = MC!Unlocked]
        /\ mcLockout[u].value > 0 /\ mcLockout[u].SecretHash = MC!Sha256(s)
        /\ UNCHANGED <<mcBlock, scVars, mempool, nonces, crashes, nodeVars>>
        /\ Entered(MC!EmitLockoutSecret(u, s)) /\ mcLog' = mcLog \cup {MC!EmitLockoutSecret(u, s)}
    BY <1>3 DEF UserLockout, Entered, OnMC, MC!lockout, MC!Opens
  <2>2. OnAChain
    BY <1>0, <2>1, EntryIsOnAChain DEF MC!EmitLockoutSecret
  <2>3. Outs' = Outs \cup {mcLockout[u].SecretHash}
    BY <2>1, SecretIsOut DEF MC!EmitLockoutSecret
  <2> QED
    BY <1>0, <2>1, <2>2, <2>3, SideLockOpens
<1>4. ASSUME NEW u \in Users, CancleLockOut(u) PROVE Timed'
  <2>1. /\ mcLockout' = [mcLockout EXCEPT ![u] = MC!Unlocked]
        /\ UNCHANGED <<mcBlock, scVars, mempool, nonces, crashes, nodeVars>>
        /\ Entered(MC!EmitCancelLockout(u))
    BY <1>4 DEF CancleLockOut, Entered, OnMC, MC!cancleLockOut
  <2>2. OnAChain /\ Outs' = Outs
    BY <1>0, <2>1, EntryIsOnAChain DEF MC!EmitCancelLockout
  <2> QED
    BY <1>0, <2>1, <2>2, SideLockEnds
<1>5. ASSUME NEW n \in Notaries, NEW u \in Users, NEW a \in Users, NEW h \in Hash,
             onMCPrepareLockoutRequest(n, u, a, h)
      PROVE  Timed'
  BY <1>5, RequestKeepsTime DEF onMCPrepareLockoutRequest, LockoutRequested, Due, Inward, Outward
<1> QED
  BY <1>1, <1>2, <1>3, <1>4, <1>5, HashVocabulary DEF LockoutUserStep

\* The transaction of a notary reverts.
LEMMA NothingMined ==
    ASSUME Typed, Typed', Timed, UNCHANGED <<mcVars, scVars, nodeVars, direction>>,
           mempool' \subseteq mempool
    PROVE  Timed'
<1>1. OnAChain
  BY DEF OnAChain, mcVars, scVars, nodeVars, Timed, LogsNamed, Log, UnusedLocks, Inward
<1> QED
  BY <1>1, ChainsSame, SideLockEnds DEF nodeVars

LEMMA TxKinds ==
    ASSUME Typed, NEW tx \in mempool
    PROVE  /\ tx.name \in {"Lockin", "Lockout"} => tx \in Claims
           /\ tx.name \in {"CancelLockin", "CancelLockOut"} => tx \in Cancels
           /\ tx.name \in Prepares => tx \in Prepared
BY DEF Typed, TxsTyped, Claims, Cancels, Prepared, Prepares

LEMMA NoticedWhenSent ==
    ASSUME Typed, Timed, NEW tx \in mempool, tx \in Prepared, NEW mined, Noticed(tx, mined, Second)
    PROVE  Settles(tx, IF mined THEN "mined" ELSE "failed")
<1>1. session[tx.from][tx.hash].stage = "sent" /\ tx.hash \in MC!Hashes /\ tx.from \in Notaries
  BY HashVocabulary DEF Timed, SentOnce, Prepared
<1> QED
  BY <1>1 DEF Noticed, Settles, Settled, Typed, InNotaries, SessionsTyped

LEMMA LockinMiningKeepsTime ==
    ASSUME Typed, Typed', Timed, OneAsked, Inward, UNCHANGED direction,
           NEW tx \in mempool, LockinMined(tx)
    PROVE  Timed'
<1> USE TxKinds DEF mcVars, scVars, nodeVars, Timed
<1>0. /\ Locks = mcLockin /\ SideLocks = scLockin /\ UnusedLocks = mcLockout
      /\ Locks' = mcLockin' /\ SideLocks' = scLockin' /\ UnusedLocks' = mcLockout'
      /\ {mcLockin, scLockin} \subseteq [AllAccounts -> LockTerms] /\ Users \subseteq AllAccounts
  BY DEF Locks, SideLocks, UnusedLocks, Inward, Typed, OnChain, LocksTyped, AllAccounts
<1>1. CASE MinedMCLockin(tx)
  <2>1. /\ tx \in Claims /\ tx.account \in Users /\ MC!Sha256(tx.secret) \in Outs
        /\ UNCHANGED <<scVars, nonces, crashes, nodeVars>> /\ mempool' \subseteq mempool
    BY <1>1 DEF MinedMCLockin, Claims, TxsTimed
  <2>2. CASE UNCHANGED mcVars
    BY <2>1, <2>2, NothingMined
  <2>3. CASE ~UNCHANGED mcVars
    <3>1. /\ mcLockin' = [mcLockin EXCEPT ![tx.account] = MC!Unlocked]
          /\ mcLockin[tx.account].SecretHash = MC!Sha256(tx.secret)
          /\ UNCHANGED <<mcLockout, mcBlock>> /\ Entered(MC!EmitLockin(tx.account))
      BY <1>1, <2>3 DEF MinedMCLockin, MC!lockin, MC!Opens, Entered
    <3>2. OnAChain /\ Outs' = Outs
      BY <1>0, <2>1, <3>1, EntryIsOnAChain DEF MC!EmitLockin
    <3> QED
      BY <1>0, <2>1, <3>1, <3>2, FirstChainStep
  <2> QED
    BY <2>2, <2>3
<1>2. CASE MinedSCCancelLockin(tx)
  <2>1. UNCHANGED <<mcVars, nonces, crashes, nodeVars>> /\ mempool' \subseteq mempool
    BY <1>2 DEF MinedSCCancelLockin
  <2>2. CASE UNCHANGED scVars
    BY <2>1, <2>2, NothingMined
  <2>3. CASE ~UNCHANGED scVars
    <3>1. /\ scLockin' = [scLockin EXCEPT ![tx.account] = MC!Unlocked]
          /\ UNCHANGED scBlock /\ Entered(SC!EmitCancelLockin(tx.account))
      BY <1>2, <2>3, HashVocabulary DEF MinedSCCancelLockin, SC!cancelLockin, Entered
    <3>2. OnAChain /\ Outs' = Outs
      BY <1>0, <2>1, <3>1, EntryIsOnAChain DEF SC!EmitCancelLockin
    <3> QED
      BY <1>0, <2>1, <3>1, <3>2, SideLockEnds
  <2> QED
    BY <2>2, <2>3
<1>3. CASE MinedSCPrepareLockin(tx)
  <2>1. /\ tx \in Prepared /\ tx.account \in Users
        /\ UNCHANGED <<mcVars, nonces, crashes, status, db, dealing, saved, fresh, seen, inbox>>
        /\ mempool' = mempool \ {tx}
    BY <1>3 DEF MinedSCPrepareLockin, Prepared, Prepares
  <2>2. CASE scLockin[tx.account].value = 0
    <3> DEFINE lock == [SecretHash |-> tx.hash, Expiration |-> tx.expiration, value |-> tx.value]
    <3>1. /\ scLockin' = [scLockin EXCEPT ![tx.account] = lock]
          /\ UNCHANGED scBlock /\ Entered(SC!EmitPrepareLockin(tx.account))
          /\ Noticed(tx, TRUE, Second)
      BY <1>3, <2>2 DEF MinedSCPrepareLockin, SC!prepareLockin, Entered, Second
    <3>2. OnAChain /\ Outs' = Outs
      BY <1>0, <2>1, <3>1, EntryIsOnAChain DEF SC!EmitPrepareLockin
    <3>3. Settles(tx, "mined")
      BY <2>1, <3>1, NoticedWhenSent
    <3>4. lock.SecretHash = tx.hash /\ lock.Expiration = tx.expiration
      OBVIOUS
    <3> HIDE DEF lock
    <3> QED
      BY <1>0, <2>1, <3>1, <3>2, <3>3, <3>4, SideLockIsSet
  <2>3. CASE scLockin[tx.account].value # 0
    <3>1. UNCHANGED scVars /\ Noticed(tx, FALSE, Second)
      BY <1>3, <2>3 DEF MinedSCPrepareLockin, Second
    <3>2. Settles(tx, "failed")
      BY <2>1, <3>1, NoticedWhenSent
    <3>3. OnAChain /\ Outs' = Outs
      BY <1>0, <2>1, <3>1, ChainsSame DEF OnAChain, LogsNamed, Log
    <3> QED
      BY <1>0, <2>1, <3>1, <3>2, <3>3, PrepareReverts
  <2> QED
    BY <2>2, <2>3
<1> QED
  BY <1>1, <1>2, <1>3 DEF LockinMined

LEMMA LockoutMiningKeepsTime ==
    ASSUME Typed, Typed', Timed, OneAsked, Outward, UNCHANGED direction,
           NEW tx \in mempool, LockoutMined(tx)
    PROVE  Timed'
<1> USE TxKinds DEF mcVars, scVars, nodeVars, Timed
<1>0. /\ Locks = scLockout /\ SideLocks = mcLockout /\ UnusedLocks = scLockin
      /\ Locks' = scLockout' /\ SideLocks' = mcLockout' /\ UnusedLocks' = scLockin'
      /\ Height(First) = scBlock
      /\ {scLockout, mcLockout} \subseteq [AllAccounts -> LockTerms] /\ Users \subseteq AllAccounts
  BY DEF Locks, SideLocks, UnusedLocks, Inward, Outward, Typed, OnChain, LocksTyped, AllAccounts,
         First, Height
<1>1. CASE MinedSCLockout(tx)
  <2>1. /\ tx \in Claims /\ tx.account \in Users /\ MC!Sha256(tx.secret) \in Outs
        /\ UNCHANGED <<mcVars, nonces, crashes, nodeVars>> /\ mempool' \subseteq mempool
    BY <1>1 DEF MinedSCLockout, Claims, TxsTimed
  <2>2. CASE UNCHANGED scVars
    BY <2>1, <2>2, NothingMined
  <2>3. CASE ~UNCHANGED scVars
    <3>1. /\ scLockout' = [scLockout EXCEPT ![tx.account] = MC!Unlocked]
          /\ scLockout[tx.account].SecretHash = MC!Sha256(tx.secret)
          /\ UNCHANGED <<scLockin, scBlock>> /\ Entered(SC!EmitLockout(tx.account))
      BY <1>1, <2>3, HashVocabulary DEF MinedSCLockout, SC!lockout, SC!Opens, Entered
    <3>2. OnAChain /\ Outs' = Outs
      BY <1>0, <2>1, <3>1, EntryIsOnAChain DEF SC!EmitLockout
    <3> QED
      BY <1>0, <2>1, <3>1, <3>2, FirstChainStep
  <2> QED
    BY <2>2, <2>3
<1>2. CASE MinedSCCancelLockOut(tx)
  <2>1. /\ UNCHANGED <<mcVars, nonces, crashes, nodeVars>> /\ mempool' \subseteq mempool
        /\ tx.account \in Users
    BY <1>2 DEF MinedSCCancelLockOut, Cancels
  <2>2. CASE UNCHANGED scVars
    BY <2>1, <2>2, NothingMined
  <2>3. CASE ~UNCHANGED scVars
    <3>1. /\ scLockout' = [scLockout EXCEPT ![tx.account] = MC!Unlocked]
          /\ scBlock > scLockout[tx.account].Expiration
          /\ UNCHANGED <<scLockin, scBlock>> /\ Entered(SC!EmitCancelLockout(tx.account))
      BY <1>2, <2>3, HashVocabulary
      DEF MinedSCCancelLockOut, SC!cancelLockOut, SC!Lapsed, SC!Expired, Entered
    <3>2. OnAChain /\ Outs' = Outs
      BY <1>0, <2>1, <3>1, EntryIsOnAChain DEF SC!EmitCancelLockout
    <3> QED
      BY <1>0, <2>1, <3>1, <3>2, FirstChainStep
  <2> QED
    BY <2>2, <2>3
<1>3. CASE MinedMCPrepareLockout(tx)
  <2> DEFINE valid == /\ tx.value > 0 /\ mcLockout[tx.account].value = 0
                      /\ tx.expiration > mcBlock + MinLockoutBlocks
  <2>1. /\ tx \in Prepared /\ tx.account \in Users
        /\ UNCHANGED <<scVars, nonces, crashes, status, db, dealing, saved, fresh, seen, inbox>>
        /\ mempool' = mempool \ {tx}
    BY <1>3 DEF MinedMCPrepareLockout, Prepared, Prepares
  <2>2. CASE valid
    <3> DEFINE lock == [SecretHash |-> tx.hash, Expiration |-> tx.expiration, value |-> tx.value]
    <3>1. /\ mcLockout' = [mcLockout EXCEPT ![tx.account] = lock]
          /\ UNCHANGED mcBlock /\ Entered(MC!EmitPrepareLockout(tx.account))
          /\ Noticed(tx, TRUE, Second)
      BY <1>3, <2>2 DEF MinedMCPrepareLockout, MC!prepareLockoutHTLC, Entered, Second, Inward, Outward
    <3>2. OnAChain /\ Outs' = Outs
      BY <1>0, <2>1, <3>1, EntryIsOnAChain DEF MC!EmitPrepareLockout
    <3>3. Settles(tx, "mined")
      BY <2>1, <3>1, NoticedWhenSent
    <3>4. lock.SecretHash = tx.hash /\ lock.Expiration = tx.expiration
      OBVIOUS
    <3> HIDE DEF lock
    <3> QED
      BY <1>0, <2>1, <3>1, <3>2, <3>3, <3>4, SideLockIsSet
  <2>3. CASE ~valid
    <3>1. UNCHANGED mcVars /\ Noticed(tx, FALSE, Second)
      BY <1>3, <2>3 DEF MinedMCPrepareLockout, Second, Inward, Outward
    <3>2. Settles(tx, "failed")
      BY <2>1, <3>1, NoticedWhenSent
    <3>3. OnAChain /\ Outs' = Outs
      BY <1>0, <2>1, <3>1, ChainsSame DEF OnAChain, LogsNamed, Log
    <3> QED
      BY <1>0, <2>1, <3>1, <3>2, <3>3, PrepareReverts
  <2> QED
    BY <2>2, <2>3
<1> QED
  BY <1>1, <1>2, <1>3 DEF LockoutMined

-----------------------------------------------------------------------------
(* What the notaries do is not on the chains.                              *)
LEMMA OffChainKeepsTime ==
    ASSUME Typed, Timed, UNCHANGED <<mcVars, scVars, direction>>,
           AllFollow', AnswersTimed', RecordsTimed', SessionsTimed', TxsTimed', SentOnce',
           \A n \in Notaries, h \in Hash :
              session[n][h].stage \in {"mined", "done"} => session'[n][h].stage \in {"mined", "done"}
    PROVE  Timed'
<1>1. UNCHANGED <<Locks, SideLocks, UnusedLocks, Outs, Standing, Covered, mcBlock, scBlock, mcLog, scLog>>
  BY ChainsSame DEF mcVars, scVars
<1>2. Apart' /\ LogsNamed' /\ LocksTimed' /\ SideLocksTimed'
  BY <1>1 DEF Timed, Apart, LogsNamed, Log, LocksTimed, SideLocksTimed
<1>3. SetOnce'
  BY <1>1, SetOnceLasts DEF Timed
<1> QED
  BY <1>2, <1>3 DEF Timed

LEMMA PollKeepsTime ==
    ASSUME Typed, Typed', Timed, UNCHANGED direction, NEW n \in Notaries, NEW c \in Chains, Poll(n, c)
    PROVE  Timed'
<1> USE DEF Poll
<1>1. GoesOn /\ First' = First /\ Second' = Second /\ Standing' = Standing /\ Covered' = Covered
      /\ \A d \in Chains : Newest(d)' = Newest(d) /\ Height(d)' = Height(d)
  BY ChainsSame
<1>2. /\ saved[n][c] \in Nat /\ seen[n][c] \in Nat /\ Height(c) \in Nat /\ Newest(c) = Height(c) - 1
      /\ Following(n, c) /\ saved[n][c] < Newest(c)
  BY DEF Typed, InNotaries, PollingTyped, OnChain, ChainTyped, Height, Newest, Timed, AllFollow
<1>3. \A m \in Notaries, d \in Chains : m # n \/ d # c =>
         /\ inbox'[m][d] = inbox[m][d] /\ saved'[m][d] = saved[m][d]
  BY DEF Typed, InNotaries, PollingTyped, MailTyped
<1>4. saved'[n][c] = Newest(c)
  BY DEF Typed, InNotaries, PollingTyped
<1>5. /\ [name |-> "NewBlock", block |-> Newest(c)] \in inbox'[n][c]
      /\ \A e \in inbox'[n][c] :
            \/ e = [name |-> "NewBlock", block |-> Newest(c)]
            \/ /\ e.name \notin {"NewBlock", "Queried"}
               /\ saved[n][c] <= e.block /\ e.block <= Newest(c) /\ e.block \in Nat
  <2>1. inbox[n][c] = {}
    BY <1>2 DEF Following
  <2>2. \A e \in Log(c) : e.name \notin {"NewBlock", "Queried"} /\ e.block \in Nat
    BY DEF Timed, LogsNamed, Typed, OnChain, LogsTyped, EventOK
  <2>3. inbox'[n][c] = {e \in Log(c) : /\ e.block <= Newest(c)
                                       /\ \/ e.block > saved[n][c]
                                          \/ fresh[n][c] /\ e.block = saved[n][c]}
                       \cup {[name |-> "NewBlock", block |-> Newest(c)]}
    BY <2>1 DEF Typed, InNotaries, MailTyped
  <2> QED
    BY <1>2, <2>2, <2>3
<1>6. AllFollow'
  <2>1. ASSUME NEW m \in Notaries, NEW d \in Chains, m # n \/ d # c PROVE Following(m, d)'
    BY <1>1, <1>3, <2>1 DEF Timed, AllFollow, Following
  <2>2. Following(n, c)'
    <3>1. Newest(c) - 1 <= seen[n][c] /\ seen[n][c] <= saved[n][c]
      BY <1>2 DEF Following
    <3>2. [name |-> "NewBlock", block |-> Newest(c)].name = "NewBlock"
          /\ [name |-> "NewBlock", block |-> Newest(c)].block = Newest(c)
      OBVIOUS
    <3> QED
      BY <1>1, <1>2, <1>4, <1>5, <3>1, <3>2 DEF Following
  <2> QED
    BY <2>1, <2>2 DEF AllFollow
<1>7. AnswersTimed'
  <2>1. First \in Chains /\ Second \in Chains
    BY DEF First, Second, Chains, Inward
  <2> QED
    BY <1>1, <1>3, <1>5, <2>1 DEF Timed, AnswersTimed
<1>8. RecordsTimed' /\ SessionsTimed' /\ TxsTimed' /\ SentOnce'
  BY <1>1, RecordsLastUnchanged, SessionsLast, TxsLast, SentOnceLasts DEF Timed, Typed
<1> QED
  BY <1>6, <1>7, <1>8, OffChainKeepsTime

-----------------------------------------------------------------------------
(* The handlers.                                                           *)

\* The event is gone; a new block was noted down.
LEMMA HandledKeepsTime ==
    ASSUME Typed, Typed', Timed, UNCHANGED <<mcVars, scVars, direction, session, saved>>,
           NEW n \in Notaries, NEW c \in Chains, NEW e \in inbox[n][c], Handled(n, c, e),
           \/ e.name = "NewBlock" /\ seen' = [seen EXCEPT ![n][c] = e.block]
           \/ e.name # "NewBlock" /\ seen' = seen,
           RecordsTimed', TxsTimed', mempool' \cap Prepared \subseteq mempool
    PROVE  Timed'
<1>1. GoesOn /\ \A d \in Chains : Newest(d)' = Newest(d) /\ Height(d)' = Height(d)
  BY ChainsSame
<1>2. \A m \in Notaries, d \in Chains :
         inbox'[m][d] = IF m = n /\ d = c THEN inbox[n][c] \ {e} ELSE inbox[m][d]
  BY DEF Handled, Typed, InNotaries, MailTyped
<1>3. \A m \in Notaries, d \in Chains : m # n \/ d # c => seen'[m][d] = seen[m][d]
  BY DEF Typed, InNotaries, PollingTyped
<1>4. AllFollow'
  <2>1. ASSUME NEW m \in Notaries, NEW d \in Chains, m # n \/ d # c PROVE Following(m, d)'
    BY <1>1, <1>2, <1>3, <2>1 DEF Timed, AllFollow, Following
  <2>2. Following(n, c)'
    <3>1. Following(n, c) /\ inbox'[n][c] = inbox[n][c] \ {e}
      BY <1>2 DEF Timed, AllFollow
    <3>2. /\ saved[n][c] \in Nat /\ seen[n][c] \in Nat /\ Newest(c) \in Int
      BY DEF Typed, InNotaries, PollingTyped, OnChain, ChainTyped, Newest, Height
    <3>3. CASE e.name = "NewBlock"
      <4>1. seen'[n][c] = e.block
        BY <3>3 DEF Typed, InNotaries, PollingTyped
      <4> QED
        BY <1>1, <3>1, <3>2, <3>3, <4>1 DEF Following
    <3>4. CASE e.name # "NewBlock"
      BY <1>1, <3>1, <3>2, <3>4 DEF Following
    <3> QED
      BY <3>3, <3>4
  <2> QED
    BY <2>1, <2>2 DEF AllFollow
<1>5. AnswersTimed' /\ SessionsTimed' /\ SentOnce'
  BY <1>1, <1>2, AnswersLast, SessionsLast, SentOnceLasts DEF Timed, Typed
<1> QED
  BY <1>4, <1>5, OffChainKeepsTime

LEMMA RefusedKeepsTime ==
    ASSUME Typed, Typed', Timed, UNCHANGED <<mcVars, scVars, direction>>,
           NEW n \in Notaries, NEW c \in Chains, NEW e \in inbox[n][c], e.name # "NewBlock",
           Refuse(n, c, e)
    PROVE  Timed'
<1>1. RecordsTimed' /\ TxsTimed'
  BY ChainsSame, RecordsLastUnchanged, TxsLast DEF Refuse, Timed
<1> QED
  BY <1>1, HandledKeepsTime DEF Refuse

\* The transactions of a handler.
LEMMA SentInTime ==
    ASSUME Typed, TxsTimed, GoesOn, NEW txs, txs \subseteq Claims \cup Cancels, Send(txs),
           \A tx \in txs : tx \in Claims => MC!Sha256(tx.secret) \in Outs
    PROVE  TxsTimed' /\ mempool' \cap Prepared \subseteq mempool
<1>1. \A tx \in txs : tx \notin Prepared
  BY DEF Claims, Cancels, Prepared, Prepares
<1>2. mempool \subseteq mempool' /\ mempool' \subseteq mempool \cup txs
  BY DEF Send
<1>3. \A tx \in Prepared : tx.hash \in Hash
  BY DEF Prepared
<1> QED
  BY <1>1, <1>2, <1>3 DEF TxsTimed, GoesOn

LEMMA RecordedKeepsTime ==
    ASSUME Typed, Typed', Timed, AllUp', UNCHANGED <<mcVars, scVars, direction>>,
           NEW n \in Notaries, NEW c \in Chains, NEW e \in inbox[n][c], e.name # "NewBlock",
           NEW hash, Known(n, hash), NEW info, NEW txs, Record(n, c, e, hash, info, txs),
           Due(info) = Due(db[n][hash]) \/ Due(info) \in Covered[hash],
           txs \subseteq Claims \cup Cancels,
           \A tx \in txs : tx \in Claims => MC!Sha256(tx.secret) \in Outs
    PROVE  Timed'
<1>0. GoesOn
  BY ChainsSame
<1>1. hash \in dealing[n]
  BY DEF Record, Panic, Stop, AllUp, Typed, InNotaries, PollingTyped
<1>2. /\ update(n, hash, info) /\ Handled(n, c, e) /\ Send(txs)
      /\ UNCHANGED <<seen, session, saved>>
  BY <1>1 DEF Record
<1>3. RecordsTimed'
  <2>1. \A m \in Notaries : /\ DOMAIN db'[m] = DOMAIN db[m]
                            /\ \A h \in DOMAIN db[m] :
                                 db'[m][h] = IF m = n /\ h = hash THEN info ELSE db[m][h]
    BY <1>2 DEF update, Typed, InNotaries, RecordsTyped, Known
  <2>2. hash \in Hash
    BY KnownIsTyped
  <2> QED
    BY <1>0, <2>1, <2>2, RecordsLast DEF Timed
<1>4. TxsTimed' /\ mempool' \cap Prepared \subseteq mempool
  BY <1>0, <1>2, SentInTime DEF Timed
<1> QED
  BY <1>2, <1>3, <1>4, HandledKeepsTime

LEMMA AskedKeepsTime ==
    ASSUME Typed, Typed', Timed, UNCHANGED <<mcVars, scVars, direction>>,
           NEW n \in Notaries, NEW c \in Chains, NEW e \in inbox[n][c],
           e.name \notin {"NewBlock", "Queried"},
           NEW lock, Query(n, c, e, lock),
           lock = IF c = First THEN Locks[e.account] ELSE SideLocks[e.account]
    PROVE  Timed'
<1>0. GoesOn /\ First' = First /\ Second' = Second /\ Standing' = Standing /\ Covered' = Covered
      /\ \A d \in Chains : Newest(d)' = Newest(d) /\ Height(d)' = Height(d)
  BY ChainsSame
<1> DEFINE new == [name |-> "Queried", account |-> e.account, block |-> e.block, lock |-> lock]
<1>1. \A m \in Notaries, d \in Chains :
         inbox'[m][d] = IF m = n /\ d = c THEN (inbox[n][c] \ {e}) \cup {new} ELSE inbox[m][d]
  BY DEF Query, Typed, InNotaries, MailTyped
<1>2. new.name = "Queried" /\ new.block = e.block /\ new.account = e.account /\ new.lock = lock
      /\ e.account \in Users
  BY MailIsTyped DEF EventOK
<1> HIDE DEF new
<1>3. AllFollow'
  <2>1. ASSUME NEW m \in Notaries, NEW d \in Chains, m # n \/ d # c PROVE Following(m, d)'
    BY <1>0, <1>1, <2>1 DEF Timed, AllFollow, Following, Query
  <2>2. Following(n, c)'
    <3>1. Following(n, c) /\ inbox'[n][c] = (inbox[n][c] \ {e}) \cup {new}
      BY <1>1 DEF Timed, AllFollow
    <3> QED
      BY <1>0, <1>2, <3>1 DEF Following, Query
  <2> QED
    BY <2>1, <2>2 DEF AllFollow
<1>4. AnswersTimed'
  <2>1. First \in Chains /\ Second \in Chains /\ First # Second
    BY DEF First, Second, Chains
  <2>2. c = First => lock = MC!Unlocked \/ lock \in Standing[e.account]
    BY <1>2 DEF Timed, LocksTimed
  <2>3. c # First => (lock.SecretHash \in Hash => lock.Expiration \in Covered[lock.SecretHash])
    BY <1>2 DEF Timed, SideLocksTimed
  <2> QED
    BY <1>0, <1>1, <1>2, <2>1, <2>2, <2>3 DEF Timed, AnswersTimed
<1>5. RecordsTimed' /\ SessionsTimed' /\ TxsTimed' /\ SentOnce'
  BY <1>0, RecordsLastUnchanged, SessionsLast, TxsLast, SentOnceLasts DEF Timed, Typed, Query
<1> QED
  BY <1>3, <1>4, <1>5, OffChainKeepsTime DEF Query

\* calculateSCExpiration and calculateMCExpiration, for a lock that stands.
LEMMA TimeIsLeft ==
    ASSUME Typed, Timed, Timely, NEW n \in Notaries, NEW e \in inbox[n][First],
           NEW a \in Users, NEW lock \in Standing[a],
           Height(First) <= lock.Expiration => lock.Expiration > MinExpiration + e.block
    PROVE  LET due == Uint64(seen[n][Second] + HalfTheTime(lock.Expiration - seen[n][First]))
           IN  due \in Covered[lock.SecretHash] /\ OnTime(lock.SecretHash, due, lock.Expiration)
<1> DEFINE x == seen[n][Second] + HalfTheTime(lock.Expiration - seen[n][First])
<1>1. First \in Chains /\ Second \in Chains
  BY DEF First, Second, Chains
<1>2. /\ Height(First) \in Nat /\ Height(Second) \in Nat
      /\ Height(First) - Height(Second) <= MaxSkew /\ Height(Second) - Height(First) <= MaxSkew
  BY DEF Typed, OnChain, ChainTyped, Height, First, Second, Inward, Timed, Apart
<1>3. \A c \in Chains : /\ seen[n][c] \in Nat /\ saved[n][c] \in Nat
                        /\ Following(n, c) /\ Newest(c) = Height(c) - 1
  BY DEF Typed, InNotaries, PollingTyped, Timed, AllFollow, Newest
<1>4. /\ Height(First) - 2 <= seen[n][First]
      /\ seen[n][First] = 0 \/ seen[n][First] <= Height(First) - 1
      /\ Height(Second) - 2 <= seen[n][Second]
      /\ seen[n][Second] = 0 \/ seen[n][Second] <= Height(Second) - 1
  BY <1>1, <1>2, <1>3 DEF Following
<1>5. e.block \in Nat /\ Height(First) - 2 <= e.block
  BY <1>1, <1>2, <1>3, MailIsTyped DEF Following, EventOK
<1>6. /\ lock \in LockTerms /\ lock.value > 0 /\ lock.Expiration > MaxSkew
      /\ lock.Expiration \in Nat /\ lock.SecretHash \in Hash
      /\ \/ lock.SecretHash \in Outs
         \/ Locks[a] = lock
         \/ Height(First) > lock.Expiration
  BY HashVocabulary DEF Standing, LockTerms
<1>7. MaxSkew \in Nat /\ MinExpiration \in Nat /\ 4 * MaxSkew < MinExpiration
  BY CrossChainNumbers DEF Timely
<1>8. CASE Height(First) > lock.Expiration
  <2>1. x \in Nat /\ x <= Height(Second)
    BY <1>1, <1>2, <1>3, <1>4, <1>6, <1>7, <1>8, LateIsOver
  <2> HIDE DEF x
  <2>2. Uint64(x) \in Nat /\ Uint64(x) <= Height(Second)
    BY <1>2, <2>1, UintArithmetic
  <2>3. Uint64(x) \in Covered[lock.SecretHash]
    BY <1>6, <2>2 DEF Covered
  <2>4. OnTime(lock.SecretHash, Uint64(x), lock.Expiration)
    BY <2>2 DEF OnTime
  <2> QED
    BY <2>3, <2>4 DEF x
<1>9. CASE Height(First) <= lock.Expiration
  <2>1. x \in Nat /\ x + MaxSkew <= lock.Expiration
    BY <1>1, <1>2, <1>3, <1>4, <1>5, <1>6, <1>7, <1>9, HalfIsInTime
  <2> HIDE DEF x
  <2>2. Uint64(x) \in Nat /\ Uint64(x) + MaxSkew <= lock.Expiration
    BY <1>6, <1>7, <2>1, UintArithmetic
  <2>3. lock.SecretHash \in Outs \/ Locks[a] = lock
    BY <1>2, <1>6, <1>9
  <2>4. Uint64(x) \in Covered[lock.SecretHash]
    BY <1>6, <2>2, <2>3 DEF Covered
  <2>5. MinExpiration < lock.Expiration
    BY <1>2, <1>5, <1>6, <1>7, <1>9
  <2>6. OnTime(lock.SecretHash, Uint64(x), lock.Expiration)
    BY <2>2, <2>5 DEF OnTime
  <2> QED
    BY <2>4, <2>6 DEF x
<1> QED
  BY <1>2, <1>6, <1>8, <1>9

LEMMA RegisteredKeepsTime ==
    ASSUME Typed, Typed', Timed,
           UNCHANGED <<mcVars, scVars, direction, mempool, status, fresh, seen, session, saved>>,
           NEW n \in Notaries, NEW c \in Chains, NEW e \in inbox[n][c], e.name # "NewBlock",
           Handled(n, c, e), NEW hash \in Hash, NEW info, register(n, hash, info),
           Due(info) \in Covered[hash]
    PROVE  Timed'
<1>0. GoesOn
  BY ChainsSame
<1>1. RecordsTimed'
  <2>1. \A m \in Notaries : \A h \in DOMAIN db'[m] :
           \/ m = n /\ h = hash /\ db'[m][h] = info
           \/ h \in DOMAIN db[m] /\ db'[m][h] = db[m][h]
    BY DEF register, Typed, InNotaries, RecordsTyped
  <2> QED
    BY <1>0, <2>1, RecordsLast DEF Timed
<1>2. TxsTimed'
  BY <1>0, TxsLast DEF Timed
<1> QED
  BY <1>1, <1>2, HandledKeepsTime

LEMMA NewBlockKeepsTime ==
    ASSUME Typed, Typed', Timed, UNCHANGED <<mcVars, scVars, direction, session, saved>>,
           NEW n \in Notaries, NEW c \in Chains, NEW e \in inbox[n][c], Handled(n, c, e),
           e.name = "NewBlock", seen' = [seen EXCEPT ![n][c] = e.block],
           \A m \in Notaries : /\ DOMAIN db'[m] = DOMAIN db[m]
                               /\ \A h \in DOMAIN db[m] : Due(db'[m][h]) = Due(db[m][h]),
           TxsTimed', mempool' \cap Prepared \subseteq mempool
    PROVE  Timed'
<1>1. RecordsTimed'
  BY ChainsSame, RecordsLast DEF Timed
<1> QED
  BY <1>1, HandledKeepsTime

\* A status changes, no expiration does.
LEMMA ExpiryKeepsDue ==
    ASSUME Typed, NEW n \in Notaries, NEW expired,
           \/ db' = [db EXCEPT ![n] = [h \in DOMAIN db[n] |->
                       IF h \in expired THEN [db[n][h] EXCEPT !.MCLockStatus = "Expiration"] ELSE db[n][h]]]
           \/ db' = [db EXCEPT ![n] = [h \in DOMAIN db[n] |->
                       IF h \in expired THEN [db[n][h] EXCEPT !.SCLockStatus = "Expiration"] ELSE db[n][h]]]
    PROVE  \A m \in Notaries : /\ DOMAIN db'[m] = DOMAIN db[m]
                               /\ \A h \in DOMAIN db[m] : Due(db'[m][h]) = Due(db[m][h])
<1>1. \A h \in DOMAIN db[n] : db[n][h] \in LockInfo
  BY DEF Typed, InNotaries, RecordsTyped, RecordOK
<1>2. \A info \in LockInfo : /\ Due([info EXCEPT !.MCLockStatus = "Expiration"]) = Due(info)
                            /\ Due([info EXCEPT !.SCLockStatus = "Expiration"]) = Due(info)
  BY DEF LockInfo, Due
<1> HIDE DEF Due
<1>3. /\ DOMAIN db'[n] = DOMAIN db[n]
      /\ \A h \in DOMAIN db[n] : db'[n][h] \in {db[n][h], [db[n][h] EXCEPT !.MCLockStatus = "Expiration"],
                                               [db[n][h] EXCEPT !.SCLockStatus = "Expiration"]}
  BY DEF Typed, InNotaries, RecordsTyped
<1>4. \A m \in Notaries \ {n} : db'[m] = db[m]
  BY DEF Typed, InNotaries, RecordsTyped
<1> QED
  BY <1>1, <1>2, <1>3, <1>4

LEMMA LockinHandlerKeepsTime ==
    ASSUME Typed, Typed', TruthInv, Timed, Timely, AllUp', Inward, UNCHANGED direction,
           NEW n \in Notaries, NEW c \in Chains, NEW e \in inbox[n][c], HandleLockin(n, c, e)
    PROVE  Timed'
<1>0. /\ First = "mc" /\ Second = "sc" /\ Locks = mcLockin /\ SideLocks = scLockin
      /\ \A info : Due(info) = info.SCExpiration
  BY DEF First, Second, Locks, SideLocks, Due, Inward
<1>a. ASSUME NEW hash, NEW info, NEW txs, Record(n, c, e, hash, info, txs), Known(n, hash),
             e.name # "NewBlock", UNCHANGED <<mcVars, scVars>>,
             info.SCExpiration = db[n][hash].SCExpiration \/ info.SCExpiration \in Covered[hash],
             txs \subseteq Claims \cup Cancels,
             \A tx \in txs : tx \in Claims => MC!Sha256(tx.secret) \in Outs
      PROVE  Timed'
  BY <1>0, <1>a, RecordedKeepsTime
<1>b. ASSUME Refuse(n, c, e), e.name # "NewBlock", UNCHANGED <<mcVars, scVars>> PROVE Timed'
  BY <1>b, RefusedKeepsTime
<1>c. \A h : Known(n, h) => db[n][h] \in LockInfo /\ RecordOK(db[n][h])
  BY KnownIsTyped DEF RecordOK
<1> USE DEF Handling
<1>1. CASE QueryLockin(n, c, e)
  BY <1>0, <1>1, AskedKeepsTime DEF QueryLockin, Chains
<1>2. CASE onMCNewBlockLockin(n, e) /\ c = "mc"
  <2>1. \A m \in Notaries : /\ DOMAIN db'[m] = DOMAIN db[m]
                            /\ \A h \in DOMAIN db[m] : Due(db'[m][h]) = Due(db[m][h])
    <3> DEFINE expired == {h \in dealing[n] : db[n][h].MCLockStatus = "Lock" /\ e.block >= db[n][h].MCExpiration}
    <3>1. db' = [db EXCEPT ![n] = [h \in DOMAIN db[n] |->
                   IF h \in expired THEN [db[n][h] EXCEPT !.MCLockStatus = "Expiration"] ELSE db[n][h]]]
      BY <1>2 DEF onMCNewBlockLockin, LockinMCExpired
    <3> HIDE DEF expired
    <3> QED
      BY <3>1, ExpiryKeepsDue
  <2>2. TxsTimed'
    BY <1>2, ChainsSame, TxsLast DEF onMCNewBlockLockin, Timed
  <2> QED
    BY <1>2, <2>1, <2>2, NewBlockKeepsTime DEF onMCNewBlockLockin
<1>3. CASE onSCNewBlockLockin(n, e) /\ c = "sc"
  <2>1. \A m \in Notaries : /\ DOMAIN db'[m] = DOMAIN db[m]
                            /\ \A h \in DOMAIN db[m] : Due(db'[m][h]) = Due(db[m][h])
    <3> DEFINE expired == {h \in dealing[n] : LockinSCExpires(db[n][h], e.block)}
    <3>1. db' = [db EXCEPT ![n] = [h \in DOMAIN db[n] |->
                   IF h \in expired THEN [db[n][h] EXCEPT !.SCLockStatus = "Expiration"] ELSE db[n][h]]]
      BY <1>3 DEF onSCNewBlockLockin
    <3> HIDE DEF expired
    <3> QED
      BY <3>1, ExpiryKeepsDue
  <2>2. PICK txs : Send(txs) /\ txs \subseteq Cancels
    <3>1. \A h \in dealing[n] : LockinSCExpires(db[n][h], e.block) =>
             [name |-> "CancelLockin", from |-> n, account |-> db[n][h].SCUserAddress] \in Cancels
      BY DEF Typed, InNotaries, RecordsTyped, DealingTyped, RecordOK, LockinSCExpires, Cancels
    <3> QED
      BY <1>3, <3>1 DEF onSCNewBlockLockin
  <2>3. \A tx \in Cancels : tx \notin Claims
    BY DEF Cancels, Claims
  <2>4. TxsTimed' /\ mempool' \cap Prepared \subseteq mempool
    BY <1>3, <2>2, <2>3, ChainsSame, SentInTime DEF onSCNewBlockLockin, Timed
  <2> QED
    BY <1>3, <2>1, <2>4, NewBlockKeepsTime DEF onSCNewBlockLockin
<1>4. CASE onMCPrepareLockin4Ethereum(n, e) /\ c = "mc"
  <2>1. CASE Refuse(n, "mc", e)
    BY <1>4, <1>b, <2>1 DEF onMCPrepareLockin4Ethereum
  <2>2. CASE ~Refuse(n, "mc", e)
    <3> DEFINE info == [MCUserAddressHex |-> e.account, SCUserAddress |-> Nobody,
                        Secret |-> NoSecret, Amount |-> e.lock.value,
                        MCExpiration |-> e.lock.Expiration,
                        SCExpiration |-> calculateSCExpiration(n, e.lock.Expiration),
                        MCLockStatus |-> "Lock", SCLockStatus |-> "None",
                        NotaryIDInCharge |-> Nobody]
    <3>1. /\ register(n, e.lock.SecretHash, info) /\ Handled(n, "mc", e)
          /\ ~(e.lock.Expiration <= MinExpiration + e.block)
          /\ UNCHANGED <<mcVars, scVars, mempool, status, fresh, seen, session, saved>>
          /\ e.name = "Queried"
      BY <1>4, <2>2 DEF onMCPrepareLockin4Ethereum
    <3>2. e.lock \in Standing[e.account] /\ e.account \in Users /\ e.block \in Nat
      <4>1. MC!Unlocked.Expiration <= MinExpiration + e.block /\ e.block \in Nat /\ e.account \in Users
        BY <3>1, MailIsTyped, HashVocabulary, CrossChainNumbers DEF EventOK
      <4> QED
        BY <1>0, <1>4, <3>1, <4>1 DEF Timed, AnswersTimed
    <3>3. e.lock.SecretHash \in Hash /\ e.lock.Expiration \in Nat
      BY <3>2, HashVocabulary DEF Standing, LockTerms
    <3>4. calculateSCExpiration(n, e.lock.Expiration) \in Covered[e.lock.SecretHash]
      BY <1>0, <1>4, <3>1, <3>2, <3>3, TimeIsLeft, CrossChainNumbers DEF calculateSCExpiration
    <3>5. Due(info) \in Covered[e.lock.SecretHash]
      BY <1>0, <3>4
    <3> HIDE DEF info
    <3> QED
      BY <1>4, <3>1, <3>3, <3>5, RegisteredKeepsTime
  <2> QED
    BY <2>1, <2>2
<1>5. CASE onSCPrepareLockin(n, e) /\ c = "sc"
  <2> DEFINE hash == e.lock.SecretHash
             info == [db[n][hash] EXCEPT !.SCExpiration = e.lock.Expiration,
                                         !.SCLockStatus = "Lock", !.SCUserAddress = e.account]
  <2>1. CASE Refuse(n, "sc", e)
    BY <1>5, <1>b, <2>1 DEF onSCPrepareLockin
  <2>2. CASE ~Refuse(n, "sc", e)
    <3>1. /\ Record(n, c, e, hash, info, {}) /\ Known(n, hash) /\ e.name = "Queried"
          /\ UNCHANGED <<mcVars, scVars>>
      BY <1>5, <2>2 DEF onSCPrepareLockin
    <3>2. hash \in Hash
      BY <3>1, KnownIsTyped
    <3>3. info.SCExpiration \in Covered[hash]
      BY <1>0, <1>5, <1>c, <3>1, <3>2 DEF Timed, AnswersTimed, LockInfo
    <3> HIDE DEF info, hash
    <3> QED
      BY <1>a, <3>1, <3>3
  <2> QED
    BY <2>1, <2>2
<1>6. CASE onSCLockinSecret(n, e) /\ c = "sc"
  <2> DEFINE hash == SC!Sha256(e.secret)
             info == [db[n][hash] EXCEPT !.Secret = e.secret, !.SCLockStatus = "Unlock"]
             tx == [name |-> "Lockin", from |-> n, secret |-> e.secret,
                    account |-> db[n][hash].MCUserAddressHex]
  <2>1. CASE Refuse(n, "sc", e)
    BY <1>6, <1>b, <2>1 DEF onSCLockinSecret
  <2>2. CASE ~Refuse(n, "sc", e)
    <3>1. /\ Record(n, c, e, hash, info, IF ClaimsEther(n, db[n][hash]) THEN {tx} ELSE {})
          /\ Known(n, hash) /\ e.name = "LockinSecret" /\ UNCHANGED <<mcVars, scVars>>
      BY <1>6, <2>2 DEF onSCLockinSecret
    <3>2. e.secret \in Secrets /\ tx \in Claims /\ tx.secret = e.secret
      BY <1>c, <3>1, MailIsTyped DEF EventOK, RecordOK, Claims
    <3>3. MC!Sha256(e.secret) \in Outs
      BY <1>6, <3>1, <3>2, HashVocabulary
      DEF TruthInv, MailIsGenuine, Genuine, Own, Outs, Minted, Log, Chains
    <3>4. info.SCExpiration = db[n][hash].SCExpiration
      BY <1>c, <3>1 DEF LockInfo
    <3> HIDE DEF info, hash, tx
    <3> QED
      BY <1>a, <3>1, <3>2, <3>3, <3>4
  <2> QED
    BY <2>1, <2>2
<1>7. CASE /\ \/ onMCLockin4Ethereum(n, e) /\ c = "mc"
              \/ onMCCancelLockin4Ethereum(n, e) /\ c = "mc"
              \/ onSCCancelLockin(n, e) /\ c = "sc"
  <2>1. \/ Refuse(n, c, e)
        \/ /\ Known(n, e.SecretHash)
           /\ \/ Record(n, c, e, e.SecretHash, [db[n][e.SecretHash] EXCEPT !.MCLockStatus = "Unlock"], {})
              \/ Record(n, c, e, e.SecretHash, [db[n][e.SecretHash] EXCEPT !.MCLockStatus = "Cancel"], {})
              \/ Record(n, c, e, e.SecretHash, [db[n][e.SecretHash] EXCEPT !.SCLockStatus = "Cancel"], {})
    BY <1>7 DEF onMCLockin4Ethereum, onMCCancelLockin4Ethereum, onSCCancelLockin
  <2>2. e.name # "NewBlock" /\ UNCHANGED <<mcVars, scVars>>
    BY <1>7 DEF onMCLockin4Ethereum, onMCCancelLockin4Ethereum, onSCCancelLockin
  <2>3. CASE Refuse(n, c, e)
    BY <1>b, <2>2, <2>3
  <2>4. CASE ~Refuse(n, c, e)
    <3>1. PICK info : /\ Known(n, e.SecretHash) /\ Record(n, c, e, e.SecretHash, info, {})
                      /\ \/ info = [db[n][e.SecretHash] EXCEPT !.MCLockStatus = "Unlock"]
                         \/ info = [db[n][e.SecretHash] EXCEPT !.MCLockStatus = "Cancel"]
                         \/ info = [db[n][e.SecretHash] EXCEPT !.SCLockStatus = "Cancel"]
      BY <2>1, <2>4
    <3>2. info.SCExpiration = db[n][e.SecretHash].SCExpiration
      BY <1>c, <3>1 DEF LockInfo
    <3> QED
      BY <1>a, <2>2, <3>1, <3>2
  <2> QED
    BY <2>3, <2>4
<1> QED
  BY <1>1, <1>2, <1>3, <1>4, <1>5, <1>6, <1>7 DEF HandleLockin

LEMMA LockoutHandlerKeepsTime ==
    ASSUME Typed, Typed', TruthInv, Timed, Timely, AllUp', Outward, UNCHANGED direction,
           NEW n \in Notaries, NEW c \in Chains, NEW e \in inbox[n][c], HandleLockout(n, c, e)
    PROVE  Timed'
<1>0. /\ First = "sc" /\ Second = "mc" /\ Locks = scLockout /\ SideLocks = mcLockout
      /\ \A info : Due(info) = info.MCExpiration
      /\ ~Inward
  BY DEF First, Second, Locks, SideLocks, Due, Inward, Outward
<1>a. ASSUME NEW hash, NEW info, NEW txs, Record(n, c, e, hash, info, txs), Known(n, hash),
             e.name # "NewBlock", UNCHANGED <<mcVars, scVars>>,
             info.MCExpiration = db[n][hash].MCExpiration \/ info.MCExpiration \in Covered[hash],
             txs \subseteq Claims \cup Cancels,
             \A tx \in txs : tx \in Claims => MC!Sha256(tx.secret) \in Outs
      PROVE  Timed'
  BY <1>0, <1>a, RecordedKeepsTime
<1>b. ASSUME Refuse(n, c, e), e.name # "NewBlock", UNCHANGED <<mcVars, scVars>> PROVE Timed'
  BY <1>b, RefusedKeepsTime
<1>c. \A h : Known(n, h) => db[n][h] \in LockInfo /\ RecordOK(db[n][h])
  BY KnownIsTyped DEF RecordOK
<1> USE DEF Handling
<1>1. CASE QueryLockout(n, c, e)
  BY <1>0, <1>1, AskedKeepsTime DEF QueryLockout, Chains
<1>2. CASE onMCNewBlockLockout(n, e) /\ c = "mc"
  <2> DEFINE expired == {h \in dealing[n] : LockoutExpires(db[n][h].MCLockStatus, db[n][h].MCExpiration, e.block)}
  <2>1. \A m \in Notaries : /\ DOMAIN db'[m] = DOMAIN db[m]
                            /\ \A h \in DOMAIN db[m] : Due(db'[m][h]) = Due(db[m][h])
    <3>1. db' = [db EXCEPT ![n] = [h \in DOMAIN db[n] |->
                   IF h \in expired THEN [db[n][h] EXCEPT !.MCLockStatus = "Expiration"] ELSE db[n][h]]]
      BY <1>2 DEF onMCNewBlockLockout
    <3> HIDE DEF expired
    <3> QED
      BY <3>1, ExpiryKeepsDue
  <2>2. PICK txs : Send(txs) /\ txs \subseteq Cancels
    <3>1. \A h \in expired :
             [name |-> "CancelLockOut", from |-> n, account |-> db[n][h].MCUserAddressHex] \in Cancels
      BY <1>0 DEF Typed, InNotaries, RecordsTyped, DealingTyped, RecordOK, LockoutExpires, Cancels
    <3> QED
      BY <1>2, <3>1 DEF onMCNewBlockLockout
  <2>3. \A tx \in Cancels : tx \notin Claims
    BY DEF Cancels, Claims
  <2>4. TxsTimed' /\ mempool' \cap Prepared \subseteq mempool
    BY <1>2, <2>2, <2>3, ChainsSame, SentInTime DEF onMCNewBlockLockout, Timed
  <2> HIDE DEF expired
  <2> QED
    BY <1>2, <2>1, <2>4, NewBlockKeepsTime DEF onMCNewBlockLockout
<1>3. CASE onSCNewBlockLockout(n, e) /\ c = "sc"
  <2>1. \A m \in Notaries : /\ DOMAIN db'[m] = DOMAIN db[m]
                            /\ \A h \in DOMAIN db[m] : Due(db'[m][h]) = Due(db[m][h])
    <3> DEFINE expired == {h \in dealing[n] :
                              LockoutExpires(db[n][h].SCLockStatus, db[n][h].SCExpiration, e.block)}
    <3>1. db' = [db EXCEPT ![n] = [h \in DOMAIN db[n] |->
                   IF h \in expired THEN [db[n][h] EXCEPT !.SCLockStatus = "Expiration"] ELSE db[n][h]]]
      BY <1>3 DEF onSCNewBlockLockout
    <3> HIDE DEF expired
    <3> QED
      BY <3>1, ExpiryKeepsDue
  <2>2. TxsTimed'
    BY <1>3, ChainsSame, TxsLast DEF onSCNewBlockLockout, Timed
  <2> QED
    BY <1>3, <2>1, <2>2, NewBlockKeepsTime DEF onSCNewBlockLockout
<1>4. CASE onSCPrepareLockout(n, e) /\ c = "sc"
  <2>1. CASE Refuse(n, "sc", e)
    BY <1>4, <1>b, <2>1 DEF onSCPrepareLockout
  <2>2. CASE ~Refuse(n, "sc", e)
    <3> DEFINE info == [MCUserAddressHex |-> Nobody, SCUserAddress |-> e.account,
                        Secret |-> NoSecret, Amount |-> e.lock.value,
                        MCExpiration |-> calculateMCExpiration(n, e.lock.Expiration),
                        SCExpiration |-> e.lock.Expiration,
                        MCLockStatus |-> "None", SCLockStatus |-> "Lock",
                        NotaryIDInCharge |-> Nobody]
    <3>0. ~Panic(n)
      BY DEF Panic, Stop, AllUp, Typed, InNotaries, PollingTyped
    <3>1. /\ register(n, e.lock.SecretHash, info) /\ Handled(n, "sc", e)
          /\ ~TooShort(e.lock, e.block) /\ e.lock.SecretHash # SC!Unlocked.SecretHash
          /\ UNCHANGED <<mcVars, scVars, mempool, status, fresh, seen, session, saved>>
          /\ e.name = "Queried"
      BY <1>4, <2>2, <3>0 DEF onSCPrepareLockout
    <3>2. e.lock \in Standing[e.account] /\ e.account \in Users /\ e.block \in Nat
      <4>1. e.block \in Nat /\ e.account \in Users
        BY <3>1, MailIsTyped DEF EventOK
      <4>2. MC!Unlocked = SC!Unlocked
        BY HashVocabulary
      <4>3. e.lock = MC!Unlocked \/ e.lock \in Standing[e.account]
        BY <1>0, <1>4, <3>1 DEF Timed, AnswersTimed
      <4> QED
        BY <3>1, <4>1, <4>2, <4>3
    <3>3. e.lock.SecretHash \in Hash /\ e.lock.Expiration \in Nat
      BY <3>2, HashVocabulary DEF Standing, LockTerms
    <3>4. Height("sc") <= e.lock.Expiration => e.lock.Expiration > MinExpiration + e.block
      <4> SUFFICES ASSUME Height("sc") <= e.lock.Expiration
                   PROVE  e.lock.Expiration > MinExpiration + e.block
        OBVIOUS
      <4>1. e.block <= Height("sc") /\ Height("sc") \in Nat
        BY <1>4 DEF Timed, AllFollow, Following, Chains, Typed, OnChain, ChainTyped, Height
      <4>2. e.lock.Expiration - e.block \in Nat
        BY <3>2, <3>3, <4>1
      <4>3. Uint64(e.lock.Expiration - e.block) \in Nat
            /\ Uint64(e.lock.Expiration - e.block) <= e.lock.Expiration - e.block
        BY <4>2, UintArithmetic
      <4> QED
        BY <3>1, <3>2, <3>3, <4>2, <4>3, CrossChainNumbers DEF TooShort
    <3>5. calculateMCExpiration(n, e.lock.Expiration) \in Covered[e.lock.SecretHash]
      BY <1>0, <1>4, <3>2, <3>4, TimeIsLeft DEF calculateMCExpiration
    <3>6. Due(info) \in Covered[e.lock.SecretHash]
      BY <1>0, <3>5
    <3> HIDE DEF info
    <3> QED
      BY <1>4, <3>1, <3>3, <3>6, RegisteredKeepsTime
  <2> QED
    BY <2>1, <2>2
<1>5. CASE onMCPrepareLockout4Ethereum(n, e) /\ c = "mc"
  <2> DEFINE hash == e.lock.SecretHash
             info == [db[n][hash] EXCEPT !.MCExpiration = e.lock.Expiration,
                                         !.MCLockStatus = "Lock", !.MCUserAddressHex = e.account]
  <2>1. CASE Refuse(n, "mc", e)
    BY <1>5, <1>b, <2>1 DEF onMCPrepareLockout4Ethereum
  <2>2. CASE ~Refuse(n, "mc", e)
    <3>1. /\ Record(n, c, e, hash, info, {}) /\ Known(n, hash) /\ e.name = "Queried"
          /\ UNCHANGED <<mcVars, scVars>>
      BY <1>5, <2>2 DEF onMCPrepareLockout4Ethereum
    <3>2. hash \in Hash
      BY <3>1, KnownIsTyped
    <3>3. info.MCExpiration \in Covered[hash]
      BY <1>0, <1>5, <1>c, <3>1, <3>2 DEF Timed, AnswersTimed, LockInfo
    <3> HIDE DEF info, hash
    <3> QED
      BY <1>a, <3>1, <3>3
  <2> QED
    BY <2>1, <2>2
<1>6. CASE onMCLockoutSecret4Ethereum(n, e) /\ c = "mc"
  <2> DEFINE hash == MC!Sha256(e.secret)
             info == [db[n][hash] EXCEPT !.Secret = e.secret, !.MCLockStatus = "Unlock"]
             tx == [name |-> "Lockout", from |-> n, secret |-> e.secret,
                    account |-> db[n][hash].SCUserAddress]
  <2>1. CASE Refuse(n, "mc", e)
    BY <1>6, <1>b, <2>1 DEF onMCLockoutSecret4Ethereum
  <2>2. CASE ~Refuse(n, "mc", e)
    <3>1. /\ Record(n, c, e, hash, info, IF ClaimsTokens(n, db[n][hash]) THEN {tx} ELSE {})
          /\ Known(n, hash) /\ e.name = "LockoutSecret" /\ UNCHANGED <<mcVars, scVars>>
      BY <1>6, <2>2 DEF onMCLockoutSecret4Ethereum
    <3>2. e.secret \in Secrets /\ tx \in Claims /\ tx.secret = e.secret
      BY <1>c, <3>1, MailIsTyped DEF EventOK, RecordOK, Claims
    <3>3. MC!Sha256(e.secret) \in Outs
      BY <1>0, <1>6, <3>1, <3>2
      DEF TruthInv, MailIsGenuine, Genuine, Own, Outs, Released, Log, Chains, Hash
    <3>4. info.MCExpiration = db[n][hash].MCExpiration
      BY <1>c, <3>1 DEF LockInfo
    <3> HIDE DEF info, hash, tx
    <3> QED
      BY <1>a, <3>1, <3>2, <3>3, <3>4
  <2> QED
    BY <2>1, <2>2
<1>7. CASE /\ \/ onSCLockout(n, e) /\ c = "sc"
              \/ onMCCancelLockout4Ethereum(n, e) /\ c = "mc"
              \/ onSCCancelLockout(n, e) /\ c = "sc"
  <2>1. \/ Refuse(n, c, e)
        \/ /\ Known(n, e.SecretHash)
           /\ \/ Record(n, c, e, e.SecretHash, [db[n][e.SecretHash] EXCEPT !.SCLockStatus = "Unlock"], {})
              \/ Record(n, c, e, e.SecretHash, [db[n][e.SecretHash] EXCEPT !.MCLockStatus = "Cancel"], {})
              \/ Record(n, c, e, e.SecretHash, [db[n][e.SecretHash] EXCEPT !.SCLockStatus = "Cancel"], {})
    BY <1>7 DEF onSCLockout, onMCCancelLockout4Ethereum, onSCCancelLockout
  <2>2. e.name # "NewBlock" /\ UNCHANGED <<mcVars, scVars>>
    BY <1>7 DEF onSCLockout, onMCCancelLockout4Ethereum, onSCCancelLockout
  <2>3. CASE Refuse(n, c, e)
    BY <1>b, <2>2, <2>3
  <2>4. CASE ~Refuse(n, c, e)
    <3>1. PICK info : /\ Known(n, e.SecretHash) /\ Record(n, c, e, e.SecretHash, info, {})
                      /\ \/ info = [db[n][e.SecretHash] EXCEPT !.SCLockStatus = "Unlock"]
                         \/ info = [db[n][e.SecretHash] EXCEPT !.MCLockStatus = "Cancel"]
                         \/ info = [db[n][e.SecretHash] EXCEPT !.SCLockStatus = "Cancel"]
      BY <2>1, <2>4
    <3>2. info.MCExpiration = db[n][e.SecretHash].MCExpiration
      BY <1>c, <3>1 DEF LockInfo
    <3> QED
      BY <1>a, <2>2, <3>1, <3>2
  <2> QED
    BY <2>3, <2>4
<1> QED
  BY <1>1, <1>2, <1>3, <1>4, <1>5, <1>6, <1>7 DEF HandleLockout

-----------------------------------------------------------------------------
(* The sessions.                                                           *)

\* One session goes on from a stage to the next.
LEMMA OthersGoOn ==
    ASSUME Typed, NEW n \in Notaries, NEW h \in Hash, NEW s, session' = [session EXCEPT ![n][h] = s]
    PROVE  /\ session'[n][h] = s
           /\ \A m \in Notaries, k \in Hash : m # n \/ k # h => session'[m][k] = session[m][k]
BY HashVocabulary DEF Typed, InNotaries, SessionsTyped

LEMMA AnswerKeepsTime ==
    ASSUME Typed, Typed', Timed, UNCHANGED direction, NEW n \in Notaries, NEW m \in Notaries,
           NEW h \in Hash, NEW agrees, NEW info, Answer(n, m, h, agrees, info),
           agrees => Known(m, h) /\ Due(info) = session[n][h].expiration
    PROVE  Timed'
<1>1. m \in session[n][h].asked /\ SessionOK(session[n][h]) /\ h \in MC!Hashes
  BY HashVocabulary DEF Answer, Typed, InNotaries, SessionsTyped
<1>2. session[n][h].expiration \in Covered[h]
  BY <1>1 DEF Timed, SessionsTimed
<1>3. PICK s : /\ session' = [session EXCEPT ![n][h] = s]
               /\ s.stage = session[n][h].stage /\ s.expiration = session[n][h].expiration
               /\ s.asked \subseteq session[n][h].asked
  <2>1. CASE agrees
    <3> DEFINE t == [session[n][h] EXCEPT !.asked = @ \ {m}, !.agreed = @ \cup {m}]
    <3>1. session' = [session EXCEPT ![n][h] = t]
      BY <1>1, <2>1 DEF Answer, Typed, InNotaries, SessionsTyped
    <3>2. /\ t.stage = session[n][h].stage /\ t.expiration = session[n][h].expiration
          /\ t.asked \subseteq session[n][h].asked
      BY <1>1 DEF SessionOK, SessionRecord
    <3> HIDE DEF t
    <3> QED
      BY <3>1, <3>2
  <2>2. CASE ~agrees
    <3> DEFINE t == [session[n][h] EXCEPT !.asked = @ \ {m}]
    <3>1. session' = [session EXCEPT ![n][h] = t]
      BY <2>2 DEF Answer
    <3>2. /\ t.stage = session[n][h].stage /\ t.expiration = session[n][h].expiration
          /\ t.asked \subseteq session[n][h].asked
      BY <1>1 DEF SessionOK, SessionRecord
    <3> HIDE DEF t
    <3> QED
      BY <3>1, <3>2
  <2> QED
    BY <2>1, <2>2
<1>4. \A a \in Notaries, k \in Hash :
         /\ session'[a][k].expiration = session[a][k].expiration
         /\ session'[a][k].stage = session[a][k].stage
         /\ session'[a][k].asked \subseteq session[a][k].asked
  BY <1>3, OthersGoOn
<1>5. GoesOn /\ \A c \in Chains : Newest(c)' = Newest(c) /\ Height(c)' = Height(c)
  BY ChainsSame DEF Answer
<1>6. RecordsTimed'
  <2>1. CASE agrees
    <3>1. \A a \in Notaries : /\ DOMAIN db'[a] = DOMAIN db[a]
                              /\ \A k \in DOMAIN db[a] :
                                   db'[a][k] = IF a = m /\ k = h THEN info ELSE db[a][k]
      BY <2>1 DEF Answer, update, Typed, InNotaries, RecordsTyped, Known
    <3> QED
      BY <1>2, <1>5, <2>1, <3>1, RecordsLast DEF Timed
  <2>2. CASE ~agrees
    BY <1>5, <2>2, RecordsLastUnchanged DEF Answer, Timed
  <2> QED
    BY <2>1, <2>2
<1>7. AllFollow' /\ AnswersTimed' /\ SessionsTimed' /\ TxsTimed' /\ SentOnce'
  BY <1>4, <1>5, FollowingLasts, AnswersLast, SessionsLast, TxsLast, SentOnceLasts DEF Answer, Timed, Typed
<1> QED
  BY <1>4, <1>6, <1>7, OffChainKeepsTime DEF Answer

LEMMA CallKeepsTime ==
    ASSUME Typed, Typed', Timed, UNCHANGED direction, NEW n \in Notaries, NEW h \in Hash,
           NEW name \in Prepares, callPrepare(n, h, name)
    PROVE  Timed'
<1>0. SessionOK(session[n][h]) /\ session[n][h].stage = "signing"
  BY HashVocabulary DEF callPrepare, Typed, InNotaries, SessionsTyped
<1> DEFINE tx == [name |-> name, from |-> n, account |-> session[n][h].account, hash |-> h,
                  expiration |-> session[n][h].expiration, value |-> session[n][h].amount]
<1>1. PICK s : /\ session' = [session EXCEPT ![n][h] = s]
               /\ s.expiration = session[n][h].expiration /\ s.asked = session[n][h].asked
               /\ \/ s.stage = "sent" /\ mempool' = mempool \cup {tx}
                  \/ s.stage = "failed" /\ mempool' = mempool
  <2>1. PICK sent \in BOOLEAN :
           /\ session' = [session EXCEPT ![n][h] =
                             [session[n][h] EXCEPT !.stage = IF sent THEN "sent" ELSE "failed"]]
           /\ mempool' = IF sent THEN mempool \cup {tx} ELSE mempool
    BY CrossChainNumbers DEF callPrepare
  <2> DEFINE t == [session[n][h] EXCEPT !.stage = IF sent THEN "sent" ELSE "failed"]
  <2>2. /\ t.stage = (IF sent THEN "sent" ELSE "failed")
        /\ t.expiration = session[n][h].expiration /\ t.asked = session[n][h].asked
    BY <1>0 DEF SessionOK, SessionRecord
  <2>3. session' = [session EXCEPT ![n][h] = t]
    BY <2>1
  <2> HIDE DEF t, tx
  <2> QED
    BY <2>1, <2>2, <2>3
<1>2. /\ tx.from = n /\ tx.hash = h /\ tx.expiration \in Covered[h] /\ tx \notin Claims
  BY <1>0 DEF Timed, SessionsTimed, Requested, Claims, Prepares
<1> HIDE DEF tx
<1>3. /\ session'[n][h] = s
      /\ \A m \in Notaries, k \in Hash : m # n \/ k # h => session'[m][k] = session[m][k]
  BY <1>1, OthersGoOn
<1>4. GoesOn /\ \A c \in Chains : Newest(c)' = Newest(c) /\ Height(c)' = Height(c)
  BY ChainsSame DEF callPrepare
<1>5. \A ty \in Prepared : ty.hash \in Hash /\ ty.from \in Notaries
  BY DEF Prepared
<1>6. \A ty \in mempool \cap Prepared : ty.from # n \/ ty.hash # h
  BY <1>0, <1>5 DEF Timed, SentOnce
<1>7. TxsTimed'
  BY <1>1, <1>2, <1>4, <1>5 DEF TxsTimed, Timed, GoesOn
<1>8. SentOnce'
  BY <1>1, <1>2, <1>3, <1>5, <1>6 DEF SentOnce, Timed
<1>9. SessionsTimed'
  BY <1>0, <1>1, <1>3, <1>4, SessionsLast DEF Timed
<1>10. AllFollow' /\ AnswersTimed' /\ RecordsTimed'
  BY <1>4, FollowingLasts, AnswersLast, RecordsLastUnchanged DEF callPrepare, Timed
<1> QED
  BY <1>0, <1>3, <1>7, <1>8, <1>9, <1>10, OffChainKeepsTime DEF callPrepare

LEMMA ChargeKeepsTime ==
    ASSUME Typed, Typed', Timed, AllUp', UNCHANGED direction, NEW n \in Notaries, NEW h \in Hash,
           takeCharge(n, h)
    PROVE  Timed'
<1>0. SessionOK(session[n][h]) /\ session[n][h].stage = "mined"
  BY HashVocabulary DEF takeCharge, Receipted, Typed, InNotaries, SessionsTyped
<1>1. h \in dealing[n]
  BY DEF takeCharge, Stop, AllUp, Typed, InNotaries, PollingTyped
<1>2. PICK s : /\ session' = [session EXCEPT ![n][h] = s] /\ s.stage = "done"
               /\ s.expiration = session[n][h].expiration /\ s.asked = session[n][h].asked
  <2> DEFINE t == [session[n][h] EXCEPT !.stage = "done"]
  <2>1. session' = [session EXCEPT ![n][h] = t]
    BY <1>1 DEF takeCharge
  <2>2. t.stage = "done" /\ t.expiration = session[n][h].expiration /\ t.asked = session[n][h].asked
    BY <1>0 DEF SessionOK, SessionRecord
  <2> HIDE DEF t
  <2> QED
    BY <2>1, <2>2
<1>3. /\ session'[n][h] = s
      /\ \A m \in Notaries, k \in Hash : m # n \/ k # h => session'[m][k] = session[m][k]
  BY <1>2, OthersGoOn
<1>4. GoesOn /\ \A c \in Chains : Newest(c)' = Newest(c) /\ Height(c)' = Height(c)
  BY ChainsSame DEF takeCharge
<1>5. RecordsTimed'
  <2>1. Due([db[n][h] EXCEPT !.NotaryIDInCharge = n]) = Due(db[n][h]) /\ h \in DOMAIN db[n]
    BY <1>1 DEF Typed, InNotaries, RecordsTyped, DealingTyped, RecordOK, LockInfo, Due
  <2>2. \A m \in Notaries : /\ DOMAIN db'[m] = DOMAIN db[m]
                            /\ \A k \in DOMAIN db[m] :
                                 db'[m][k] = IF m = n /\ k = h THEN [db[n][h] EXCEPT !.NotaryIDInCharge = n]
                                             ELSE db[m][k]
    BY <1>1, <2>1 DEF takeCharge, update, Typed, InNotaries, RecordsTyped
  <2> QED
    BY <1>4, <2>1, <2>2, RecordsLast DEF Timed
<1>6. AllFollow' /\ AnswersTimed' /\ SessionsTimed' /\ TxsTimed' /\ SentOnce'
  BY <1>0, <1>1, <1>2, <1>3, <1>4, FollowingLasts, AnswersLast, SessionsLast, TxsLast, SentOnceLasts
  DEF takeCharge, Timed, Typed
<1> QED
  BY <1>0, <1>1, <1>2, <1>3, <1>5, <1>6, OffChainKeepsTime DEF takeCharge

LEMMA NotaryKeepsTime ==
    ASSUME Typed, Typed', TruthInv, Timed, Timely, AllUp', NEW n \in Notaries, NotaryStep(n)
    PROVE  Timed'
<1>0. UNCHANGED direction
  BY DEF NotaryStep
<1>1. ASSUME NEW c \in Chains, Poll(n, c) PROVE Timed'
  BY <1>0, <1>1, PollKeepsTime
<1>2. ASSUME NEW h \in Hash, callSCPrepareLockin(n, h) \/ callMCPrepareLockout(n, h) \/ takeCharge(n, h)
      PROVE  Timed'
  BY <1>0, <1>2, CallKeepsTime, ChargeKeepsTime
  DEF callSCPrepareLockin, callMCPrepareLockout, Prepares
<1>3. ASSUME Inward, NEW m \in Notaries, NEW h \in Hash, checkPrepareLockin(n, m, h) PROVE Timed'
  <2> DEFINE info == LockinEndorsed(db[m][h], n, session[n][h].expiration)
             agrees == LockinSignable(m, h, session[n][h])
  <2>1. agrees => Known(m, h) /\ Due(info) = session[n][h].expiration
    BY <1>3, KnownIsTyped DEF LockinSignable, LockinRequested, LockinEndorsed, Due, RecordOK, LockInfo
  <2>2. Answer(n, m, h, agrees, info)
    BY <1>3 DEF checkPrepareLockin
  <2> HIDE DEF info, agrees
  <2> QED
    BY <1>0, <2>1, <2>2, AnswerKeepsTime
<1>4. ASSUME Outward, NEW m \in Notaries, NEW h \in Hash, checkPrepareLockout(n, m, h) PROVE Timed'
  <2> DEFINE info == LockoutEndorsed(db[m][h], n, session[n][h].expiration)
             agrees == LockoutSignable(m, h, session[n][h])
  <2>1. agrees => Known(m, h) /\ Due(info) = session[n][h].expiration
    BY <1>4, KnownIsTyped
    DEF LockoutSignable, LockoutRequested, LockoutEndorsed, Due, RecordOK, LockInfo, Inward, Outward
  <2>2. Answer(n, m, h, agrees, info)
    BY <1>4 DEF checkPrepareLockout
  <2> HIDE DEF info, agrees
  <2> QED
    BY <1>0, <2>1, <2>2, AnswerKeepsTime
<1>5. CASE Inward /\ LockinNotaryStep(n)
  <2>1. ASSUME NEW c \in Chains, NEW e \in inbox[n][c], HandleLockin(n, c, e) PROVE Timed'
    BY <1>0, <1>5, <2>1, LockinHandlerKeepsTime
  <2>2. CASE LockinSessionStep(n)
    BY <1>2, <1>3, <1>5, <2>2 DEF LockinSessionStep, Hash
  <2> QED
    BY <1>1, <1>5, <2>1, <2>2 DEF LockinNotaryStep
<1>6. CASE Outward /\ LockoutNotaryStep(n)
  <2>1. ASSUME NEW c \in Chains, NEW e \in inbox[n][c], HandleLockout(n, c, e) PROVE Timed'
    BY <1>0, <1>6, <2>1, LockoutHandlerKeepsTime
  <2>2. CASE LockoutSessionStep(n)
    BY <1>2, <1>4, <1>6, <2>2, HashVocabulary DEF LockoutSessionStep
  <2> QED
    BY <1>1, <1>6, <2>1, <2>2 DEF LockoutNotaryStep
<1> QED
  BY <1>5, <1>6 DEF NotaryStep

-----------------------------------------------------------------------------
(* All steps.                                                              *)
LEMMA InitIsTimed == Init => Timed
<1> SUFFICES ASSUME Init PROVE Timed
  OBVIOUS
<1>1. Typed /\ InitNotaries
  BY InitIsTyped DEF Init, LockinInit, LockoutInit
<1>2. /\ \A a \in Users : Locks[a] = MC!Unlocked /\ SideLocks[a] = MC!Unlocked
                          /\ UnusedLocks[a] = MC!Unlocked
      /\ mcBlock = 0 /\ scBlock = 0
  BY HashVocabulary
  DEF Init, LockinInit, LockoutInit, MC!Init, SC!Init, Locks, SideLocks, UnusedLocks, Inward, Outward,
      AllAccounts
<1>3. MC!Unlocked.value = 0 /\ MC!Unlocked.SecretHash \notin Hash
  BY HashVocabulary
<1>4. /\ Apart /\ LogsNamed /\ LocksTimed /\ SideLocksTimed
  BY <1>1, <1>2, <1>3, CrossChainNumbers
  DEF Apart, LogsNamed, Log, LocksTimed, SideLocksTimed, InitNotaries
<1>5. AllFollow /\ AnswersTimed
  BY <1>1, <1>2 DEF AllFollow, Following, AnswersTimed, InitNotaries, Newest, Height, First, Second, Chains
<1>6. RecordsTimed /\ TxsTimed /\ SentOnce
  BY <1>1 DEF RecordsTimed, TxsTimed, SentOnce, InitNotaries
<1>7. SessionsTimed
  BY <1>1, HashVocabulary DEF SessionsTimed, Requested, Idle, InitNotaries
<1>8. SetOnce
  BY <1>1, <1>2, <1>3 DEF SetOnce, Outs, Minted, Released, InitNotaries
<1> QED
  BY <1>4, <1>5, <1>6, <1>7, <1>8 DEF Timed

LEMMA NextKeepsTime ==
    ASSUME Timely, Typed, Typed', TruthInv, Calm, Calm', Timed, [Next]_transferVars
    PROVE  Timed'
<1> USE DEF Calm
<1>1. CASE MCGrows \/ SCGrows
  BY <1>1, GrowthKeepsTime DEF Timely
<1>2. CASE UserStep
  BY <1>2, LockinUserKeepsTime, LockoutUserKeepsTime DEF UserStep
<1>3. CASE Mining
  BY <1>3, LockinMiningKeepsTime, LockoutMiningKeepsTime DEF Mining
<1>4. ASSUME NEW n \in Notaries, NotaryStep(n) PROVE Timed'
  BY <1>4, NotaryKeepsTime
<1>5. ASSUME NEW n \in Notaries PROVE ~StartStop(n)
  BY DEF StartStop, Crash, Restart, Stop, AllUp, Typed, InNotaries, PollingTyped
<1>6. CASE UNCHANGED transferVars
  <2>1. UNCHANGED <<mcVars, scVars, direction, mempool, db, saved, seen, inbox, session>>
    BY <1>6 DEF transferVars, vars, nodeVars
  <2>2. GoesOn /\ \A c \in Chains : Newest(c)' = Newest(c) /\ Height(c)' = Height(c)
    BY <2>1, ChainsSame
  <2>3. AllFollow' /\ AnswersTimed' /\ RecordsTimed' /\ SessionsTimed' /\ TxsTimed' /\ SentOnce'
    BY <2>1, <2>2, FollowingLasts, AnswersLast, RecordsLastUnchanged, SessionsLast, TxsLast, SentOnceLasts
    DEF Timed, Typed
  <2> QED
    BY <2>1, <2>3, OffChainKeepsTime
<1> QED
  BY <1>1, <1>2, <1>3, <1>4, <1>5, <1>6 DEF Next

(* The inductive invariant: whatever says when a side lock may end, that   *)
(* is a record, a session, a transaction on its way, an answer of a        *)
(* contract or the lock itself, says so while the lock of a user outlasts  *)
(* it by MaxSkew blocks, unless it is past or the secret is out.           *)
THEOREM AlwaysTimed == ASSUME Timely PROVE Spec /\ []Calm => []Timed
<1>1. ASSUME Typed, Typed', TruthInv, Calm, Calm', Timed, [Next]_transferVars PROVE Timed'
  BY <1>1, NextKeepsTime
<1> QED
  BY <1>1, InitIsTimed, AlwaysTyped, AlwaysTold, PTL DEF Spec

\* What the invariant says of a side lock that may still be opened.
LEMMA SideLocksEndFirst ==
    ASSUME Typed, Timed, NEW a \in Users, SideLocks[a].value > 0,
           SideLocks[a].Expiration > Height(Second)
    PROVE  \E u \in Users : /\ Locks[u].SecretHash = SideLocks[a].SecretHash
                            /\ Locks[u].value > 0 /\ Locks[u].Expiration > Height(First)
<1>1. Locks \in [AllAccounts -> LockTerms] /\ SideLocks \in [AllAccounts -> LockTerms]
  BY DEF Typed, OnChain, LocksTyped, Locks, SideLocks
<1>2. SideLocks[a].SecretHash \in Hash /\ SideLocks[a].Expiration \in Nat
  BY <1>1, HashVocabulary DEF LockTerms, AllAccounts
<1>3. /\ Height(First) \in Nat /\ Height(Second) \in Nat /\ MaxSkew \in Nat
      /\ Height(First) - Height(Second) <= MaxSkew
  BY CrossChainNumbers DEF Typed, OnChain, ChainTyped, Height, First, Second, Inward, Timed, Apart
<1>4. SideLocks[a].Expiration \in Covered[SideLocks[a].SecretHash]
      /\ SideLocks[a].SecretHash \notin Outs
  BY <1>2 DEF Timed, SideLocksTimed, SetOnce
<1>5. PICK u \in Users : /\ Locks[u].SecretHash = SideLocks[a].SecretHash /\ Locks[u].value > 0
                         /\ SideLocks[a].Expiration + MaxSkew <= Locks[u].Expiration
  BY <1>2, <1>3, <1>4 DEF Covered
<1>6. Locks[u].Expiration \in Nat
  BY <1>1, HashVocabulary DEF AllAccounts
<1> QED
  BY <1>2, <1>3, <1>5, <1>6

LEMMA TimedIsInOrder == Typed /\ Timed => SideLockEndsFirst /\ MainLockEndsFirst
<1> SUFFICES ASSUME Typed, Timed PROVE SideLockEndsFirst /\ MainLockEndsFirst
  OBVIOUS
<1>1. CASE Inward
  <2>1. /\ Locks = mcLockin /\ SideLocks = scLockin /\ UnusedLocks = mcLockout
        /\ Height(First) = mcBlock /\ Height(Second) = scBlock
    BY <1>1 DEF Locks, SideLocks, UnusedLocks, First, Second, Height
  <2>2. SideLockEndsFirst
    BY <2>1, SideLocksEndFirst DEF SideLockEndsFirst, MC!Alive, SC!Alive
  <2>3. MainLockEndsFirst
    BY <2>1 DEF MainLockEndsFirst, Timed, LocksTimed
  <2> QED
    BY <2>2, <2>3
<1>2. CASE ~Inward
  <2>1. /\ Locks = scLockout /\ SideLocks = mcLockout /\ UnusedLocks = scLockin
        /\ Height(First) = scBlock /\ Height(Second) = mcBlock
    BY <1>2 DEF Locks, SideLocks, UnusedLocks, First, Second, Height
  <2>2. MainLockEndsFirst
    BY <2>1, SideLocksEndFirst DEF MainLockEndsFirst, MC!Alive, SC!Alive
  <2>3. SideLockEndsFirst
    BY <2>1 DEF SideLockEndsFirst, Timed, LocksTimed
  <2> QED
    BY <2>2, <2>3
<1> QED
  BY <1>1, <1>2

(* SideLockEndsFirst: as long as a user can mint the tokens of a lockin,   *)
(* the ether is locked with the same hash and has not expired              *)
(* (calculateSCExpiration), for any MinExpiration and drift of the chains. *)
THEOREM SideLockInTime == ASSUME Timely PROVE Spec /\ []Calm => []SideLockEndsFirst
BY AlwaysTimed, TimedIsInOrder, AlwaysTyped, PTL

(* MainLockEndsFirst: as long as a user can take the ether of a lockout,   *)
(* the tokens are locked with the same hash and have not expired           *)
(* (calculateMCExpiration), the unsigned difference of onSCPrepareLockout  *)
(* included.                                                               *)
THEOREM MainLockInTime == ASSUME Timely PROVE Spec /\ []Calm => []MainLockEndsFirst
BY AlwaysTimed, TimedIsInOrder, AlwaysTyped, PTL

-----------------------------------------------------------------------------
(* What was set, and for whom.  A side lock, the events it leaves in the   *)
(* log and the session of the notary that set it are about one transfer    *)
(* and one account.  So an event that opens a side lock is of the account  *)
(* it was set for; and a notary that has not got the receipt yet, once a   *)
(* block is complete, set its lock in that block.                          *)
Mined        == {"mined", "done"}
SetFor(a, h) == \E n \in Notaries : session[n][h].stage \in Mined /\ session[n][h].account = a
SetName      == IF Inward THEN "PrepareLockin" ELSE "PrepareLockout"
RevealName   == IF Inward THEN "LockinSecret" ELSE "LockoutSecret"
Reveals(e, h) == e.name = RevealName /\ MC!Sha256(e.secret) = h

TxAccounts == \A tx \in mempool \cap Prepared : session[tx.from][tx.hash].account = tx.account
SideAccounts == \A a \in Users : SideLocks[a].SecretHash \in Hash => SetFor(a, SideLocks[a].SecretHash)
LoggedPrepares == \A e \in Log(Second) : e.name \in Prepares => \E h \in Hash : SetFor(e.account, h)
LoggedReveals == \A e \in Log(Second), h \in Hash : Reveals(e, h) => SetFor(e.account, h)
Receipts == \A n \in Notaries, h \in Hash : session[n][h].stage = "mined" =>
    LET s == session[n][h]
    IN  /\ s.receipt.chain = Second /\ s.receipt.block <= Height(Second)
        /\ \E p \in Log(Second) : p.name = SetName /\ p.account = s.account /\ p.block = s.receipt.block

Accounted == TxAccounts /\ SideAccounts /\ LoggedPrepares /\ LoggedReveals /\ Receipts

\* Sessions that were mined go on to the end, with the account and the receipt.
MinedStay == \A n \in Notaries, h \in Hash : session[n][h].stage \in Mined =>
    session'[n][h].stage \in Mined /\ session'[n][h].account = session[n][h].account
SessionsSettle == MinedStay /\ \A n \in Notaries, h \in Hash : session'[n][h].stage = "mined" =>
    session[n][h].stage = "mined" /\ session'[n][h].receipt = session[n][h].receipt

LEMMA SettledStays ==
    ASSUME MinedStay, NEW a, NEW h \in Hash, SetFor(a, h)
    PROVE  SetFor(a, h)'
BY DEF MinedStay, SetFor

LEMMA AccountsGoOn ==
    ASSUME Typed, Typed', Accounted, UNCHANGED direction, SessionsSettle, TxAccounts',
           Height(Second) <= Height(Second)', Log(Second) \subseteq Log(Second)',
           \A a \in Users : SideLocks'[a] \in {SideLocks[a], MC!Unlocked},
           \A e \in Log(Second)' \ Log(Second) :
              e.name \notin Prepares /\ \A h \in Hash : Reveals(e, h) => SetFor(e.account, h)
    PROVE  Accounted'
<1> USE DEF Accounted
<1>1. /\ Second' = Second /\ SetName' = SetName /\ \A e, h : Reveals(e, h)' <=> Reveals(e, h)
      /\ {Height(Second), Height(Second)'} \subseteq Nat
  BY DEF Second, SetName, Reveals, RevealName, Inward, Typed, OnChain, ChainTyped, Height
<1>2. SideAccounts'
  <2> SUFFICES ASSUME NEW a \in Users, NEW h \in Hash, SideLocks'[a].SecretHash = h
               PROVE  SetFor(a, h)'
    BY DEF SideAccounts, SetFor
  <2>1. SideLocks[a].SecretHash = h
    <3>1. MC!Unlocked.SecretHash = {} /\ {} \notin Hash
      BY HashVocabulary
    <3> QED
      BY <3>1
  <2> QED
    BY <2>1, SettledStays DEF SessionsSettle, SideAccounts
<1>3. LoggedPrepares'
  <2> SUFFICES ASSUME NEW e \in Log(Second)', e.name \in Prepares PROVE \E h \in Hash : SetFor(e.account, h)'
    BY DEF LoggedPrepares, SetFor
  <2>1. PICK h \in Hash : SetFor(e.account, h)
    BY DEF LoggedPrepares
  <2> QED
    BY <2>1, SettledStays DEF SessionsSettle
<1>4. LoggedReveals'
  <2> SUFFICES ASSUME NEW e \in Log(Second)', NEW h \in Hash, Reveals(e, h) PROVE SetFor(e.account, h)'
    BY <1>1 DEF LoggedReveals, SetFor
  <2>1. SetFor(e.account, h)
    BY DEF LoggedReveals
  <2> QED
    BY <2>1, SettledStays DEF SessionsSettle
<1>5. Receipts'
  <2> SUFFICES ASSUME NEW n \in Notaries, NEW h \in Hash, session'[n][h].stage = "mined",
                      NEW s, s = session[n][h]
               PROVE  /\ s.receipt.chain = Second /\ s.receipt.block <= Height(Second)'
                      /\ \E p \in Log(Second)' : /\ p.name = SetName /\ p.account = s.account
                                                 /\ p.block = s.receipt.block
    BY <1>1 DEF Receipts, SessionsSettle, MinedStay, Mined
  <2>1. s.stage = "mined"
    BY DEF SessionsSettle, MinedStay
  <2>2. s.receipt.block \in Nat
    BY HashVocabulary DEF Typed, InNotaries, SessionsTyped, SessionOK, SessionRecord
  <2>3. s.receipt.chain = Second /\ s.receipt.block <= Height(Second)
    BY <2>1 DEF Receipts
  <2>4. PICK p \in Log(Second) : p.name = SetName /\ p.account = s.account /\ p.block = s.receipt.block
    BY <2>1 DEF Receipts
  <2> QED
    BY <1>1, <2>2, <2>3, <2>4
<1> QED
  BY <1>2, <1>3, <1>4, <1>5

\* Steps of the notaries.
LEMMA OffChainKeepsAccounts ==
    ASSUME Typed, Typed', Accounted, OffChain, SessionsSettle, TxAccounts'
    PROVE  Accounted'
<1>1. SideLocks' = SideLocks /\ Second' = Second /\ Second \in Chains /\ UNCHANGED direction
  BY ChainsSame DEF OffChain, Second, Chains
<1>2. Log(Second)' = Log(Second) /\ Height(Second)' = Height(Second) /\ Height(Second) \in Nat
  BY <1>1, ChainsSame DEF OffChain, Typed, OnChain, ChainTyped, Height
<1> QED
  BY <1>1, <1>2, AccountsGoOn

LEMMA SessionKeepsAccounts ==
    ASSUME Typed, Typed', Timed, Accounted, OffChain,
           NEW n \in Notaries, NEW h \in Hash, NEW s, session' = [session EXCEPT ![n][h] = s],
           Requested(n, h) => s.account = session[n][h].account,
           session[n][h].stage \in Mined => s.stage \in Mined,
           s.stage = "mined" => session[n][h].stage = "mined" /\ s.receipt = session[n][h].receipt,
           \A tx \in mempool' \ mempool : tx.account = session'[tx.from][tx.hash].account
    PROVE  Accounted'
<1>1. /\ session'[n][h] = s
      /\ \A m \in Notaries, k \in Hash : m # n \/ k # h => session'[m][k] = session[m][k]
  BY HashVocabulary DEF Typed, InNotaries, SessionsTyped
<1>2. SessionsSettle
  BY <1>1 DEF SessionsSettle, MinedStay, Requested, Mined
<1>3. TxAccounts'
  <2>1. \A m \in Notaries, k \in Hash : Requested(m, k) => session'[m][k].account = session[m][k].account
    BY <1>1
  <2>2. \A tx \in mempool \cap Prepared : Requested(tx.from, tx.hash)
    BY DEF Timed, SentOnce, Requested
  <2> QED
    BY <2>1, <2>2 DEF Accounted, TxAccounts, Prepared
<1> QED
  BY <1>2, <1>3, OffChainKeepsAccounts

LEMMA HandledKeepsAccounts ==
    ASSUME Typed, Typed', Accounted, OffChain, UNCHANGED session,
           \A tx \in mempool' \ mempool : tx.name \notin Prepares
    PROVE  Accounted'
<1>1. SessionsSettle /\ TxAccounts'
  BY DEF SessionsSettle, MinedStay, Accounted, TxAccounts, Prepared
<1> QED
  BY <1>1, OffChainKeepsAccounts

\* A handler has no part in sessions.
LEMMA HandlerSendsNoPrepare ==
    ASSUME Typed, Typed', AllUp', UNCHANGED direction, NEW n \in Notaries, NEW c, NEW e,
           HandleLockin(n, c, e) \/ HandleLockout(n, c, e)
    PROVE  /\ OffChain /\ UNCHANGED session
           /\ \A tx \in mempool' \ mempool : tx.name \notin Prepares
<1> USE DEF Handling, OffChain, Prepares
<1>1. OffChain
  BY DEF HandleLockin, QueryLockin, onMCNewBlockLockin, onMCPrepareLockin4Ethereum, onMCLockin4Ethereum,
         onMCCancelLockin4Ethereum, onSCNewBlockLockin, onSCPrepareLockin, onSCLockinSecret, onSCCancelLockin,
         HandleLockout, QueryLockout, onMCNewBlockLockout, onMCPrepareLockout4Ethereum,
         onMCLockoutSecret4Ethereum, onMCCancelLockout4Ethereum, onSCNewBlockLockout, onSCPrepareLockout,
         onSCLockout, onSCCancelLockout
<1>2. ~Panic(n)
  BY DEF Panic, Stop, AllUp, Typed, InNotaries, PollingTyped
<1>3. \A i, hash, info, txs : Record(n, i, e, hash, info, txs) =>
         UNCHANGED session /\ mempool' \subseteq mempool \cup txs
  BY <1>2 DEF Record, Send
<1>4. \A i : Refuse(n, i, e) => UNCHANGED <<session, mempool>>
  BY DEF Refuse
<1>5. CASE \/ QueryLockin(n, c, e) \/ QueryLockout(n, c, e)
           \/ onMCNewBlockLockin(n, e) \/ onSCNewBlockLockout(n, e)
           \/ onMCPrepareLockin4Ethereum(n, e) \/ onSCPrepareLockout(n, e)
  BY <1>1, <1>2, <1>4, <1>5
  DEF QueryLockin, QueryLockout, Query, onMCNewBlockLockin, onSCNewBlockLockout,
      onMCPrepareLockin4Ethereum, onSCPrepareLockout
<1>6. CASE onSCNewBlockLockin(n, e) \/ onMCNewBlockLockout(n, e)
  BY <1>1, <1>6 DEF onSCNewBlockLockin, onMCNewBlockLockout, Send
<1>7. CASE onSCLockinSecret(n, e) \/ onMCLockoutSecret4Ethereum(n, e)
  BY <1>1, <1>3, <1>4, <1>7 DEF onSCLockinSecret, onMCLockoutSecret4Ethereum
<1>8. CASE \/ onSCPrepareLockin(n, e) \/ onMCLockin4Ethereum(n, e) \/ onMCCancelLockin4Ethereum(n, e)
           \/ onSCCancelLockin(n, e) \/ onMCPrepareLockout4Ethereum(n, e) \/ onSCLockout(n, e)
           \/ onMCCancelLockout4Ethereum(n, e) \/ onSCCancelLockout(n, e)
  BY <1>1, <1>3, <1>4, <1>8
  DEF onSCPrepareLockin, onMCLockin4Ethereum, onMCCancelLockin4Ethereum, onSCCancelLockin,
      onMCPrepareLockout4Ethereum, onSCLockout, onMCCancelLockout4Ethereum, onSCCancelLockout
<1> QED
  BY <1>5, <1>6, <1>7, <1>8 DEF HandleLockin, HandleLockout

LEMMA OpeningKeepsAccounts ==
    ASSUME Typed, Typed', Timed, Accounted, UNCHANGED direction, NEW n \in Notaries, NEW h \in Hash,
           NEW user, NEW account, NEW expiration, OpenSession(n, h, user, account, expiration)
    PROVE  Accounted'
<1>1. PICK s : session' = [session EXCEPT ![n][h] = s] /\ s.stage = "signing"
  <2> DEFINE t == [stage |-> "signing", asked |-> Notaries \ {n}, agreed |-> {},
                   user |-> user, account |-> account, expiration |-> expiration,
                   amount |-> db[n][h].Amount - calculateCrossFee(db[n][h].Amount),
                   receipt |-> Idle.receipt]
  <2>1. session' = [session EXCEPT ![n][h] = t]
    BY DEF OpenSession
  <2>2. t.stage = "signing"
    OBVIOUS
  <2> HIDE DEF t
  <2> QED
    BY <2>1, <2>2
<1>2. OffChain /\ UNCHANGED mempool /\ ~Requested(n, h) /\ session[n][h].stage = "idle"
  BY DEF OpenSession, OffChain, Requested
<1> QED
  BY <1>1, <1>2, SessionKeepsAccounts DEF Mined

LEMMA SessionStepKeepsAccounts ==
    ASSUME Typed, Typed', Timed, Accounted, UNCHANGED direction, AllUp', NEW n \in Notaries, NEW h \in Hash,
           \/ \E m \in Notaries : \E agrees, info : Answer(n, m, h, agrees, info)
           \/ \E name \in Prepares : callPrepare(n, h, name)
           \/ takeCharge(n, h)
    PROVE  Accounted'
<1>0. PICK old \in SessionRecord : old = session[n][h]
  BY HashVocabulary DEF Typed, InNotaries, SessionsTyped, SessionOK
<1>1. ASSUME NEW m \in Notaries, NEW agrees, NEW info, Answer(n, m, h, agrees, info)
      PROVE  Accounted'
  <2>1. OffChain /\ UNCHANGED mempool
    BY <1>1 DEF Answer, OffChain
  <2>2. PICK s \in {[old EXCEPT !.asked = @ \ {m}], [old EXCEPT !.asked = @ \ {m}, !.agreed = @ \cup {m}]} :
           session' = [session EXCEPT ![n][h] = s]
    BY <1>0, <1>1, HashVocabulary DEF Answer, Typed, InNotaries, SessionsTyped
  <2>3. s.stage = old.stage /\ s.account = old.account /\ s.receipt = old.receipt
    BY <2>2 DEF SessionRecord
  <2> QED
    BY <1>0, <2>1, <2>2, <2>3, SessionKeepsAccounts
<1>2. ASSUME NEW name \in Prepares, callPrepare(n, h, name) PROVE Accounted'
  <2> DEFINE tx == [name |-> name, from |-> n, account |-> old.account, hash |-> h,
                    expiration |-> old.expiration, value |-> old.amount]
  <2>1. OffChain /\ old.stage = "signing" /\ mempool' \subseteq mempool \cup {tx}
    BY <1>0, <1>2 DEF callPrepare, OffChain
  <2>2. PICK s \in {[old EXCEPT !.stage = "sent"], [old EXCEPT !.stage = "failed"]} :
           session' = [session EXCEPT ![n][h] = s]
    BY <1>0, <1>2 DEF callPrepare
  <2>3. s.stage \in {"sent", "failed"} /\ s.account = old.account
    BY <2>2 DEF SessionRecord
  <2>4. session'[n][h] = s
    BY <2>2, HashVocabulary DEF Typed, InNotaries, SessionsTyped
  <2>5. \A x \in mempool' \ mempool : x.account = session'[x.from][x.hash].account
    BY <2>1, <2>3, <2>4
  <2> HIDE DEF tx
  <2> QED
    BY <1>0, <2>1, <2>2, <2>3, <2>5, SessionKeepsAccounts DEF Mined
<1>3. CASE takeCharge(n, h)
  <2>1. h \in dealing[n]
    BY <1>3 DEF takeCharge, Stop, AllUp, Typed, InNotaries, PollingTyped
  <2>2. OffChain /\ UNCHANGED mempool
    BY <1>3 DEF takeCharge, OffChain
  <2>3. PICK s : s = [old EXCEPT !.stage = "done"] /\ session' = [session EXCEPT ![n][h] = s]
    BY <1>0, <1>3, <2>1 DEF takeCharge
  <2>4. s.stage = "done" /\ s.account = old.account
    BY <2>3 DEF SessionRecord
  <2> QED
    BY <1>0, <2>2, <2>3, <2>4, SessionKeepsAccounts DEF Mined
<1> QED
  BY <1>1, <1>2, <1>3

LEMMA NotaryKeepsAccounts ==
    ASSUME Typed, Typed', Timed, Accounted, AllUp', NEW n \in Notaries, NotaryStep(n)
    PROVE  Accounted'
<1>0. UNCHANGED direction
  BY DEF NotaryStep
<1>1. ASSUME NEW c, Poll(n, c) PROVE Accounted'
  BY <1>0, <1>1, HandledKeepsAccounts DEF Poll, OffChain
<1>2. ASSUME NEW c, NEW e, HandleLockin(n, c, e) \/ HandleLockout(n, c, e) PROVE Accounted'
  BY <1>0, <1>2, HandlerSendsNoPrepare, HandledKeepsAccounts
<1>3. ASSUME NEW h \in Hash,
             \/ \E m \in Notaries : checkPrepareLockin(n, m, h) \/ checkPrepareLockout(n, m, h)
             \/ callSCPrepareLockin(n, h) \/ callMCPrepareLockout(n, h) \/ takeCharge(n, h)
      PROVE  Accounted'
  BY <1>0, <1>3, SessionStepKeepsAccounts
  DEF checkPrepareLockin, checkPrepareLockout, callSCPrepareLockin, callMCPrepareLockout, Prepares
<1>4. CASE LockinNotaryStep(n)
  BY <1>1, <1>2, <1>3, <1>4, HashVocabulary DEF LockinNotaryStep, LockinSessionStep
<1>5. CASE LockoutNotaryStep(n)
  BY <1>1, <1>2, <1>3, <1>5, HashVocabulary DEF LockoutNotaryStep, LockoutSessionStep
<1> QED
  BY <1>4, <1>5 DEF NotaryStep

\* Blocks and users.
LEMMA GrowthKeepsAccounts ==
    ASSUME Typed, Typed', Accounted, MCGrows \/ SCGrows
    PROVE  Accounted'
<1>1. /\ UNCHANGED <<direction, mempool, nodeVars, mcLog, scLog, mcLockout, scLockin>>
      /\ mcBlock' \in {mcBlock, mcBlock + 1} /\ scBlock' \in {scBlock, scBlock + 1}
  BY DEF MCGrows, SCGrows, MCNewBlock, SCNewBlock, MC!newBlock, SC!newBlock, mcVars, scVars, nodeVars
<1>2. SideLocks' = SideLocks /\ Log(Second)' = Log(Second) /\ Height(Second) <= Height(Second)'
  BY <1>1 DEF SideLocks, Log, Second, Inward, Height, Typed, OnChain, ChainTyped
<1>3. SessionsSettle /\ TxAccounts'
  BY <1>1 DEF SessionsSettle, MinedStay, nodeVars, Accounted, TxAccounts
<1> QED
  BY <1>1, <1>2, <1>3, AccountsGoOn

\* Steps on the chains that are not about a session; e is the entry in the log.
LEMMA ChainKeepsAccounts ==
    ASSUME Typed, Typed', Accounted, UNCHANGED <<direction, session, mcBlock, scBlock>>,
           mempool' \subseteq mempool,
           \A a \in Users : SideLocks'[a] \in {SideLocks[a], MC!Unlocked},
           NEW e, Log(Second)' \in {Log(Second), Log(Second) \cup {e}},
           e.name \notin Prepares,
           \/ e.name # RevealName
           \/ e.account \in Users /\ SideLocks[e.account].SecretHash = MC!Sha256(e.secret)
    PROVE  Accounted'
<1>1. SessionsSettle /\ TxAccounts'
  BY DEF SessionsSettle, MinedStay, Accounted, TxAccounts
<1>2. Height(Second) <= Height(Second)'
  BY DEF Height, Second, Inward, Typed, OnChain, ChainTyped
<1>3. \A x \in Log(Second)' \ Log(Second) :
         x.name \notin Prepares /\ \A h \in Hash : Reveals(x, h) => SetFor(x.account, h)
  BY DEF Reveals, Accounted, SideAccounts
<1> QED
  BY <1>1, <1>2, <1>3, AccountsGoOn

LEMMA FirstChainKeepsAccounts ==
    ASSUME Typed, Typed', Accounted, UNCHANGED <<direction, session, mcBlock, scBlock>>,
           mempool' \subseteq mempool, UNCHANGED SideLocks, Log(Second)' = Log(Second)
    PROVE  Accounted'
<1>1. PICK e : e = [name |-> "NewBlock"]
  OBVIOUS
<1>2. e.name \notin Prepares /\ e.name # RevealName
  BY <1>1 DEF Prepares, RevealName
<1> QED
  BY <1>2, ChainKeepsAccounts

LEMMA BothSides ==
    ASSUME Typed, UNCHANGED direction
    PROVE  /\ Inward => /\ Second = "sc" /\ Second' = "sc" /\ SideLocks = scLockin /\ SideLocks' = scLockin'
                        /\ Log(Second) = scLog /\ Log(Second)' = scLog'
                        /\ RevealName = "LockinSecret" /\ SetName = "PrepareLockin"
           /\ Outward => /\ Second = "mc" /\ Second' = "mc" /\ SideLocks = mcLockout /\ SideLocks' = mcLockout'
                         /\ Log(Second) = mcLog /\ Log(Second)' = mcLog'
                         /\ RevealName = "LockoutSecret" /\ SetName = "PrepareLockout"
           /\ {mcLockout, scLockin} \subseteq [AllAccounts -> LockTerms] /\ Users \subseteq AllAccounts
BY DEF SideLocks, Second, Log, RevealName, SetName, Inward, Outward, Typed, OnChain, LocksTyped, AllAccounts

LEMMA UserKeepsAccounts ==
    ASSUME Typed, Typed', Timed, Accounted, UserStep
    PROVE  Accounted'
<1> USE DEF mcVars, scVars, nodeVars
<1>0. UNCHANGED direction
  BY DEF UserStep
<1>1. ASSUME NEW n \in Notaries, NEW u, NEW a, NEW h \in Hash,
             onSCPrepareLockinRequest(n, u, a, h) \/ onMCPrepareLockoutRequest(n, u, a, h)
      PROVE  Accounted'
  BY <1>0, <1>1, OpeningKeepsAccounts DEF onSCPrepareLockinRequest, onMCPrepareLockoutRequest
<1>2. CASE Inward /\ LockinUserStep
  <2>1. ASSUME NEW u \in Users, NEW s \in Secrets, NEW e \in Expirations, NEW v \in Amounts,
               UserPrepareLockin(u, MC!Sha256(s), e, v)
        PROVE  Accounted'
    <3>1. UNCHANGED <<session, mempool, mcBlock, scVars>>
      BY <2>1 DEF UserPrepareLockin, OnMC, MC!prepareLockin
    <3> QED
      BY <1>0, <1>2, <3>1, BothSides, FirstChainKeepsAccounts
  <2>2. ASSUME NEW u \in Users, UserCancelLockin(u) PROVE Accounted'
    <3>1. UNCHANGED <<session, mempool, mcBlock, scVars>>
      BY <2>2 DEF UserCancelLockin, OnMC, MC!cancelLockin
    <3> QED
      BY <1>0, <1>2, <3>1, BothSides, FirstChainKeepsAccounts
  <2>3. ASSUME NEW u \in Users, NEW s \in Secrets, UserLockin(u, s) PROVE Accounted'
    <3> DEFINE e == SC!EmitLockinSecret(u, s)
    <3>1. /\ scLockin' = [scLockin EXCEPT ![u] = MC!Unlocked] /\ UNCHANGED <<scBlock, mcBlock, mempool, session>>
          /\ scLog' = scLog \cup {e} /\ scLockin[u].SecretHash = MC!Sha256(s)
      BY <2>3, HashVocabulary DEF UserLockin, OnSC, SC!lockin, SC!Opens
    <3>2. e.name \notin Prepares /\ e.account = u /\ e.secret = s
      BY DEF SC!EmitLockinSecret, Prepares
    <3> HIDE DEF e
    <3> QED
      BY <1>0, <1>2, <3>1, <3>2, BothSides, ChainKeepsAccounts
  <2> QED
    BY <1>1, <1>2, <2>1, <2>2, <2>3, HashVocabulary DEF LockinUserStep
<1>3. CASE Outward /\ LockoutUserStep
  <2>1. ASSUME NEW u \in Users, NEW s \in Secrets, NEW e \in Expirations, NEW v \in Amounts,
               UserPrepareLockout(u, SC!Sha256(s), e, v)
        PROVE  Accounted'
    <3>1. UNCHANGED <<session, mempool, scBlock, mcVars>>
      BY <2>1 DEF UserPrepareLockout, OnSC, SC!prepareLockout
    <3> QED
      BY <1>0, <1>3, <3>1, BothSides, FirstChainKeepsAccounts
  <2>2. ASSUME NEW u \in Users, UserCancelLockOut(u) PROVE Accounted'
    <3>1. UNCHANGED <<session, mempool, scBlock, mcVars>>
      BY <2>2 DEF UserCancelLockOut, OnSC, SC!cancelLockOut
    <3> QED
      BY <1>0, <1>3, <3>1, BothSides, FirstChainKeepsAccounts
  <2>3. ASSUME NEW u \in Users, NEW s \in Secrets, UserLockout(u, s) PROVE Accounted'
    <3> DEFINE e == MC!EmitLockoutSecret(u, s)
    <3>1. /\ mcLockout' = [mcLockout EXCEPT ![u] = MC!Unlocked] /\ UNCHANGED <<scBlock, mcBlock, mempool, session>>
          /\ mcLog' = mcLog \cup {e} /\ mcLockout[u].SecretHash = MC!Sha256(s)
      BY <2>3, HashVocabulary DEF UserLockout, OnMC, MC!lockout, MC!Opens
    <3>2. e.name \notin Prepares /\ e.account = u /\ e.secret = s
      BY DEF MC!EmitLockoutSecret, Prepares
    <3> HIDE DEF e
    <3> QED
      BY <1>0, <1>3, <3>1, <3>2, BothSides, ChainKeepsAccounts
  <2>4. ASSUME NEW u \in Users, CancleLockOut(u) PROVE Accounted'
    <3> DEFINE e == MC!EmitCancelLockout(u)
    <3>1. /\ mcLockout' = [mcLockout EXCEPT ![u] = MC!Unlocked] /\ UNCHANGED <<scBlock, mcBlock, mempool, session>>
          /\ mcLog' = mcLog \cup {e}
      BY <2>4 DEF CancleLockOut, OnMC, MC!cancleLockOut
    <3>2. e.name \notin Prepares /\ e.name # "LockoutSecret"
      BY DEF MC!EmitCancelLockout, Prepares
    <3> HIDE DEF e
    <3> QED
      BY <1>0, <1>3, <3>1, <3>2, BothSides, ChainKeepsAccounts
  <2> QED
    BY <1>1, <1>3, <2>1, <2>2, <2>3, <2>4, HashVocabulary DEF LockoutUserStep
<1> QED
  BY <1>2, <1>3 DEF UserStep

\* A transaction of a session is mined: its lock is set, or it reverts.
LEMMA PrepareKeepsAccounts ==
    ASSUME Typed, Typed', Timed, Accounted, UNCHANGED <<direction, mcBlock, scBlock>>,
           NEW tx \in mempool, tx \in Prepared, mempool' = mempool \ {tx},
           NEW stage \in {"mined", "failed"}, Settles(tx, stage),
           \/ stage = "failed" /\ SideLocks' = SideLocks /\ Log(Second)' = Log(Second)
           \/ /\ stage = "mined"
              /\ \A a \in Users : a # tx.account => SideLocks'[a] = SideLocks[a]
              /\ SideLocks'[tx.account].SecretHash = tx.hash
              /\ \E e : /\ Log(Second)' = Log(Second) \cup {e}
                        /\ e.name = SetName /\ e.account = tx.account /\ e.block = Height(Second)
    PROVE  Accounted'
<1> USE DEF Accounted
<1>1. PICK n \in Notaries, h \in Hash : n = tx.from /\ h = tx.hash /\ tx.account \in Users
  BY DEF Prepared
<1>2. session[n][h].stage = "sent" /\ session[n][h].account = tx.account
  BY <1>1 DEF Timed, SentOnce, TxAccounts
<1>3. \A m \in Notaries, k \in Hash :
         /\ session'[m][k].account = session[m][k].account
         /\ IF m = n /\ k = h
            THEN /\ session'[m][k].stage = stage
                 /\ session'[m][k].receipt = [chain |-> Second, block |-> Height(Second)]
            ELSE session'[m][k] = session[m][k]
  BY <1>1, SettledSession
<1>4. \A a : \A k \in Hash : SetFor(a, k) => SetFor(a, k)'
  BY <1>2, <1>3 DEF SetFor, Mined
<1>5. stage = "mined" => SetFor(tx.account, h)'
  BY <1>1, <1>2, <1>3 DEF SetFor, Mined
<1>6. /\ Second' = Second /\ SetName' = SetName /\ \A e, k : Reveals(e, k)' <=> Reveals(e, k)
      /\ Height(Second) \in Nat /\ Height(Second)' = Height(Second)
      /\ SetName # RevealName
  BY DEF Second, SetName, Reveals, RevealName, Inward, Typed, OnChain, ChainTyped, Height
<1>7. TxAccounts'
  BY <1>3 DEF TxAccounts, Prepared
<1>8. SideAccounts'
  <2> SUFFICES ASSUME NEW a \in Users, NEW k \in Hash, SideLocks'[a].SecretHash = k
               PROVE  SetFor(a, k)'
    BY DEF SideAccounts, SetFor
  <2>1. CASE SideLocks'[a] = SideLocks[a]
    BY <1>4, <2>1 DEF SideAccounts
  <2>2. CASE SideLocks'[a] # SideLocks[a]
    BY <1>1, <1>5, <2>2
  <2> QED
    BY <2>1, <2>2
<1>9. LoggedPrepares'
  <2> SUFFICES ASSUME NEW e \in Log(Second)', e.name \in Prepares PROVE \E k \in Hash : SetFor(e.account, k)'
    BY DEF LoggedPrepares, SetFor
  <2>1. CASE e \in Log(Second)
    BY <1>4, <2>1 DEF LoggedPrepares
  <2>2. CASE e \notin Log(Second)
    BY <1>5, <2>2
  <2> QED
    BY <2>1, <2>2
<1>10. LoggedReveals'
  <2> SUFFICES ASSUME NEW e \in Log(Second)', NEW k \in Hash, Reveals(e, k) PROVE SetFor(e.account, k)'
    BY <1>6 DEF LoggedReveals, SetFor
  <2>1. e \in Log(Second)
    BY <1>6 DEF Reveals
  <2> QED
    BY <1>4, <2>1 DEF LoggedReveals
<1>11. Receipts'
  <2> SUFFICES ASSUME NEW m \in Notaries, NEW k \in Hash, session'[m][k].stage = "mined"
               PROVE  /\ session'[m][k].receipt.chain = Second
                      /\ session'[m][k].receipt.block <= Height(Second)
                      /\ \E p \in Log(Second)' : /\ p.name = SetName /\ p.account = session[m][k].account
                                                 /\ p.block = session'[m][k].receipt.block
    BY <1>3, <1>6 DEF Receipts
  <2>1. CASE m = n /\ k = h
    <3>1. PICK r : r = session'[m][k].receipt
      OBVIOUS
    <3>2. r.chain = Second /\ r.block = Height(Second) /\ stage = "mined"
      BY <1>3, <2>1, <3>1
    <3> QED
      BY <1>2, <1>6, <2>1, <3>1, <3>2
  <2>2. CASE ~(m = n /\ k = h)
    BY <1>3, <2>2 DEF Receipts
  <2> QED
    BY <2>1, <2>2
<1> QED
  BY <1>7, <1>8, <1>9, <1>10, <1>11

LEMMA MiningKeepsAccounts ==
    ASSUME Typed, Typed', Timed, Accounted, Mining
    PROVE  Accounted'
<1> USE DEF mcVars, scVars, nodeVars
<1>0. UNCHANGED direction
  BY DEF Mining
<1>1. ASSUME Inward, NEW tx \in mempool, LockinMined(tx) PROVE Accounted'
  <2>1. CASE MinedMCLockin(tx)
    <3>1. UNCHANGED <<session, mcBlock, scVars>> /\ mempool' \subseteq mempool
      BY <2>1 DEF MinedMCLockin, MC!lockin
    <3> QED
      BY <1>0, <1>1, <3>1, BothSides, FirstChainKeepsAccounts
  <2>2. CASE MinedSCCancelLockin(tx)
    <3> DEFINE e == SC!EmitCancelLockin(tx.account)
    <3>1. /\ \/ UNCHANGED scVars
             \/ /\ scLockin' = [scLockin EXCEPT ![tx.account] = MC!Unlocked] /\ scBlock' = scBlock
                /\ scLog' = scLog \cup {e}
          /\ mempool' \subseteq mempool /\ UNCHANGED <<session, mcBlock>>
      BY <2>2, HashVocabulary DEF MinedSCCancelLockin, SC!cancelLockin
    <3>2. e.name \notin Prepares /\ e.name # "LockinSecret"
      BY DEF SC!EmitCancelLockin, Prepares
    <3> HIDE DEF e
    <3> QED
      BY <1>0, <1>1, <3>1, <3>2, BothSides, ChainKeepsAccounts
  <2>3. CASE MinedSCPrepareLockin(tx)
    <3>1. tx \in Prepared /\ tx.account \in Users /\ mempool' = mempool \ {tx} /\ mcBlock' = mcBlock
      BY <2>3, TxKinds DEF MinedSCPrepareLockin, Prepares, Prepared
    <3>2. CASE scLockin[tx.account].value = 0
      <4> DEFINE lock == [SecretHash |-> tx.hash, Expiration |-> tx.expiration, value |-> tx.value]
                 e == SC!EmitPrepareLockin(tx.account)
      <4>1. /\ scLockin' = [scLockin EXCEPT ![tx.account] = lock] /\ scBlock' = scBlock
            /\ scLog' = scLog \cup {e} /\ Noticed(tx, TRUE, "sc")
        BY <2>3, <3>2 DEF MinedSCPrepareLockin, SC!prepareLockin
      <4>2. Settles(tx, "mined")
        BY <1>0, <1>1, <3>1, <4>1, NoticedWhenSent, BothSides
      <4>3. lock.SecretHash = tx.hash /\ e.name = "PrepareLockin" /\ e.account = tx.account /\ e.block = scBlock
        BY DEF SC!EmitPrepareLockin
      <4> HIDE DEF lock, e
      <4>4. Height(Second) = scBlock
        BY <1>0, <1>1, BothSides DEF Height
      <4> QED
        BY <1>0, <1>1, <3>1, <4>1, <4>2, <4>3, <4>4, BothSides, PrepareKeepsAccounts
    <3>3. CASE scLockin[tx.account].value # 0
      <4>1. UNCHANGED scVars /\ Noticed(tx, FALSE, "sc")
        BY <2>3, <3>3 DEF MinedSCPrepareLockin
      <4>2. Settles(tx, "failed")
        BY <1>0, <1>1, <3>1, <4>1, NoticedWhenSent, BothSides
      <4> QED
        BY <1>0, <1>1, <3>1, <4>1, <4>2, BothSides, PrepareKeepsAccounts
    <3> QED
      BY <3>2, <3>3
  <2> QED
    BY <1>1, <2>1, <2>2, <2>3 DEF LockinMined
<1>2. ASSUME Outward, NEW tx \in mempool, LockoutMined(tx) PROVE Accounted'
  <2>1. CASE MinedSCLockout(tx) \/ MinedSCCancelLockOut(tx)
    <3>1. UNCHANGED <<session, scBlock, mcVars>> /\ mempool' \subseteq mempool
      BY <2>1 DEF MinedSCLockout, MinedSCCancelLockOut, SC!lockout, SC!cancelLockOut
    <3> QED
      BY <1>0, <1>2, <3>1, BothSides, FirstChainKeepsAccounts
  <2>2. CASE MinedMCPrepareLockout(tx)
    <3> DEFINE valid == /\ tx.value > 0 /\ mcLockout[tx.account].value = 0
                        /\ tx.expiration > mcBlock + MinLockoutBlocks
    <3>1. tx \in Prepared /\ tx.account \in Users /\ mempool' = mempool \ {tx} /\ scBlock' = scBlock
      BY <2>2, TxKinds DEF MinedMCPrepareLockout, Prepares, Prepared
    <3>2. CASE valid
      <4> DEFINE lock == [SecretHash |-> tx.hash, Expiration |-> tx.expiration, value |-> tx.value]
                 e == MC!EmitPrepareLockout(tx.account)
      <4>1. /\ mcLockout' = [mcLockout EXCEPT ![tx.account] = lock] /\ mcBlock' = mcBlock
            /\ mcLog' = mcLog \cup {e} /\ Noticed(tx, TRUE, "mc")
        BY <2>2, <3>2 DEF MinedMCPrepareLockout, MC!prepareLockoutHTLC
      <4>2. Settles(tx, "mined")
        BY <1>0, <1>2, <3>1, <4>1, NoticedWhenSent, BothSides
      <4>3. lock.SecretHash = tx.hash /\ e.name = "PrepareLockout" /\ e.account = tx.account /\ e.block = mcBlock
        BY DEF MC!EmitPrepareLockout
      <4> HIDE DEF lock, e
      <4>4. Height(Second) = mcBlock
        BY <1>0, <1>2, BothSides DEF Height
      <4> QED
        BY <1>0, <1>2, <3>1, <4>1, <4>2, <4>3, <4>4, BothSides, PrepareKeepsAccounts
    <3>3. CASE ~valid
      <4>1. UNCHANGED mcVars /\ Noticed(tx, FALSE, "mc")
        BY <2>2, <3>3 DEF MinedMCPrepareLockout
      <4>2. Settles(tx, "failed")
        BY <1>0, <1>2, <3>1, <4>1, NoticedWhenSent, BothSides
      <4> QED
        BY <1>0, <1>2, <3>1, <4>1, <4>2, BothSides, PrepareKeepsAccounts
    <3> QED
      BY <3>2, <3>3
  <2> QED
    BY <1>2, <2>1, <2>2 DEF LockoutMined
<1> QED
  BY <1>1, <1>2 DEF Mining

LEMMA InitIsAccounted == Init => Accounted
<1> SUFFICES ASSUME Init PROVE Accounted
  OBVIOUS
<1>1. InitNotaries
  BY DEF Init, LockinInit, LockoutInit
<1>2. \A a \in Users : SideLocks[a].SecretHash \notin Hash
  <2>1. \A a \in Users : SideLocks[a] = MC!Unlocked
    BY HashVocabulary
    DEF Init, LockinInit, LockoutInit, MC!Init, SC!Init, SideLocks, Inward, Outward, AllAccounts
  <2>2. MC!Unlocked.SecretHash \notin Hash
    BY HashVocabulary
  <2> QED
    BY <2>1, <2>2
<1>3. \A n \in Notaries, h \in Hash : session[n][h].stage = "idle"
  BY <1>1, HashVocabulary DEF Idle, InitNotaries
<1> QED
  BY <1>1, <1>2, <1>3
  DEF Accounted, TxAccounts, SideAccounts, LoggedPrepares, LoggedReveals, Receipts, Log, InitNotaries

LEMMA NextKeepsAccounts ==
    ASSUME Typed, Typed', Calm, Calm', Timed, Accounted, [Next]_transferVars
    PROVE  Accounted'
<1> USE DEF Calm
<1>1. CASE MCGrows \/ SCGrows
  BY <1>1, GrowthKeepsAccounts
<1>2. CASE UserStep
  BY <1>2, UserKeepsAccounts
<1>3. CASE Mining
  BY <1>3, MiningKeepsAccounts
<1>4. ASSUME NEW n \in Notaries, NotaryStep(n) PROVE Accounted'
  BY <1>4, NotaryKeepsAccounts
<1>5. ASSUME NEW n \in Notaries PROVE ~StartStop(n)
  BY DEF StartStop, Crash, Restart, Stop, AllUp, Typed, InNotaries, PollingTyped
<1>6. CASE UNCHANGED transferVars
  <2>1. OffChain /\ UNCHANGED <<mempool, session>>
    BY <1>6 DEF transferVars, vars, nodeVars, OffChain
  <2> QED
    BY <2>1, HandledKeepsAccounts
<1> QED
  BY <1>1, <1>2, <1>3, <1>4, <1>5, <1>6 DEF Next

(* The second inductive invariant: what was set, and for whom.             *)
THEOREM AlwaysAccounted == ASSUME Timely PROVE Spec /\ []Calm => []Accounted
<1>1. ASSUME Typed, Typed', Calm, Calm', Timed, Accounted, [Next]_transferVars
      PROVE  Accounted'
  BY <1>1, NextKeepsAccounts
<1> QED
  BY <1>1, InitIsAccounted, AlwaysTyped, AlwaysTimed, PTL DEF Spec

-----------------------------------------------------------------------------
(* What is promised once the secret is out.  Whoever opens a side lock     *)
(* leaves the notaries a claim: the lock of the user on the first chain    *)
(* stands and lasts until the notary that set the side lock learns of the  *)
(* secret, is in charge by then, and gets its claim mined.  A secret in    *)
(* the block that set the lock may be handled before the receipt of that   *)
(* block is there (WaitMined asks for it once a second): NoneHasty is the  *)
(* hypothesis that there is no such secret.                                *)
Starter(info)     == IF Inward THEN info.MCUserAddressHex ELSE info.SCUserAddress
EndOf(info)       == IF Inward THEN info.MCExpiration ELSE info.SCExpiration
StartStatus(info) == IF Inward THEN info.MCLockStatus ELSE info.SCLockStatus
SideStatus(info)  == IF Inward THEN info.SCLockStatus ELSE info.MCLockStatus
Net(amount)       == amount - calculateCrossFee(amount)
LockOf(h, info)   == [SecretHash |-> h, Expiration |-> EndOf(info), value |-> info.Amount]

ClaimName  == IF Inward THEN "Lockin" ELSE "Lockout"
AskedFor(h)   == \E n \in Notaries : Requested(n, h)

\* The hashes whose secret was used to claim, on the first chain.
Used == {h \in Hash : IF Inward THEN Claimed(h) ELSE Destroyed(h)}
Unclaimed == Outs \ Used

\* A record tells the lock of the user as it stands, until a notary is asked
\* leaves the time that the side lock needs, and names who is in charge.
RecordStands(h, info) ==
    /\ LockOf(h, info) \in Standing[Starter(info)]
    /\ StartStatus(info) # "None"
    /\ SideStatus(info) = "None" => AskedFor(h) \/ OnTime(h, Due(info), EndOf(info))
    /\ info.Secret # NoSecret => h \in Outs
    /\ info.NotaryIDInCharge \in {Nobody} \cup {n \in Notaries : Requested(n, h)}
RecordsStand == \A n \in Notaries : \A h \in DOMAIN db[n] : RecordStands(h, db[n][h])

\* A session is about the lock that the record is about.
SessionStands(h, s, info) == /\ s.user = Starter(info) /\ s.amount = Net(info.Amount)
                             /\ OnTime(h, s.expiration, EndOf(info))
SessionsStand == \A n \in Notaries, h \in Hash : Requested(n, h) =>
    Known(n, h) /\ n \notin session[n][h].asked /\ SessionStands(h, session[n][h], db[n][h])

\* Who set the side lock is in charge before it can learn of a secret of a
\* later block.
InCharge == \A n \in Notaries, h \in Hash :
    session[n][h].stage = "done" => db[n][h].NotaryIDInCharge = n
InChargeFirst == \A n \in Notaries, h \in Hash : Requested(n, h) =>
    /\ \A e \in Log(Second) : Reveals(e, h) /\ e.block <= Newest(Second) => session[n][h].stage = "done"
    /\ \A e \in inbox[n][Second] : Reveals(e, h) => session[n][h].stage = "done"

\* What sessions lead to.
PreparesAgree == \A tx \in mempool \cap Prepared :
    LET s == session[tx.from][tx.hash] IN tx.expiration = s.expiration /\ tx.value = s.amount
SideLocksAgree == \A a \in Users : SideLocks[a].value > 0 =>
    \E n \in Notaries : LET s == session[n][SideLocks[a].SecretHash] IN
        /\ s.stage \in {"mined", "done"}
        /\ s.expiration = SideLocks[a].Expiration /\ s.amount = SideLocks[a].value
ClaimsAgree == \A tx \in mempool : tx.name = ClaimName =>
    /\ Requested(tx.from, MC!Sha256(tx.secret))
    /\ session[tx.from][MC!Sha256(tx.secret)].user = tx.account

\* The secret is claimed with, in the inbox of the notary, or still to be
\* polled: before the notary falls behind, or with time to wait for a block.
Sent(h)      == \E tx \in mempool : tx.name = ClaimName /\ MC!Sha256(tx.secret) = h
InMail(n, h) == \E e \in inbox[n][Second] : Reveals(e, h)
Ahead(n, e)  == \/ e.block > saved[n][Second]
                \/ fresh[n][Second] /\ e.block = saved[n][Second]
Unseen(n, h, end) == \E e \in Log(Second) :
    /\ Reveals(e, h) /\ Ahead(n, e) /\ e.block <= Height(Second)
    /\ \/ e.block <= Newest(Second) /\ saved[n][Second] < Newest(Second)
       \/ Height(Second) + MaxSkew < end
Pending(n, h, end) == \/ Sent(h)
                      \/ db[n][h].Secret = NoSecret /\ (InMail(n, h) \/ Unseen(n, h, end))
Open(h, lock) == /\ lock.SecretHash = h /\ lock.value > 0
                 /\ Height(First) < lock.Expiration /\ 1 + MaxSkew < lock.Expiration
Owed == \A n \in Notaries, h \in Hash : Requested(n, h) /\ h \in Unclaimed =>
    /\ Open(h, Locks[session[n][h].user])
    /\ Pending(n, h, Locks[session[n][h].user].Expiration)

\* Ether that no one may claim yet, tokens to be destroyed, and tokens users have.
Bound == {u \in Users : \E n \in Notaries, h \in Hash :
             Requested(n, h) /\ h \in Unclaimed /\ session[n][h].user = u}
Free      == [u \in Users |-> IF u \in Bound THEN 0 ELSE Locks[u].value]
Claimable == [u \in Users |-> IF u \in Bound THEN Locks[u].value ELSE 0]
InHands   == [u \in Users |-> balances[u] + scLockout[u].value]
Balanced  == /\ Inward => totalSupply - 1 + SumFunction(Free) <= held
             /\ Outward => /\ totalSupply - 1 <= held + SumFunction(Claimable)
                           /\ 1 + SumFunction(InHands) <= totalSupply

FreshAtZero == \A n \in Notaries, c \in Chains : saved[n][c] = 0 => fresh[n][c]
UsedAreOut  == Used \subseteq Outs

Promised == /\ FreshAtZero /\ RecordsStand /\ SessionsStand /\ InCharge /\ InChargeFirst
            /\ PreparesAgree /\ SideLocksAgree /\ ClaimsAgree /\ UsedAreOut
            /\ Owed /\ Balanced

-----------------------------------------------------------------------------
(* What lasts.                                                             *)
Lasting == /\ GoesOn /\ Height(Second) <= Height(Second)'
           /\ \A n \in Notaries, h \in Hash : Requested(n, h) => Requested(n, h)'

LEMMA SidesStay ==
    ASSUME UNCHANGED direction
    PROVE  /\ First' = First /\ Second' = Second /\ Inward' = Inward /\ Outward' = Outward
           /\ ClaimName' = ClaimName /\ RevealName' = RevealName
           /\ \A info : /\ Starter(info)' = Starter(info) /\ EndOf(info)' = EndOf(info)
                        /\ StartStatus(info)' = StartStatus(info)
                        /\ SideStatus(info)' = SideStatus(info) /\ Due(info)' = Due(info)
           /\ \A h, info : LockOf(h, info)' = LockOf(h, info)
           /\ \A e, h : Reveals(e, h)' <=> Reveals(e, h)
<1> USE DEF Inward, Outward
<1>1. First' = First /\ Second' = Second /\ ClaimName' = ClaimName /\ RevealName' = RevealName
  BY DEF First, Second, ClaimName, RevealName
<1>2. \A info : /\ Starter(info)' = Starter(info) /\ EndOf(info)' = EndOf(info)
                /\ StartStatus(info)' = StartStatus(info)
                /\ SideStatus(info)' = SideStatus(info) /\ Due(info)' = Due(info)
  BY DEF Starter, EndOf, StartStatus, SideStatus, Due
<1>3. \A h, info : LockOf(h, info)' = LockOf(h, info)
  BY <1>2 DEF LockOf
<1>4. \A e, h : Reveals(e, h)' <=> Reveals(e, h)
  BY <1>1 DEF Reveals
<1> QED
  BY <1>1, <1>2, <1>3, <1>4

LEMMA TimesLast ==
    ASSUME Lasting, {Height(Second), Height(Second)'} \subseteq Nat,
           NEW h \in Hash, NEW due \in Nat, NEW end, OnTime(h, due, end)
    PROVE  OnTime(h, due, end)'
BY DEF OnTime, Lasting, GoesOn

LEMMA RecordStandsOn ==
    ASSUME Lasting, {Height(Second), Height(Second)'} \subseteq Nat,
           NEW h \in Hash, NEW info \in LockInfo, Starter(info) \in Users, RecordStands(h, info)
    PROVE  RecordStands(h, info)'
<1>0. UNCHANGED direction
  BY DEF Lasting, GoesOn
<1>1. LockOf(h, info)' \in Standing'[Starter(info)'] /\ StartStatus(info)' # "None"
  BY <1>0, SidesStay DEF RecordStands, Lasting, GoesOn
<1>2. AskedFor(h) => AskedFor(h)'
  BY DEF AskedFor, Lasting
<1>3. Due(info) \in Nat
  BY DEF Due, LockInfo
<1>4. SideStatus(info)' = "None" => AskedFor(h)' \/ OnTime(h, Due(info), EndOf(info))'
  <2>1. ASSUME OnTime(h, Due(info), EndOf(info)) PROVE OnTime(h, Due(info), EndOf(info))'
    <3>1. PICK due, end : due = Due(info) /\ end = EndOf(info)
      OBVIOUS
    <3>2. OnTime(h, due, end)'
      BY <1>3, <2>1, <3>1, TimesLast
    <3>3. Due(info)' = due /\ EndOf(info)' = end
      BY <1>0, <3>1, SidesStay
    <3> QED
      BY <3>2, <3>3 DEF OnTime
  <2> QED
    BY <1>0, <1>2, <2>1, SidesStay DEF RecordStands
<1>5. info.Secret # NoSecret => h \in Outs'
  BY DEF RecordStands, Lasting, GoesOn
<1>6. info.NotaryIDInCharge \in {Nobody} \cup {n \in Notaries : Requested(n, h)'}
  BY DEF RecordStands, Lasting
<1> QED
  BY <1>1, <1>4, <1>5, <1>6 DEF RecordStands

\* What a step may make of a record, of all records and of the sessions.
Continues(h, old, new) ==
    /\ Starter(new) = Starter(old) /\ EndOf(new) = EndOf(old) /\ new.Amount = old.Amount
    /\ StartStatus(new) \in {StartStatus(old), "Unlock", "Cancel", "Expiration"}
    /\ SideStatus(new) = "None" => SideStatus(old) = "None" /\ (Due(new) = Due(old) \/ AskedFor(h))
    /\ new.Secret = old.Secret \/ h \in Outs
    /\ new.NotaryIDInCharge \in {old.NotaryIDInCharge} \cup {n \in Notaries : Requested(n, h)}
RecordsGoOn == \A n \in Notaries :
    /\ DOMAIN db[n] \subseteq DOMAIN db'[n]
    /\ \A h \in DOMAIN db'[n] : IF h \in DOMAIN db[n] THEN Continues(h, db[n][h], db'[n][h])
                                ELSE RecordStands(h, db'[n][h])
SessionsGoOn == \A n \in Notaries, h \in Hash :
    /\ Requested(n, h)' <=> Requested(n, h)
    /\ session'[n][h].user = session[n][h].user /\ session'[n][h].amount = session[n][h].amount
    /\ session'[n][h].expiration = session[n][h].expiration
    /\ session'[n][h].asked \subseteq session[n][h].asked
    /\ session'[n][h].stage = "done" \/ session[n][h].stage # "done"

LEMMA ContinuedStands ==
    ASSUME NEW h, NEW old, NEW new, RecordStands(h, old), Continues(h, old, new)
    PROVE  RecordStands(h, new)
<1>1. LockOf(h, new) = LockOf(h, old)
  BY DEF LockOf, Continues
<1> QED
  BY <1>1 DEF Continues, RecordStands

LEMMA SameContinues == \A h, info : Continues(h, info, info)
BY DEF Continues

LEMMA RecordsStandOn ==
    ASSUME Typed, Typed', Lasting, RecordsStand, RecordsGoOn
    PROVE  RecordsStand'
<1> SUFFICES ASSUME NEW n \in Notaries, NEW h \in DOMAIN db'[n] PROVE RecordStands(h, db[n][h])'
  BY DEF RecordsStand
<1>0. UNCHANGED direction /\ {Height(Second), Height(Second)'} \subseteq Nat
  BY DEF Lasting, GoesOn, Typed, OnChain, ChainTyped, Height
<1>1. PICK info : info = db'[n][h]
  OBVIOUS
<1>2. RecordStands(h, info)
  BY <1>1, ContinuedStands DEF RecordsGoOn, RecordsStand
<1>3. h \in Hash /\ info \in LockInfo /\ Starter(info) \in Users
  BY <1>0, <1>1 DEF Typed, InNotaries, RecordsTyped, RecordOK, Starter, Inward, Outward
<1>4. RecordStands(h, info)'
  BY <1>0, <1>2, <1>3, RecordStandsOn
<1> QED
  BY <1>1, <1>4

LEMMA SessionsStandOn ==
    ASSUME Typed, Typed', Lasting, SessionsStand, RecordsGoOn, SessionsGoOn
    PROVE  SessionsStand'
<1> SUFFICES ASSUME NEW n \in Notaries, NEW h \in Hash, Requested(n, h)'
             PROVE  /\ Known(n, h)' /\ n \notin session'[n][h].asked
                    /\ SessionStands(h, session[n][h], db[n][h])'
  BY DEF SessionsStand
<1>0. UNCHANGED direction /\ {Height(Second), Height(Second)'} \subseteq Nat
  BY DEF Lasting, GoesOn, Typed, OnChain, ChainTyped, Height
<1>1. /\ Known(n, h) /\ n \notin session[n][h].asked
      /\ SessionStands(h, session[n][h], db[n][h])
  BY DEF SessionsStand, SessionsGoOn
<1>2. Known(n, h)' /\ Continues(h, db[n][h], db'[n][h])
  BY <1>1 DEF RecordsGoOn, Known
<1>3. session[n][h].expiration \in Nat
  BY HashVocabulary DEF Typed, InNotaries, SessionsTyped, SessionOK, SessionRecord
<1>4. PICK due, end : due = session[n][h].expiration /\ end = EndOf(db[n][h])
  OBVIOUS
<1>5. OnTime(h, due, end)'
  BY <1>0, <1>1, <1>3, <1>4, TimesLast DEF SessionStands
<1>6. PICK info : info = db'[n][h]
  OBVIOUS
<1>7. EndOf(info)' = end /\ Starter(info)' = Starter(db[n][h]) /\ info.Amount = db[n][h].Amount
  BY <1>0, <1>2, <1>4, <1>6, SidesStay DEF Continues
<1>8. session'[n][h].expiration = due
  BY <1>4 DEF SessionsGoOn
<1>9. session'[n][h].user = Starter(info)' /\ session'[n][h].amount = Net(info.Amount)
  BY <1>1, <1>7 DEF SessionStands, SessionsGoOn
<1>10. SessionStands(h, session[n][h], db[n][h])'
  BY <1>5, <1>6, <1>7, <1>8, <1>9 DEF SessionStands, OnTime, Net
<1> QED
  BY <1>1, <1>2, <1>10 DEF SessionsGoOn

-----------------------------------------------------------------------------
(* Steps of the notaries are not on the chains.                            *)
LEMMA OffChainLasts ==
    ASSUME Typed, OffChain
    PROVE  /\ GoesOn /\ Outs' = Outs /\ Used' = Used /\ Unclaimed' = Unclaimed
           /\ Locks' = Locks /\ SideLocks' = SideLocks /\ First' = First /\ Second' = Second
           /\ Log(Second)' = Log(Second) /\ Newest(Second)' = Newest(Second)
           /\ Height(First)' = Height(First) /\ Height(Second)' = Height(Second)
           /\ UNCHANGED <<balances, totalSupply, held, scLockout, direction>>
           /\ Second \in Chains /\ Height(Second) \in Nat /\ Newest(Second) = Height(Second) - 1
<1>1. /\ GoesOn /\ Outs' = Outs /\ Locks' = Locks /\ SideLocks' = SideLocks
      /\ First' = First /\ Second' = Second
  BY ChainsSame DEF OffChain
<1>2. UNCHANGED <<mcBlock, scBlock, mcLog, scLog, balances, totalSupply, held, scLockout, direction>>
  BY DEF OffChain, mcVars, scVars
<1>3. Used' = Used
  BY <1>2 DEF Used, Claimed, Destroyed, Logged, Inward
<1>4. /\ Log(Second)' = Log(Second) /\ Newest(Second)' = Newest(Second)
      /\ Height(First)' = Height(First) /\ Height(Second)' = Height(Second)
  BY <1>1, <1>2 DEF Log, Newest, Height
<1>5. Second \in Chains /\ Height(Second) \in Nat /\ Newest(Second) = Height(Second) - 1
  BY DEF Second, Chains, Typed, OnChain, ChainTyped, Height, Newest
<1> QED
  BY <1>1, <1>2, <1>3, <1>4, <1>5 DEF Unclaimed

LEMMA OffChainKeepsPromise ==
    ASSUME Typed, Typed', Timed, Promised, OffChain, RecordsGoOn, SessionsGoOn,
           FreshAtZero', InCharge', PreparesAgree', ClaimsAgree',
           \A n \in Notaries : \A e \in inbox'[n][Second] : e.name = RevealName =>
              e \in inbox[n][Second] \/ (e \in Log(Second) /\ e.block <= Newest(Second)),
           \A n \in Notaries, h \in Hash : session[n][h].stage \in {"mined", "done"} =>
              session'[n][h].stage \in {"mined", "done"},
           \A n \in Notaries, h \in Hash, end \in Nat :
              Requested(n, h) /\ h \in Unclaimed /\ Pending(n, h, end) => Pending(n, h, end)'
    PROVE  Promised'
<1>1. /\ GoesOn /\ Outs' = Outs /\ Used' = Used /\ Unclaimed' = Unclaimed
      /\ Locks' = Locks /\ SideLocks' = SideLocks /\ First' = First /\ Second' = Second
      /\ Log(Second)' = Log(Second) /\ Newest(Second)' = Newest(Second)
      /\ Height(First)' = Height(First) /\ Height(Second)' = Height(Second)
      /\ UNCHANGED <<balances, totalSupply, held, scLockout, direction>>
      /\ Height(Second) \in Nat
  BY OffChainLasts
<1>2. Lasting
  BY <1>1 DEF Lasting, SessionsGoOn
<1>3. \A e, h : Reveals(e, h)' <=> Reveals(e, h)
  BY <1>1, SidesStay
<1>4. RecordsStand' /\ SessionsStand'
  BY <1>2, RecordsStandOn, SessionsStandOn DEF Promised
<1>5. InChargeFirst'
  <2> SUFFICES ASSUME NEW n \in Notaries, NEW h \in Hash, Requested(n, h)', NEW e, Reveals(e, h),
                      \/ e \in Log(Second) /\ e.block <= Newest(Second)
                      \/ e \in inbox'[n][Second]
               PROVE  session'[n][h].stage = "done"
    BY <1>1, <1>3 DEF InChargeFirst
  <2>1. e \in inbox[n][Second] \/ (e \in Log(Second) /\ e.block <= Newest(Second))
    BY DEF Reveals
  <2>2. Requested(n, h)
    BY DEF SessionsGoOn
  <2>3. session[n][h].stage = "done"
    BY <2>1, <2>2 DEF Promised, InChargeFirst
  <2> QED
    BY <2>3 DEF SessionsGoOn
<1>6. SideLocksAgree'
  <2> SUFFICES ASSUME NEW a \in Users, SideLocks[a].value > 0
               PROVE  \E n \in Notaries : LET s == session'[n][SideLocks[a].SecretHash] IN
                         /\ s.stage \in {"mined", "done"}
                         /\ s.expiration = SideLocks[a].Expiration /\ s.amount = SideLocks[a].value
    BY <1>1 DEF SideLocksAgree
  <2>1. SideLocks[a].SecretHash \in Hash
    BY HashVocabulary DEF Typed, OnChain, LocksTyped, SideLocks, LockTerms, AllAccounts
  <2> QED
    BY <2>1 DEF Promised, SideLocksAgree, SessionsGoOn
<1>7. UsedAreOut'
  BY <1>1 DEF Promised, UsedAreOut
<1>8. Owed'
  <2> SUFFICES ASSUME NEW n \in Notaries, NEW h \in Hash, Requested(n, h), h \in Unclaimed
               PROVE  /\ Open(h, Locks[session[n][h].user])'
                      /\ Pending(n, h, Locks[session[n][h].user].Expiration)'
    BY <1>1 DEF Owed, SessionsGoOn
  <2>1. /\ Open(h, Locks[session[n][h].user])
        /\ Pending(n, h, Locks[session[n][h].user].Expiration)
    BY DEF Promised, Owed
  <2>2. session'[n][h].user = session[n][h].user
    BY DEF SessionsGoOn
  <2>3. PICK end : end = Locks[session[n][h].user].Expiration
    OBVIOUS
  <2>4. end \in Nat /\ Locks'[session'[n][h].user].Expiration = end
    <3>1. session[n][h].user \in Users
      <4>1. Known(n, h) /\ session[n][h].user = Starter(db[n][h])
        BY DEF Promised, SessionsStand, SessionStands
      <4> QED
        BY <4>1, KnownIsTyped DEF RecordOK, Starter, Inward, Outward, Typed
    <3> QED
      BY <1>1, <2>2, <2>3, <3>1, HashVocabulary DEF Typed, OnChain, LocksTyped, Locks, AllAccounts
  <2>5. Pending(n, h, end)'
    BY <2>1, <2>3, <2>4
  <2>6. Open(h, Locks[session[n][h].user])'
    BY <1>1, <2>1, <2>2 DEF Open
  <2> QED
    BY <2>4, <2>5, <2>6 DEF Pending, Unseen
<1>9. Balanced'
  <2>1. Bound' = Bound
    BY <1>1 DEF Bound, SessionsGoOn
  <2>2. Free' = Free /\ Claimable' = Claimable /\ InHands' = InHands
    BY <1>1, <2>1 DEF Free, Claimable, InHands
  <2> QED
    BY <1>1, <2>2, SidesStay DEF Promised, Balanced
<1> QED
  BY <1>4, <1>5, <1>6, <1>7, <1>8, <1>9 DEF Promised

\* Handlers leave sessions alone.  Whoever waits for a secret and does not get
\* to keep its mail sends the claim.
LEMMA HandledKeepsPromise ==
    ASSUME Typed, Typed', Timed, Promised, OffChain, RecordsGoOn,
           UNCHANGED <<session, saved, fresh>>,
           \A n \in Notaries : \A h \in DOMAIN db[n] :
              db'[n][h].NotaryIDInCharge = db[n][h].NotaryIDInCharge,
           mempool \subseteq mempool',
           \A tx \in mempool' \ mempool :
              /\ tx \notin Prepared
              /\ tx.name = ClaimName => /\ Requested(tx.from, MC!Sha256(tx.secret))
                                        /\ session[tx.from][MC!Sha256(tx.secret)].user = tx.account,
           \A n \in Notaries : \A e \in inbox'[n][Second] :
              e.name = RevealName => e \in inbox[n][Second],
           \A n \in Notaries, h \in Hash :
              Requested(n, h) /\ h \in Unclaimed /\ Known(n, h) /\ db[n][h].Secret = NoSecret =>
                 \/ Sent(h)'
                 \/ /\ db'[n][h].Secret = NoSecret
                    /\ \A e \in inbox[n][Second] : Reveals(e, h) => e \in inbox'[n][Second]
    PROVE  Promised'
<1>1. /\ Outs' = Outs /\ Unclaimed' = Unclaimed /\ First' = First /\ Second' = Second
      /\ Log(Second)' = Log(Second) /\ Newest(Second)' = Newest(Second)
      /\ Height(Second)' = Height(Second) /\ UNCHANGED direction
  BY OffChainLasts
<1>2. ClaimName' = ClaimName /\ \A e, h : Reveals(e, h)' <=> Reveals(e, h)
  BY <1>1, SidesStay
<1>3. SessionsGoOn
  BY DEF SessionsGoOn, Requested
<1>4. FreshAtZero'
  BY DEF Promised, FreshAtZero
<1>5. InCharge'
  <2>1. \A n \in Notaries, h \in Hash : session[n][h].stage = "done" => h \in DOMAIN db[n]
    BY DEF Promised, SessionsStand, Requested, Known
  <2> QED
    BY <2>1 DEF Promised, InCharge
<1>6. PreparesAgree'
  <2>1. session' = session /\ \A tx \in mempool' \cap Prepared : tx \in mempool \cap Prepared
    OBVIOUS
  <2> QED
    BY <2>1 DEF Promised, PreparesAgree
<1>7. ClaimsAgree'
  <2>1. session' = session
    OBVIOUS
  <2> SUFFICES ASSUME NEW tx \in mempool', tx.name = ClaimName
               PROVE  /\ Requested(tx.from, MC!Sha256(tx.secret))
                      /\ session[tx.from][MC!Sha256(tx.secret)].user = tx.account
    BY <1>2, <2>1 DEF ClaimsAgree, Requested
  <2> QED
    BY DEF Promised, ClaimsAgree
<1>8. ASSUME NEW n \in Notaries, NEW h \in Hash, NEW end \in Nat,
             Requested(n, h), h \in Unclaimed, Pending(n, h, end)
      PROVE  Pending(n, h, end)'
  <2>1. CASE Sent(h)
    BY <1>2, <2>1 DEF Pending, Sent
  <2>2. CASE Sent(h)'
    BY <2>2 DEF Pending
  <2>3. CASE ~Sent(h) /\ ~Sent(h)'
    <3>1. db[n][h].Secret = NoSecret /\ (InMail(n, h) \/ Unseen(n, h, end)) /\ Known(n, h)
      BY <1>8, <2>3 DEF Pending, Promised, SessionsStand
    <3>2. /\ db'[n][h].Secret = NoSecret
          /\ \A e \in inbox[n][Second] : Reveals(e, h) => e \in inbox'[n][Second]
      BY <1>8, <2>3, <3>1
    <3>3. InMail(n, h) => InMail(n, h)'
      BY <1>1, <1>2, <3>2 DEF InMail
    <3>4. Unseen(n, h, end) => Unseen(n, h, end)'
      BY <1>1, <1>2 DEF Unseen, Ahead
    <3> QED
      BY <3>1, <3>2, <3>3, <3>4 DEF Pending
  <2> QED
    BY <2>1, <2>2, <2>3
<1> QED
  BY <1>3, <1>4, <1>5, <1>6, <1>7, <1>8, OffChainKeepsPromise

LEMMA OneRecordGoesOn ==
    ASSUME Typed, NEW n \in Notaries, NEW hash, Known(n, hash), NEW info, update(n, hash, info)
    PROVE  \A m \in Notaries :
              /\ DOMAIN db'[m] = DOMAIN db[m]
              /\ \A h \in DOMAIN db[m] : db'[m][h] = IF m = n /\ h = hash THEN info ELSE db[m][h]
BY DEF update, Typed, InNotaries, RecordsTyped, Known

LEMMA RefusedKeepsPromise ==
    ASSUME Typed, Typed', Timed, Promised, OffChain,
           NEW n \in Notaries, NEW c \in Chains, NEW e \in inbox[n][c], Refuse(n, c, e),
           c = Second /\ e.name = RevealName =>
              ~Known(n, MC!Sha256(e.secret)) \/ db[n][MC!Sha256(e.secret)].Secret # NoSecret
    PROVE  Promised'
<1>1. UNCHANGED <<mempool, status, db, session, saved, fresh>>
  BY DEF Refuse
<1>2. \A m \in Notaries, d \in Chains :
         inbox'[m][d] = IF m = n /\ d = c THEN inbox[n][c] \ {e} ELSE inbox[m][d]
  BY DEF Refuse, Handled, Typed, InNotaries, MailTyped
<1>3. Second \in Chains
  BY DEF Second, Chains
<1>4. RecordsGoOn
  BY <1>1, SameContinues DEF RecordsGoOn
<1>5. ASSUME NEW m \in Notaries, NEW h \in Hash, Known(m, h), db[m][h].Secret = NoSecret,
             NEW x \in inbox[m][Second], Reveals(x, h)
      PROVE  x \in inbox'[m][Second]
  <2>1. CASE m = n /\ Second = c /\ x = e
    BY <1>5, <2>1 DEF Reveals
  <2> QED
    BY <1>2, <1>3, <2>1
<1> QED
  BY <1>1, <1>2, <1>3, <1>4, <1>5, HandledKeepsPromise

LEMMA RecordedKeepsPromise ==
    ASSUME Typed, Typed', Timed, Promised, OffChain, AllUp', ~CallsFail,
           NEW n \in Notaries, NEW c \in Chains, NEW e \in inbox[n][c],
           NEW hash, Known(n, hash), NEW info, NEW txs, Record(n, c, e, hash, info, txs),
           Continues(hash, db[n][hash], info),
           info.NotaryIDInCharge = db[n][hash].NotaryIDInCharge,
           txs \subseteq Claims \cup Cancels,
           \A tx \in txs : tx.name = ClaimName =>
              /\ Requested(tx.from, MC!Sha256(tx.secret))
              /\ session[tx.from][MC!Sha256(tx.secret)].user = tx.account,
           \/ e.name # RevealName /\ info.Secret = db[n][hash].Secret
           \/ /\ c = Second /\ Reveals(e, hash)
              /\ db[n][hash].NotaryIDInCharge = n =>
                    \E tx \in txs : tx.name = ClaimName /\ MC!Sha256(tx.secret) = hash
    PROVE  Promised'
<1>1. hash \in dealing[n]
  BY DEF Record, Panic, Stop, AllUp, Typed, InNotaries, PollingTyped
<1>2. /\ update(n, hash, info) /\ Handled(n, c, e) /\ mempool' = mempool \cup txs
      /\ UNCHANGED <<session, saved, fresh>>
  BY <1>1 DEF Record, Send
<1>3. \A m \in Notaries, d \in Chains :
         inbox'[m][d] = IF m = n /\ d = c THEN inbox[n][c] \ {e} ELSE inbox[m][d]
  BY <1>2 DEF Handled, Typed, InNotaries, MailTyped
<1>4. \A m \in Notaries :
         /\ DOMAIN db'[m] = DOMAIN db[m]
         /\ \A h \in DOMAIN db[m] : db'[m][h] = IF m = n /\ h = hash THEN info ELSE db[m][h]
  BY <1>2, OneRecordGoesOn
<1>5. Second \in Chains /\ ClaimName' = ClaimName /\ hash \in Hash
  BY OffChainLasts, SidesStay, KnownIsTyped
<1>6. RecordsGoOn
  BY <1>4, SameContinues DEF RecordsGoOn
<1>7. \A tx \in txs : tx \notin Prepared
  BY DEF Claims, Cancels, Prepared, Prepares
<1>8. ASSUME NEW m \in Notaries, NEW h \in Hash, Requested(m, h), Known(m, h),
             db[m][h].Secret = NoSecret
      PROVE  \/ Sent(h)'
             \/ /\ db'[m][h].Secret = NoSecret
                /\ \A x \in inbox[m][Second] : Reveals(x, h) => x \in inbox'[m][Second]
  <2>1. CASE m = n /\ h = hash /\ Reveals(e, hash) /\ c = Second
    <3>1. session[n][hash].stage = "done"
      BY <1>8, <2>1 DEF Promised, InChargeFirst
    <3>2. db[n][hash].NotaryIDInCharge = n
      BY <1>5, <3>1 DEF Promised, InCharge
    <3>3. \E tx \in txs : tx.name = ClaimName /\ MC!Sha256(tx.secret) = hash
      BY <2>1, <3>2 DEF Reveals
    <3> QED
      BY <1>2, <1>5, <2>1, <3>3 DEF Sent
  <2>2. CASE ~(m = n /\ h = hash /\ Reveals(e, hash) /\ c = Second)
    <3>1. db'[m][h].Secret = NoSecret
      BY <1>4, <1>8, <2>2 DEF Known
    <3>2. \A x \in inbox[m][Second] : Reveals(x, h) => x # e \/ m # n \/ c # Second
      BY <2>2 DEF Reveals
    <3> QED
      BY <1>3, <1>5, <3>1, <3>2
  <2> QED
    BY <2>1, <2>2
<1> QED
  BY <1>2, <1>3, <1>4, <1>5, <1>6, <1>7, <1>8, HandledKeepsPromise

LEMMA AskedKeepsPromise ==
    ASSUME Typed, Typed', Timed, Promised, OffChain,
           NEW n \in Notaries, NEW c \in Chains, NEW e \in inbox[n][c], e.name # RevealName,
           NEW lock, Query(n, c, e, lock)
    PROVE  Promised'
<1> DEFINE new == [name |-> "Queried", account |-> e.account, block |-> e.block, lock |-> lock]
<1>1. UNCHANGED <<mempool, status, db, session, saved, fresh>>
  BY DEF Query
<1>2. \A m \in Notaries, d \in Chains :
         inbox'[m][d] = IF m = n /\ d = c THEN (inbox[n][c] \ {e}) \cup {new} ELSE inbox[m][d]
  BY DEF Query, Typed, InNotaries, MailTyped
<1>3. Second \in Chains /\ new.name # RevealName
  BY DEF Second, Chains, RevealName
<1> HIDE DEF new
<1>4. RecordsGoOn
  BY <1>1, SameContinues DEF RecordsGoOn
<1>5. \A m \in Notaries : \A x : x.name = RevealName =>
         (x \in inbox'[m][Second] <=> x \in inbox[m][Second])
  BY <1>2, <1>3
<1> QED
  BY <1>1, <1>4, <1>5, HandledKeepsPromise DEF Reveals

LEMMA RegisteredKeepsPromise ==
    ASSUME Typed, Typed', Timed, Promised, OffChain,
           UNCHANGED <<mempool, status, fresh, seen, session, saved>>,
           NEW n \in Notaries, NEW c \in Chains, NEW e \in inbox[n][c], e.name # RevealName,
           Handled(n, c, e), NEW hash, ~Known(n, hash), NEW info, register(n, hash, info),
           RecordStands(hash, info)
    PROVE  Promised'
<1>1. \A m \in Notaries, d \in Chains :
         inbox'[m][d] = IF m = n /\ d = c THEN inbox[n][c] \ {e} ELSE inbox[m][d]
  BY DEF Handled, Typed, InNotaries, MailTyped
<1>2. Second \in Chains
  BY DEF Second, Chains
<1>3. \A m \in Notaries :
         /\ DOMAIN db[m] \subseteq DOMAIN db'[m]
         /\ \A h \in DOMAIN db[m] : db'[m][h] = db[m][h]
         /\ \A h \in DOMAIN db'[m] : h \in DOMAIN db[m] \/ (h = hash /\ db'[m][h] = info)
  BY DEF register, Typed, InNotaries, RecordsTyped, Known
<1>4. RecordsGoOn
  BY <1>3, SameContinues DEF RecordsGoOn
<1>5. \A m \in Notaries : \A x : x.name = RevealName =>
         (x \in inbox'[m][Second] <=> x \in inbox[m][Second])
  BY <1>1, <1>2
<1> QED
  BY <1>3, <1>4, <1>5, HandledKeepsPromise DEF Reveals, Known

LEMMA ExpiryContinues ==
    ASSUME Typed, NEW n \in Notaries, NEW expired,
           \/ db' = [db EXCEPT ![n] = [h \in DOMAIN db[n] |->
                       IF h \in expired THEN [db[n][h] EXCEPT !.MCLockStatus = "Expiration"] ELSE db[n][h]]]
           \/ db' = [db EXCEPT ![n] = [h \in DOMAIN db[n] |->
                       IF h \in expired THEN [db[n][h] EXCEPT !.SCLockStatus = "Expiration"] ELSE db[n][h]]]
    PROVE  \A m \in Notaries :
              /\ DOMAIN db'[m] = DOMAIN db[m]
              /\ \A h \in DOMAIN db[m] : /\ Continues(h, db[m][h], db'[m][h])
                                         /\ db'[m][h].Secret = db[m][h].Secret
                                         /\ db'[m][h].NotaryIDInCharge = db[m][h].NotaryIDInCharge
<1> DEFINE Fits(h, old, new) == /\ Continues(h, old, new) /\ new.Secret = old.Secret
                                /\ new.NotaryIDInCharge = old.NotaryIDInCharge
<1>1. \A h \in DOMAIN db[n] : db[n][h] \in LockInfo
  BY DEF Typed, InNotaries, RecordsTyped, RecordOK
<1>2. ASSUME NEW h, NEW info \in LockInfo
      PROVE  /\ Fits(h, info, [info EXCEPT !.MCLockStatus = "Expiration"])
             /\ Fits(h, info, [info EXCEPT !.SCLockStatus = "Expiration"])
  BY DEF LockInfo, Continues, Starter, EndOf, StartStatus, SideStatus, Due
<1>3. \A h, info : Fits(h, info, info)
  BY SameContinues
<1> HIDE DEF Fits
<1>4. /\ DOMAIN db'[n] = DOMAIN db[n]
      /\ \A h \in DOMAIN db[n] : db'[n][h] \in {db[n][h], [db[n][h] EXCEPT !.MCLockStatus = "Expiration"],
                                               [db[n][h] EXCEPT !.SCLockStatus = "Expiration"]}
  BY DEF Typed, InNotaries, RecordsTyped
<1>5. \A m \in Notaries \ {n} : db'[m] = db[m]
  BY DEF Typed, InNotaries, RecordsTyped
<1>6. \A m \in Notaries : /\ DOMAIN db'[m] = DOMAIN db[m]
                          /\ \A h \in DOMAIN db[m] : Fits(h, db[m][h], db'[m][h])
  <2>1. ASSUME NEW h \in DOMAIN db[n] PROVE Fits(h, db[n][h], db'[n][h])
    <3>1. PICK info : info = db[n][h]
      OBVIOUS
    <3>2. /\ Fits(h, info, info)
          /\ Fits(h, info, [info EXCEPT !.MCLockStatus = "Expiration"])
          /\ Fits(h, info, [info EXCEPT !.SCLockStatus = "Expiration"])
      BY <1>1, <1>2, <1>3, <3>1
    <3> QED
      BY <1>4, <3>1, <3>2
  <2> QED
    BY <1>3, <1>4, <1>5, <2>1
<1> QED
  BY <1>6 DEF Fits

LEMMA NewBlockKeepsPromise ==
    ASSUME Typed, Typed', Timed, Promised, OffChain, UNCHANGED <<session, saved, fresh>>,
           NEW n \in Notaries, NEW c \in Chains, NEW e \in inbox[n][c], e.name # RevealName,
           Handled(n, c, e),
           \A m \in Notaries :
              /\ DOMAIN db'[m] = DOMAIN db[m]
              /\ \A h \in DOMAIN db[m] : /\ Continues(h, db[m][h], db'[m][h])
                                         /\ db'[m][h].Secret = db[m][h].Secret
                                         /\ db'[m][h].NotaryIDInCharge = db[m][h].NotaryIDInCharge,
           mempool \subseteq mempool', mempool' \subseteq mempool \cup Cancels
    PROVE  Promised'
<1>1. \A m \in Notaries, d \in Chains :
         inbox'[m][d] = IF m = n /\ d = c THEN inbox[n][c] \ {e} ELSE inbox[m][d]
  BY DEF Handled, Typed, InNotaries, MailTyped
<1>2. Second \in Chains
  BY DEF Second, Chains
<1>3. RecordsGoOn
  BY DEF RecordsGoOn
<1>4. \A m \in Notaries : \A x : x.name = RevealName =>
         (x \in inbox'[m][Second] <=> x \in inbox[m][Second])
  BY <1>1, <1>2
<1>5. \A tx \in Cancels : tx \notin Prepared /\ tx.name # ClaimName
  BY DEF Cancels, Prepared, Prepares, ClaimName
<1> QED
  BY <1>3, <1>4, <1>5, HandledKeepsPromise DEF Reveals, Known

LEMMA PollKeepsPromise ==
    ASSUME Typed, Typed', Timed, Promised, UNCHANGED direction,
           NEW n \in Notaries, NEW c \in Chains, Poll(n, c)
    PROVE  Promised'
<1> DEFINE news == {e \in Log(c) : /\ e.block <= Newest(c)
                                   /\ \/ e.block > saved[n][c]
                                      \/ fresh[n][c] /\ e.block = saved[n][c]}
           block == [name |-> "NewBlock", block |-> Newest(c)]
<1>0. OffChain /\ UNCHANGED <<mempool, db, session>> /\ saved[n][c] < Newest(c)
  BY DEF Poll, OffChain
<1>1. /\ Outs' = Outs /\ Unclaimed' = Unclaimed /\ First' = First /\ Second' = Second
      /\ Log(Second)' = Log(Second) /\ Newest(Second)' = Newest(Second)
      /\ Height(Second)' = Height(Second) /\ Second \in Chains
      /\ Height(Second) \in Nat /\ Newest(Second) = Height(Second) - 1
  BY <1>0, OffChainLasts
<1>2. ClaimName' = ClaimName /\ \A e, h : Reveals(e, h)' <=> Reveals(e, h)
  BY SidesStay
<1>3. RecordsGoOn /\ SessionsGoOn
  BY <1>0, SameContinues DEF RecordsGoOn, SessionsGoOn, Requested
<1>4. \A m \in Notaries, d \in Chains :
         /\ saved'[m][d] = IF m = n /\ d = c THEN Newest(c) ELSE saved[m][d]
         /\ m # n \/ d # c => fresh'[m][d] = fresh[m][d]
         /\ inbox'[m][d] = IF m = n /\ d = c THEN inbox[n][c] \cup news \cup {block} ELSE inbox[m][d]
         /\ saved[m][d] \in Nat
  <2>1. \A m \in Notaries, d \in Chains :
           inbox'[m][d] = IF m = n /\ d = c THEN inbox[n][c] \cup news \cup {block} ELSE inbox[m][d]
    BY DEF Poll, Typed, InNotaries, MailTyped
  <2> HIDE DEF news, block
  <2>2. \A m \in Notaries, d \in Chains :
           /\ saved'[m][d] = IF m = n /\ d = c THEN Newest(c) ELSE saved[m][d]
           /\ saved[m][d] \in Nat
    BY DEF Poll, Typed, InNotaries, PollingTyped
  <2>3. \A m \in Notaries, d \in Chains : m # n \/ d # c => fresh'[m][d] = fresh[m][d]
    BY DEF Poll, Typed, InNotaries, PollingTyped
  <2> QED
    BY <2>1, <2>2, <2>3
<1>5. block.name # RevealName
  BY DEF RevealName
<1>6. \A e \in news : e \in Log(c) /\ e.block <= Newest(c)
  OBVIOUS
<1>7. FreshAtZero'
  <2> HIDE DEF news, block
  <2>1. Newest(c) # 0
    <3>1. saved[n][c] \in Nat /\ Height(c) \in Nat
      BY <1>4 DEF Height, Typed, OnChain, ChainTyped
    <3> QED
      BY <1>0, <3>1 DEF Newest
  <2> QED
    BY <1>4, <2>1 DEF Promised, FreshAtZero
<1>8. InCharge' /\ PreparesAgree'
  BY <1>0 DEF Promised, InCharge, PreparesAgree
<1>9. ClaimsAgree'
  BY <1>0, <1>2 DEF Promised, ClaimsAgree, Requested
<1>10. ASSUME NEW m \in Notaries, NEW h \in Hash, NEW end \in Nat, Pending(m, h, end)
       PROVE  Pending(m, h, end)'
  <2>1. Sent(h) => Sent(h)'
    BY <1>0, <1>2 DEF Sent
  <2>2. InMail(m, h) => InMail(m, h)'
    BY <1>1, <1>2, <1>4 DEF InMail
  <2>3. Unseen(m, h, end) => Unseen(m, h, end)' \/ InMail(m, h)'
    <3> SUFFICES ASSUME Unseen(m, h, end) PROVE Unseen(m, h, end)' \/ InMail(m, h)'
      OBVIOUS
    <3>1. PICK e \in Log(Second) :
             /\ Reveals(e, h) /\ Ahead(m, e) /\ e.block <= Height(Second)
             /\ \/ e.block <= Newest(Second) /\ saved[m][Second] < Newest(Second)
                \/ Height(Second) + MaxSkew < end
      BY DEF Unseen
    <3>2. CASE ~(m = n /\ c = Second)
      <4>1. saved'[m][Second] = saved[m][Second] /\ fresh'[m][Second] = fresh[m][Second]
        BY <1>1, <1>4, <3>2
      <4> QED
        BY <1>1, <1>2, <3>1, <4>1 DEF Unseen, Ahead
    <3>3. CASE m = n /\ c = Second /\ e.block <= Newest(Second)
      <4>1. e \in news
        BY <3>1, <3>3 DEF Ahead
      <4> QED
        BY <1>1, <1>2, <1>4, <3>1, <3>3, <4>1 DEF InMail
    <3>4. CASE m = n /\ c = Second /\ ~(e.block <= Newest(Second))
      <4>1. e.block > saved'[m][Second] /\ Height(Second) + MaxSkew < end
        <5>1. saved'[m][Second] = Newest(Second) /\ e.block \in Nat
          BY <1>1, <1>4, <3>4 DEF Typed, OnChain, LogsTyped, EventOK
        <5> QED
          BY <1>1, <3>1, <3>4, <5>1
      <4> QED
        BY <1>1, <1>2, <3>1, <4>1 DEF Unseen, Ahead
    <3> QED
      BY <3>2, <3>3, <3>4
  <2> QED
    BY <1>0, <2>1, <2>2, <2>3, <1>10 DEF Pending
<1>11. \A m \in Notaries : \A e \in inbox'[m][Second] : e.name = RevealName =>
          e \in inbox[m][Second] \/ (e \in Log(Second) /\ e.block <= Newest(Second))
  BY <1>1, <1>4, <1>5, <1>6
<1> HIDE DEF news, block
<1> QED
  BY <1>0, <1>3, <1>7, <1>8, <1>9, <1>10, <1>11, OffChainKeepsPromise

-----------------------------------------------------------------------------
LEMMA LockIsAsRecorded ==
    ASSUME NEW a \in Users, NEW lock \in Standing[a], lock # MC!Unlocked
    PROVE  lock = [SecretHash |-> lock.SecretHash, Expiration |-> lock.Expiration, value |-> lock.value]
BY DEF Standing, LockTerms

LEMMA LockinHandlerKeepsPromise ==
    ASSUME Typed, Typed', TruthInv, Timed, Promised, Timely, AllUp', ~CallsFail,
           Inward, UNCHANGED direction,
           NEW n \in Notaries, NEW c \in Chains, NEW e \in inbox[n][c], HandleLockin(n, c, e)
    PROVE  Promised'
<1>0. /\ First = "mc" /\ Second = "sc" /\ RevealName = "LockinSecret" /\ ClaimName = "Lockin"
      /\ \A info : /\ Due(info) = info.SCExpiration /\ EndOf(info) = info.MCExpiration
                   /\ Starter(info) = info.MCUserAddressHex
                   /\ StartStatus(info) = info.MCLockStatus /\ SideStatus(info) = info.SCLockStatus
      /\ UNCHANGED <<mcVars, scVars>> => OffChain
  BY DEF First, Second, RevealName, ClaimName, Due, EndOf, Starter, StartStatus, SideStatus,
         Inward, OffChain
<1>a. ASSUME NEW hash, NEW info, NEW txs, Record(n, c, e, hash, info, txs), Known(n, hash),
             UNCHANGED <<mcVars, scVars>>,
             Continues(hash, db[n][hash], info),
             info.NotaryIDInCharge = db[n][hash].NotaryIDInCharge,
             txs \subseteq Claims \cup Cancels,
             \A tx \in txs : tx.name = ClaimName =>
                /\ Requested(tx.from, MC!Sha256(tx.secret))
                /\ session[tx.from][MC!Sha256(tx.secret)].user = tx.account,
             \/ e.name # RevealName /\ info.Secret = db[n][hash].Secret
             \/ /\ c = Second /\ Reveals(e, hash)
                /\ db[n][hash].NotaryIDInCharge = n =>
                      \E tx \in txs : tx.name = ClaimName /\ MC!Sha256(tx.secret) = hash
      PROVE  Promised'
  BY <1>0, <1>a, RecordedKeepsPromise
<1>b. ASSUME Refuse(n, c, e), UNCHANGED <<mcVars, scVars>>,
             c = Second /\ e.name = RevealName =>
                ~Known(n, MC!Sha256(e.secret)) \/ db[n][MC!Sha256(e.secret)].Secret # NoSecret
      PROVE  Promised'
  BY <1>0, <1>b, RefusedKeepsPromise
<1>c. \A h : Known(n, h) => /\ db[n][h] \in LockInfo /\ RecordOK(db[n][h]) /\ h \in Hash
                            /\ RecordStands(h, db[n][h])
  BY KnownIsTyped DEF RecordOK, Promised, RecordsStand, Known
<1> USE DEF Handling
<1>1. CASE QueryLockin(n, c, e)
  BY <1>0, <1>1, AskedKeepsPromise DEF QueryLockin
<1>2. CASE onMCNewBlockLockin(n, e) /\ c = "mc"
  <2> DEFINE expired == {h \in dealing[n] : db[n][h].MCLockStatus = "Lock" /\ e.block >= db[n][h].MCExpiration}
  <2>1. db' = [db EXCEPT ![n] = [h \in DOMAIN db[n] |->
                 IF h \in expired THEN [db[n][h] EXCEPT !.MCLockStatus = "Expiration"] ELSE db[n][h]]]
    BY <1>2 DEF onMCNewBlockLockin, LockinMCExpired
  <2> HIDE DEF expired
  <2>2. \A m \in Notaries :
           /\ DOMAIN db'[m] = DOMAIN db[m]
           /\ \A h \in DOMAIN db[m] : /\ Continues(h, db[m][h], db'[m][h])
                                      /\ db'[m][h].Secret = db[m][h].Secret
                                      /\ db'[m][h].NotaryIDInCharge = db[m][h].NotaryIDInCharge
    BY <2>1, ExpiryContinues
  <2>3. mempool \subseteq mempool' /\ mempool' \subseteq mempool \cup Cancels
    BY <1>2 DEF onMCNewBlockLockin
  <2> QED
    BY <1>0, <1>2, <2>2, <2>3, NewBlockKeepsPromise DEF onMCNewBlockLockin
<1>3. CASE onSCNewBlockLockin(n, e) /\ c = "sc"
  <2> DEFINE expired == {h \in dealing[n] : LockinSCExpires(db[n][h], e.block)}
  <2>1. db' = [db EXCEPT ![n] = [h \in DOMAIN db[n] |->
                 IF h \in expired THEN [db[n][h] EXCEPT !.SCLockStatus = "Expiration"] ELSE db[n][h]]]
    BY <1>3 DEF onSCNewBlockLockin
  <2>2. \A m \in Notaries :
           /\ DOMAIN db'[m] = DOMAIN db[m]
           /\ \A h \in DOMAIN db[m] : /\ Continues(h, db[m][h], db'[m][h])
                                      /\ db'[m][h].Secret = db[m][h].Secret
                                      /\ db'[m][h].NotaryIDInCharge = db[m][h].NotaryIDInCharge
    <3> HIDE DEF expired
    <3> QED
      BY <2>1, ExpiryContinues
  <2>3. mempool \subseteq mempool' /\ mempool' \subseteq mempool \cup Cancels
    <3>1. \A h \in expired :
             [name |-> "CancelLockin", from |-> n, account |-> db[n][h].SCUserAddress] \in Cancels
      BY DEF Typed, InNotaries, RecordsTyped, DealingTyped, RecordOK, LockinSCExpires, Cancels
    <3> QED
      BY <1>3, <3>1 DEF onSCNewBlockLockin, Send
  <2> HIDE DEF expired
  <2> QED
    BY <1>0, <1>3, <2>2, <2>3, NewBlockKeepsPromise DEF onSCNewBlockLockin
<1>4. CASE onMCPrepareLockin4Ethereum(n, e) /\ c = "mc"
  <2>1. CASE Refuse(n, "mc", e)
    BY <1>0, <1>4, <1>b, <2>1 DEF onMCPrepareLockin4Ethereum
  <2>2. CASE ~Refuse(n, "mc", e)
    <3> DEFINE info == [MCUserAddressHex |-> e.account, SCUserAddress |-> Nobody,
                        Secret |-> NoSecret, Amount |-> e.lock.value,
                        MCExpiration |-> e.lock.Expiration,
                        SCExpiration |-> calculateSCExpiration(n, e.lock.Expiration),
                        MCLockStatus |-> "Lock", SCLockStatus |-> "None",
                        NotaryIDInCharge |-> Nobody]
    <3>1. /\ register(n, e.lock.SecretHash, info) /\ Handled(n, "mc", e)
          /\ ~(e.lock.Expiration <= MinExpiration + e.block) /\ ~Known(n, e.lock.SecretHash)
          /\ UNCHANGED <<mcVars, scVars, mempool, status, fresh, seen, session, saved>>
          /\ e.name = "Queried"
      BY <1>4, <2>2 DEF onMCPrepareLockin4Ethereum
    <3>2. e.lock \in Standing[e.account] /\ e.account \in Users /\ e.block \in Nat
          /\ e.lock # MC!Unlocked
      <4>1. MC!Unlocked.Expiration <= MinExpiration + e.block /\ e.block \in Nat /\ e.account \in Users
        BY <3>1, MailIsTyped, HashVocabulary, CrossChainNumbers DEF EventOK
      <4> QED
        BY <1>0, <1>4, <3>1, <4>1 DEF Timed, AnswersTimed
    <3>3. e.lock.SecretHash \in Hash /\ e.lock.Expiration \in Nat
      BY <3>2, HashVocabulary DEF Standing, LockTerms
    <3>4. OnTime(e.lock.SecretHash, calculateSCExpiration(n, e.lock.Expiration), e.lock.Expiration)
      BY <1>0, <1>4, <3>1, <3>2, <3>3, TimeIsLeft, CrossChainNumbers DEF calculateSCExpiration
    <3>5. LockOf(e.lock.SecretHash, info) = e.lock
      BY <1>0, <3>2, LockIsAsRecorded DEF LockOf
    <3>6. RecordStands(e.lock.SecretHash, info)
      BY <1>0, <3>2, <3>4, <3>5 DEF RecordStands
    <3> HIDE DEF info
    <3> QED
      BY <1>0, <1>4, <3>1, <3>6, RegisteredKeepsPromise
  <2> QED
    BY <2>1, <2>2
<1>5. CASE onSCPrepareLockin(n, e) /\ c = "sc"
  <2> DEFINE hash == e.lock.SecretHash
             info == [db[n][hash] EXCEPT !.SCExpiration = e.lock.Expiration,
                                         !.SCLockStatus = "Lock", !.SCUserAddress = e.account]
  <2>1. CASE Refuse(n, "sc", e)
    BY <1>0, <1>5, <1>b, <2>1 DEF onSCPrepareLockin
  <2>2. CASE ~Refuse(n, "sc", e)
    <3>1. /\ Record(n, c, e, hash, info, {}) /\ Known(n, hash) /\ e.name = "Queried"
          /\ UNCHANGED <<mcVars, scVars>>
      BY <1>5, <2>2 DEF onSCPrepareLockin
    <3>2. /\ Continues(hash, db[n][hash], info)
          /\ info.NotaryIDInCharge = db[n][hash].NotaryIDInCharge
          /\ info.Secret = db[n][hash].Secret
      BY <1>0, <1>c, <3>1 DEF Continues, LockInfo
    <3> HIDE DEF info, hash
    <3> QED
      BY <1>0, <1>a, <3>1, <3>2
  <2> QED
    BY <2>1, <2>2
<1>6. CASE onSCLockinSecret(n, e) /\ c = "sc"
  <2> DEFINE hash == SC!Sha256(e.secret)
             info == [db[n][hash] EXCEPT !.Secret = e.secret, !.SCLockStatus = "Unlock"]
             tx == [name |-> "Lockin", from |-> n, secret |-> e.secret,
                    account |-> db[n][hash].MCUserAddressHex]
             txs == IF ClaimsEther(n, db[n][hash]) THEN {tx} ELSE {}
  <2>0. hash = MC!Sha256(e.secret)
    BY HashVocabulary
  <2>1. CASE Refuse(n, "sc", e) /\ (~Known(n, hash) \/ db[n][hash].Secret # NoSecret)
    BY <1>0, <1>6, <1>b, <2>0, <2>1 DEF onSCLockinSecret
  <2>2. CASE ~(Refuse(n, "sc", e) /\ (~Known(n, hash) \/ db[n][hash].Secret # NoSecret))
    <3>1. /\ Record(n, c, e, hash, info, txs)
          /\ Known(n, hash) /\ e.name = "LockinSecret" /\ UNCHANGED <<mcVars, scVars>>
      BY <1>6, <2>2 DEF onSCLockinSecret
    <3>2. e.secret \in Secrets /\ tx \in Claims /\ tx.secret = e.secret /\ tx.name = "Lockin"
          /\ tx.from = n /\ tx.account = db[n][hash].MCUserAddressHex
      BY <1>c, <3>1, MailIsTyped DEF EventOK, RecordOK, Claims
    <3>3. hash \in Outs
      BY <1>0, <1>6, <2>0, <3>1, <3>2, HashVocabulary
      DEF TruthInv, MailIsGenuine, Genuine, Own, Outs, Minted, Log, Chains
    <3>4. Continues(hash, db[n][hash], info) /\ info.NotaryIDInCharge = db[n][hash].NotaryIDInCharge
      BY <1>0, <1>c, <3>1, <3>3 DEF Continues, LockInfo
    <3>5. ClaimsEther(n, db[n][hash]) <=> db[n][hash].NotaryIDInCharge = n
      BY DEF ClaimsEther
    <3>6. ASSUME db[n][hash].NotaryIDInCharge = n
          PROVE  Requested(n, hash) /\ session[n][hash].user = db[n][hash].MCUserAddressHex
      <4>1. Requested(n, hash) /\ hash \in Hash
        BY <1>c, <3>1, <3>6, NobodyIsNoAccount DEF RecordStands
      <4> QED
        BY <1>0, <4>1 DEF Promised, SessionsStand, SessionStands
    <3>7. \A ty \in txs : ty = tx /\ db[n][hash].NotaryIDInCharge = n
      BY <3>5
    <3>8. db[n][hash].NotaryIDInCharge = n => tx \in txs
      BY <3>5
    <3>9. Reveals(e, hash)
      BY <1>0, <2>0, <3>1 DEF Reveals
    <3> HIDE DEF info, hash, tx, txs
    <3>10. \A ty \in txs : ty.name = ClaimName =>
              /\ Requested(ty.from, MC!Sha256(ty.secret))
              /\ session[ty.from][MC!Sha256(ty.secret)].user = ty.account
      BY <2>0, <3>2, <3>6, <3>7
    <3>11. txs \subseteq Claims \cup Cancels
      BY <3>2, <3>7
    <3>12. db[n][hash].NotaryIDInCharge = n => \E ty \in txs : ty.name = ClaimName /\ MC!Sha256(ty.secret) = hash
      BY <1>0, <2>0, <3>2, <3>8
    <3> QED
      BY <1>0, <1>6, <1>a, <3>1, <3>4, <3>9, <3>10, <3>11, <3>12
  <2> QED
    BY <2>1, <2>2
<1>7. CASE /\ \/ onMCLockin4Ethereum(n, e) /\ c = "mc"
              \/ onMCCancelLockin4Ethereum(n, e) /\ c = "mc"
              \/ onSCCancelLockin(n, e) /\ c = "sc"
  <2>1. \/ Refuse(n, c, e)
        \/ /\ Known(n, e.SecretHash)
           /\ \/ Record(n, c, e, e.SecretHash, [db[n][e.SecretHash] EXCEPT !.MCLockStatus = "Unlock"], {})
              \/ Record(n, c, e, e.SecretHash, [db[n][e.SecretHash] EXCEPT !.MCLockStatus = "Cancel"], {})
              \/ Record(n, c, e, e.SecretHash, [db[n][e.SecretHash] EXCEPT !.SCLockStatus = "Cancel"], {})
    BY <1>7 DEF onMCLockin4Ethereum, onMCCancelLockin4Ethereum, onSCCancelLockin
  <2>2. e.name # RevealName /\ UNCHANGED <<mcVars, scVars>>
    BY <1>0, <1>7 DEF onMCLockin4Ethereum, onMCCancelLockin4Ethereum, onSCCancelLockin
  <2>3. CASE Refuse(n, c, e)
    BY <1>b, <2>2, <2>3
  <2>4. CASE ~Refuse(n, c, e)
    <3>1. PICK info : /\ Known(n, e.SecretHash) /\ Record(n, c, e, e.SecretHash, info, {})
                      /\ \/ info = [db[n][e.SecretHash] EXCEPT !.MCLockStatus = "Unlock"]
                         \/ info = [db[n][e.SecretHash] EXCEPT !.MCLockStatus = "Cancel"]
                         \/ info = [db[n][e.SecretHash] EXCEPT !.SCLockStatus = "Cancel"]
      BY <2>1, <2>4
    <3>2. /\ Continues(e.SecretHash, db[n][e.SecretHash], info)
          /\ info.NotaryIDInCharge = db[n][e.SecretHash].NotaryIDInCharge
          /\ info.Secret = db[n][e.SecretHash].Secret
      BY <1>0, <1>c, <3>1 DEF Continues, LockInfo
    <3> QED
      BY <1>a, <2>2, <3>1, <3>2
  <2> QED
    BY <2>3, <2>4
<1> QED
  BY <1>1, <1>2, <1>3, <1>4, <1>5, <1>6, <1>7 DEF HandleLockin

LEMMA LockoutHandlerKeepsPromise ==
    ASSUME Typed, Typed', TruthInv, Timed, Promised, Timely, AllUp', ~CallsFail,
           Outward, UNCHANGED direction,
           NEW n \in Notaries, NEW c \in Chains, NEW e \in inbox[n][c], HandleLockout(n, c, e)
    PROVE  Promised'
<1>0. /\ First = "sc" /\ Second = "mc" /\ RevealName = "LockoutSecret" /\ ClaimName = "Lockout"
      /\ \A info : /\ Due(info) = info.MCExpiration /\ EndOf(info) = info.SCExpiration
                   /\ Starter(info) = info.SCUserAddress
                   /\ StartStatus(info) = info.SCLockStatus /\ SideStatus(info) = info.MCLockStatus
      /\ UNCHANGED <<mcVars, scVars>> => OffChain
      /\ ~Inward
  BY DEF First, Second, RevealName, ClaimName, Due, EndOf, Starter, StartStatus, SideStatus,
         Inward, Outward, OffChain
<1>a. ASSUME NEW hash, NEW info, NEW txs, Record(n, c, e, hash, info, txs), Known(n, hash),
             UNCHANGED <<mcVars, scVars>>,
             Continues(hash, db[n][hash], info),
             info.NotaryIDInCharge = db[n][hash].NotaryIDInCharge,
             txs \subseteq Claims \cup Cancels,
             \A tx \in txs : tx.name = ClaimName =>
                /\ Requested(tx.from, MC!Sha256(tx.secret))
                /\ session[tx.from][MC!Sha256(tx.secret)].user = tx.account,
             \/ e.name # RevealName /\ info.Secret = db[n][hash].Secret
             \/ /\ c = Second /\ Reveals(e, hash)
                /\ db[n][hash].NotaryIDInCharge = n =>
                      \E tx \in txs : tx.name = ClaimName /\ MC!Sha256(tx.secret) = hash
      PROVE  Promised'
  BY <1>0, <1>a, RecordedKeepsPromise
<1>b. ASSUME Refuse(n, c, e), UNCHANGED <<mcVars, scVars>>,
             c = Second /\ e.name = RevealName =>
                ~Known(n, MC!Sha256(e.secret)) \/ db[n][MC!Sha256(e.secret)].Secret # NoSecret
      PROVE  Promised'
  BY <1>0, <1>b, RefusedKeepsPromise
<1>c. \A h : Known(n, h) => /\ db[n][h] \in LockInfo /\ RecordOK(db[n][h]) /\ h \in Hash
                            /\ RecordStands(h, db[n][h])
  BY KnownIsTyped DEF RecordOK, Promised, RecordsStand, Known
<1> USE DEF Handling
<1>1. CASE QueryLockout(n, c, e)
  BY <1>0, <1>1, AskedKeepsPromise DEF QueryLockout
<1>2. CASE onMCNewBlockLockout(n, e) /\ c = "mc"
  <2> DEFINE expired == {h \in dealing[n] :
                            LockoutExpires(db[n][h].MCLockStatus, db[n][h].MCExpiration, e.block)}
  <2>1. db' = [db EXCEPT ![n] = [h \in DOMAIN db[n] |->
                 IF h \in expired THEN [db[n][h] EXCEPT !.MCLockStatus = "Expiration"] ELSE db[n][h]]]
    BY <1>2 DEF onMCNewBlockLockout
  <2>2. \A m \in Notaries :
           /\ DOMAIN db'[m] = DOMAIN db[m]
           /\ \A h \in DOMAIN db[m] : /\ Continues(h, db[m][h], db'[m][h])
                                      /\ db'[m][h].Secret = db[m][h].Secret
                                      /\ db'[m][h].NotaryIDInCharge = db[m][h].NotaryIDInCharge
    <3> HIDE DEF expired
    <3> QED
      BY <2>1, ExpiryContinues
  <2>3. mempool \subseteq mempool' /\ mempool' \subseteq mempool \cup Cancels
    <3>1. \A h \in expired :
             [name |-> "CancelLockOut", from |-> n, account |-> db[n][h].MCUserAddressHex] \in Cancels
      BY <1>0 DEF Typed, InNotaries, RecordsTyped, DealingTyped, RecordOK, LockoutExpires, Cancels
    <3> QED
      BY <1>2, <3>1 DEF onMCNewBlockLockout, Send
  <2> HIDE DEF expired
  <2> QED
    BY <1>0, <1>2, <2>2, <2>3, NewBlockKeepsPromise DEF onMCNewBlockLockout
<1>3. CASE onSCNewBlockLockout(n, e) /\ c = "sc"
  <2> DEFINE expired == {h \in dealing[n] :
                            LockoutExpires(db[n][h].SCLockStatus, db[n][h].SCExpiration, e.block)}
  <2>1. db' = [db EXCEPT ![n] = [h \in DOMAIN db[n] |->
                 IF h \in expired THEN [db[n][h] EXCEPT !.SCLockStatus = "Expiration"] ELSE db[n][h]]]
    BY <1>3 DEF onSCNewBlockLockout
  <2> HIDE DEF expired
  <2>2. \A m \in Notaries :
           /\ DOMAIN db'[m] = DOMAIN db[m]
           /\ \A h \in DOMAIN db[m] : /\ Continues(h, db[m][h], db'[m][h])
                                      /\ db'[m][h].Secret = db[m][h].Secret
                                      /\ db'[m][h].NotaryIDInCharge = db[m][h].NotaryIDInCharge
    BY <2>1, ExpiryContinues
  <2>3. mempool \subseteq mempool' /\ mempool' \subseteq mempool \cup Cancels
    BY <1>3 DEF onSCNewBlockLockout
  <2> QED
    BY <1>0, <1>3, <2>2, <2>3, NewBlockKeepsPromise DEF onSCNewBlockLockout
<1>4. CASE onSCPrepareLockout(n, e) /\ c = "sc"
  <2>1. CASE Refuse(n, "sc", e)
    BY <1>0, <1>4, <1>b, <2>1 DEF onSCPrepareLockout
  <2>2. CASE ~Refuse(n, "sc", e)
    <3> DEFINE info == [MCUserAddressHex |-> Nobody, SCUserAddress |-> e.account,
                        Secret |-> NoSecret, Amount |-> e.lock.value,
                        MCExpiration |-> calculateMCExpiration(n, e.lock.Expiration),
                        SCExpiration |-> e.lock.Expiration,
                        MCLockStatus |-> "None", SCLockStatus |-> "Lock",
                        NotaryIDInCharge |-> Nobody]
    <3>0. ~Panic(n)
      BY DEF Panic, Stop, AllUp, Typed, InNotaries, PollingTyped
    <3>1. /\ register(n, e.lock.SecretHash, info) /\ Handled(n, "sc", e)
          /\ ~TooShort(e.lock, e.block) /\ e.lock.SecretHash # SC!Unlocked.SecretHash
          /\ ~Known(n, e.lock.SecretHash)
          /\ UNCHANGED <<mcVars, scVars, mempool, status, fresh, seen, session, saved>>
          /\ e.name = "Queried"
      BY <1>4, <2>2, <3>0 DEF onSCPrepareLockout
    <3>2. /\ e.lock \in Standing[e.account] /\ e.lock # MC!Unlocked
          /\ e.account \in Users /\ e.block \in Nat
      <4>1. e.block \in Nat /\ e.account \in Users
        BY <3>1, MailIsTyped DEF EventOK
      <4>2. MC!Unlocked = SC!Unlocked
        BY HashVocabulary
      <4>3. e.lock = MC!Unlocked \/ e.lock \in Standing[e.account]
        BY <1>0, <1>4, <3>1 DEF Timed, AnswersTimed
      <4> QED
        BY <3>1, <4>1, <4>2, <4>3
    <3>3. e.lock.SecretHash \in Hash /\ e.lock.Expiration \in Nat
      BY <3>2, HashVocabulary DEF Standing, LockTerms
    <3>4. Height("sc") <= e.lock.Expiration => e.lock.Expiration > MinExpiration + e.block
      <4> SUFFICES ASSUME Height("sc") <= e.lock.Expiration
                   PROVE  e.lock.Expiration > MinExpiration + e.block
        OBVIOUS
      <4>1. e.block <= Height("sc") /\ Height("sc") \in Nat
        BY <1>4 DEF Timed, AllFollow, Following, Chains, Typed, OnChain, ChainTyped, Height
      <4>2. e.lock.Expiration - e.block \in Nat
        BY <3>2, <3>3, <4>1
      <4>3. Uint64(e.lock.Expiration - e.block) \in Nat
            /\ Uint64(e.lock.Expiration - e.block) <= e.lock.Expiration - e.block
        BY <4>2, UintArithmetic
      <4> QED
        BY <3>1, <3>2, <3>3, <4>2, <4>3, CrossChainNumbers DEF TooShort
    <3>5. OnTime(e.lock.SecretHash, calculateMCExpiration(n, e.lock.Expiration), e.lock.Expiration)
      BY <1>0, <1>4, <3>2, <3>4, TimeIsLeft DEF calculateMCExpiration
    <3>6. LockOf(e.lock.SecretHash, info) = e.lock
      BY <1>0, <3>2, LockIsAsRecorded DEF LockOf
    <3>7. RecordStands(e.lock.SecretHash, info)
      BY <1>0, <3>2, <3>5, <3>6 DEF RecordStands
    <3> HIDE DEF info
    <3> QED
      BY <1>0, <1>4, <3>1, <3>7, RegisteredKeepsPromise
  <2> QED
    BY <2>1, <2>2
<1>5. CASE onMCPrepareLockout4Ethereum(n, e) /\ c = "mc"
  <2> DEFINE hash == e.lock.SecretHash
             info == [db[n][hash] EXCEPT !.MCExpiration = e.lock.Expiration,
                                         !.MCLockStatus = "Lock", !.MCUserAddressHex = e.account]
  <2>1. CASE Refuse(n, "mc", e)
    BY <1>0, <1>5, <1>b, <2>1 DEF onMCPrepareLockout4Ethereum
  <2>2. CASE ~Refuse(n, "mc", e)
    <3>1. /\ Record(n, c, e, hash, info, {}) /\ Known(n, hash) /\ e.name = "Queried"
          /\ UNCHANGED <<mcVars, scVars>>
      BY <1>5, <2>2 DEF onMCPrepareLockout4Ethereum
    <3>2. /\ Continues(hash, db[n][hash], info)
          /\ info.NotaryIDInCharge = db[n][hash].NotaryIDInCharge
          /\ info.Secret = db[n][hash].Secret
      BY <1>0, <1>c, <3>1 DEF Continues, LockInfo
    <3> HIDE DEF info, hash
    <3> QED
      BY <1>0, <1>a, <3>1, <3>2
  <2> QED
    BY <2>1, <2>2
<1>6. CASE onMCLockoutSecret4Ethereum(n, e) /\ c = "mc"
  <2> DEFINE hash == MC!Sha256(e.secret)
             info == [db[n][hash] EXCEPT !.Secret = e.secret, !.MCLockStatus = "Unlock"]
             tx == [name |-> "Lockout", from |-> n, secret |-> e.secret,
                    account |-> db[n][hash].SCUserAddress]
             txs == IF ClaimsTokens(n, db[n][hash]) THEN {tx} ELSE {}
  <2>0. hash = MC!Sha256(e.secret)
    OBVIOUS
  <2>1. CASE Refuse(n, "mc", e) /\ (~Known(n, hash) \/ db[n][hash].Secret # NoSecret)
    BY <1>0, <1>6, <1>b, <2>0, <2>1 DEF onMCLockoutSecret4Ethereum
  <2>2. CASE ~(Refuse(n, "mc", e) /\ (~Known(n, hash) \/ db[n][hash].Secret # NoSecret))
    <3>1. /\ Record(n, c, e, hash, info, txs)
          /\ Known(n, hash) /\ e.name = "LockoutSecret" /\ UNCHANGED <<mcVars, scVars>>
      BY <1>6, <2>2 DEF onMCLockoutSecret4Ethereum
    <3>2. e.secret \in Secrets /\ tx \in Claims /\ tx.secret = e.secret /\ tx.name = "Lockout"
          /\ tx.from = n /\ tx.account = db[n][hash].SCUserAddress
      BY <1>c, <3>1, MailIsTyped DEF EventOK, RecordOK, Claims
    <3>3. hash \in Outs
      BY <1>0, <1>6, <3>1, <3>2
      DEF TruthInv, MailIsGenuine, Genuine, Own, Outs, Released, Log, Chains, Hash
    <3>4. Continues(hash, db[n][hash], info) /\ info.NotaryIDInCharge = db[n][hash].NotaryIDInCharge
      BY <1>0, <1>c, <3>1, <3>3 DEF Continues, LockInfo
    <3>5. ClaimsTokens(n, db[n][hash]) <=> db[n][hash].NotaryIDInCharge = n
      BY DEF ClaimsTokens
    <3>6. ASSUME db[n][hash].NotaryIDInCharge = n
          PROVE  Requested(n, hash) /\ session[n][hash].user = db[n][hash].SCUserAddress
      <4>1. Requested(n, hash) /\ hash \in Hash
        BY <1>c, <3>1, <3>6, NobodyIsNoAccount DEF RecordStands
      <4> QED
        BY <1>0, <4>1 DEF Promised, SessionsStand, SessionStands
    <3>7. \A ty \in txs : ty = tx /\ db[n][hash].NotaryIDInCharge = n
      BY <3>5
    <3>8. db[n][hash].NotaryIDInCharge = n => tx \in txs
      BY <3>5
    <3>9. Reveals(e, hash)
      BY <1>0, <2>0, <3>1 DEF Reveals
    <3> HIDE DEF info, hash, tx, txs
    <3>10. \A ty \in txs : ty.name = ClaimName =>
              /\ Requested(ty.from, MC!Sha256(ty.secret))
              /\ session[ty.from][MC!Sha256(ty.secret)].user = ty.account
      BY <2>0, <3>2, <3>6, <3>7
    <3>11. txs \subseteq Claims \cup Cancels
      BY <3>2, <3>7
    <3>12. db[n][hash].NotaryIDInCharge = n => \E ty \in txs : ty.name = ClaimName /\ MC!Sha256(ty.secret) = hash
      BY <1>0, <2>0, <3>2, <3>8
    <3> QED
      BY <1>0, <1>6, <1>a, <3>1, <3>4, <3>9, <3>10, <3>11, <3>12
  <2> QED
    BY <2>1, <2>2
<1>7. CASE /\ \/ onSCLockout(n, e) /\ c = "sc"
              \/ onMCCancelLockout4Ethereum(n, e) /\ c = "mc"
              \/ onSCCancelLockout(n, e) /\ c = "sc"
  <2>1. \/ Refuse(n, c, e)
        \/ /\ Known(n, e.SecretHash)
           /\ \/ Record(n, c, e, e.SecretHash, [db[n][e.SecretHash] EXCEPT !.SCLockStatus = "Unlock"], {})
              \/ Record(n, c, e, e.SecretHash, [db[n][e.SecretHash] EXCEPT !.MCLockStatus = "Cancel"], {})
              \/ Record(n, c, e, e.SecretHash, [db[n][e.SecretHash] EXCEPT !.SCLockStatus = "Cancel"], {})
    BY <1>7 DEF onSCLockout, onMCCancelLockout4Ethereum, onSCCancelLockout
  <2>2. e.name # RevealName /\ UNCHANGED <<mcVars, scVars>>
    BY <1>0, <1>7 DEF onSCLockout, onMCCancelLockout4Ethereum, onSCCancelLockout
  <2>3. CASE Refuse(n, c, e)
    BY <1>b, <2>2, <2>3
  <2>4. CASE ~Refuse(n, c, e)
    <3>1. PICK info : /\ Known(n, e.SecretHash) /\ Record(n, c, e, e.SecretHash, info, {})
                      /\ \/ info = [db[n][e.SecretHash] EXCEPT !.SCLockStatus = "Unlock"]
                         \/ info = [db[n][e.SecretHash] EXCEPT !.MCLockStatus = "Cancel"]
                         \/ info = [db[n][e.SecretHash] EXCEPT !.SCLockStatus = "Cancel"]
      BY <2>1, <2>4
    <3>2. /\ Continues(e.SecretHash, db[n][e.SecretHash], info)
          /\ info.NotaryIDInCharge = db[n][e.SecretHash].NotaryIDInCharge
          /\ info.Secret = db[n][e.SecretHash].Secret
      BY <1>0, <1>c, <3>1 DEF Continues, LockInfo
    <3> QED
      BY <1>a, <2>2, <3>1, <3>2
  <2> QED
    BY <2>3, <2>4
<1> QED
  BY <1>1, <1>2, <1>3, <1>4, <1>5, <1>6, <1>7 DEF HandleLockout

-----------------------------------------------------------------------------
(* Sessions.                                                               *)
LEMMA SessionKeepsPromise ==
    ASSUME Typed, Typed', Timed, Promised, OffChain, RecordsGoOn, SessionsGoOn,
           UNCHANGED <<saved, fresh, inbox>>, InCharge', mempool \subseteq mempool',
           \A n \in Notaries : \A h \in DOMAIN db[n] : db'[n][h].Secret = db[n][h].Secret,
           \A n \in Notaries, h \in Hash :
              session[n][h].stage \in {"mined", "done"} => session'[n][h].stage \in {"mined", "done"},
           \A tx \in mempool' \ mempool :
              /\ tx.name # ClaimName
              /\ tx \in Prepared => /\ tx.expiration = session'[tx.from][tx.hash].expiration
                                    /\ tx.value = session'[tx.from][tx.hash].amount
    PROVE  Promised'
<1>1. /\ Unclaimed' = Unclaimed /\ First' = First /\ Second' = Second
      /\ Log(Second)' = Log(Second) /\ Newest(Second)' = Newest(Second)
      /\ Height(Second)' = Height(Second) /\ UNCHANGED direction
  BY OffChainLasts
<1>2. ClaimName' = ClaimName /\ \A e, h : Reveals(e, h)' <=> Reveals(e, h)
  BY <1>1, SidesStay
<1>3. FreshAtZero'
  BY DEF Promised, FreshAtZero
<1>4. PreparesAgree'
  <2> SUFFICES ASSUME NEW tx \in mempool', tx \in Prepared
               PROVE  /\ tx.expiration = session'[tx.from][tx.hash].expiration
                      /\ tx.value = session'[tx.from][tx.hash].amount
    BY DEF PreparesAgree
  <2>1. tx.from \in Notaries /\ tx.hash \in Hash
    BY DEF Prepared
  <2>2. CASE tx \in mempool
    <3>1. /\ tx.expiration = session[tx.from][tx.hash].expiration
          /\ tx.value = session[tx.from][tx.hash].amount
      BY <2>2 DEF Promised, PreparesAgree
    <3> QED
      BY <2>1, <3>1 DEF SessionsGoOn
  <2> QED
    BY <2>2
<1>5. ClaimsAgree'
  <2> SUFFICES ASSUME NEW tx \in mempool, tx.name = ClaimName
               PROVE  /\ Requested(tx.from, MC!Sha256(tx.secret))'
                      /\ session'[tx.from][MC!Sha256(tx.secret)].user = tx.account
    BY <1>2 DEF ClaimsAgree
  <2>1. tx.from \in Notaries /\ MC!Sha256(tx.secret) \in Hash
    <3>1. tx \in Claims
      BY TxKinds DEF ClaimName
    <3> QED
      BY <3>1, HashVocabulary DEF Claims
  <2>2. /\ Requested(tx.from, MC!Sha256(tx.secret))
        /\ session[tx.from][MC!Sha256(tx.secret)].user = tx.account
    BY DEF Promised, ClaimsAgree
  <2> QED
    BY <2>1, <2>2 DEF SessionsGoOn
<1>6. ASSUME NEW n \in Notaries, NEW h \in Hash, NEW end \in Nat, Requested(n, h), Pending(n, h, end)
      PROVE  Pending(n, h, end)'
  <2>1. db'[n][h].Secret = db[n][h].Secret
    BY <1>6 DEF Promised, SessionsStand, Known
  <2>2. Sent(h) => Sent(h)'
    BY <1>2 DEF Sent
  <2>3. InMail(n, h) => InMail(n, h)'
    BY <1>1, <1>2 DEF InMail
  <2>4. Unseen(n, h, end) => Unseen(n, h, end)'
    BY <1>1, <1>2 DEF Unseen, Ahead
  <2> QED
    BY <1>6, <2>1, <2>2, <2>3, <2>4 DEF Pending
<1> QED
  BY <1>3, <1>4, <1>5, <1>6, OffChainKeepsPromise

LEMMA OneSessionGoesOn ==
    ASSUME Typed, NEW n \in Notaries, NEW h \in Hash, NEW s, session' = [session EXCEPT ![n][h] = s],
           LET t == session[n][h] IN
           /\ (s.stage = "idle" <=> t.stage = "idle") /\ (t.stage = "done" => s.stage = "done")
           /\ s.user = t.user /\ s.amount = t.amount /\ s.expiration = t.expiration
           /\ s.asked \subseteq t.asked
    PROVE  SessionsGoOn
<1>1. /\ session'[n][h] = s
      /\ \A m \in Notaries, k \in Hash : m # n \/ k # h => session'[m][k] = session[m][k]
  BY OthersGoOn
<1> QED
  BY <1>1 DEF SessionsGoOn, Requested

LEMMA AnswerKeepsPromise ==
    ASSUME Typed, Typed', Timed, Promised, OneAsked, UNCHANGED direction,
           NEW n \in Notaries, NEW m \in Notaries, NEW h \in Hash, NEW agrees, NEW info,
           Answer(n, m, h, agrees, info),
           agrees => /\ Known(m, h) /\ info.Secret = db[m][h].Secret
                     /\ Requested(n, h) => Continues(h, db[m][h], info)
    PROVE  Promised'
<1>1. m \in session[n][h].asked /\ SessionOK(session[n][h]) /\ h \in MC!Hashes
  BY HashVocabulary DEF Answer, Typed, InNotaries, SessionsTyped
<1>2. Requested(n, h) /\ m # n
  BY <1>1 DEF Timed, SessionsTimed, Promised, SessionsStand
<1>3. ~Requested(m, h)
  BY <1>2 DEF OneAsked
<1>4. PICK s : /\ session' = [session EXCEPT ![n][h] = s]
               /\ s.stage = session[n][h].stage /\ s.user = session[n][h].user
               /\ s.amount = session[n][h].amount /\ s.expiration = session[n][h].expiration
               /\ s.asked \subseteq session[n][h].asked
  <2>1. CASE agrees
    <3> DEFINE t == [session[n][h] EXCEPT !.asked = @ \ {m}, !.agreed = @ \cup {m}]
    <3>1. session' = [session EXCEPT ![n][h] = t]
      BY <1>1, <2>1 DEF Answer, Typed, InNotaries, SessionsTyped
    <3>2. /\ t.stage = session[n][h].stage /\ t.user = session[n][h].user
          /\ t.amount = session[n][h].amount /\ t.expiration = session[n][h].expiration
          /\ t.asked \subseteq session[n][h].asked
      BY <1>1 DEF SessionOK, SessionRecord
    <3> HIDE DEF t
    <3> QED
      BY <3>1, <3>2
  <2>2. CASE ~agrees
    <3> DEFINE t == [session[n][h] EXCEPT !.asked = @ \ {m}]
    <3>1. session' = [session EXCEPT ![n][h] = t]
      BY <2>2 DEF Answer
    <3>2. /\ t.stage = session[n][h].stage /\ t.user = session[n][h].user
          /\ t.amount = session[n][h].amount /\ t.expiration = session[n][h].expiration
          /\ t.asked \subseteq session[n][h].asked
      BY <1>1 DEF SessionOK, SessionRecord
    <3> HIDE DEF t
    <3> QED
      BY <3>1, <3>2
  <2> QED
    BY <2>1, <2>2
<1>5. SessionsGoOn /\ \A a \in Notaries, k \in Hash : session'[a][k].stage = session[a][k].stage
  <2>1. SessionsGoOn
    BY <1>4, OneSessionGoesOn
  <2>2. /\ session'[n][h] = s
        /\ \A a \in Notaries, k \in Hash : a # n \/ k # h => session'[a][k] = session[a][k]
    BY <1>4, OthersGoOn
  <2> QED
    BY <1>4, <2>1, <2>2
<1>6. \A a \in Notaries :
         /\ DOMAIN db'[a] = DOMAIN db[a]
         /\ \A k \in DOMAIN db[a] : \/ db'[a][k] = db[a][k]
                                    \/ agrees /\ a = m /\ k = h /\ db'[a][k] = info
  <2>1. CASE agrees
    BY <2>1, OneRecordGoesOn DEF Answer
  <2>2. CASE ~agrees
    BY <2>2 DEF Answer
  <2> QED
    BY <2>1, <2>2
<1>7. RecordsGoOn /\ \A a \in Notaries : \A k \in DOMAIN db[a] : db'[a][k].Secret = db[a][k].Secret
  BY <1>2, <1>6, SameContinues DEF RecordsGoOn
<1>8. InCharge'
  <2> SUFFICES ASSUME NEW a \in Notaries, NEW k \in Hash, session'[a][k].stage = "done"
               PROVE  db'[a][k].NotaryIDInCharge = a
    BY DEF InCharge
  <2>1. Requested(a, k) /\ db[a][k].NotaryIDInCharge = a
    BY <1>5 DEF Requested, Promised, InCharge
  <2>2. k \in DOMAIN db[a] /\ ~(a = m /\ k = h)
    BY <1>3, <2>1 DEF Promised, SessionsStand, Known
  <2> QED
    BY <1>6, <2>1, <2>2
<1>9. OffChain /\ UNCHANGED <<saved, fresh, inbox, mempool>>
  BY DEF Answer, OffChain
<1> QED
  BY <1>5, <1>7, <1>8, <1>9, SessionKeepsPromise

LEMMA CallKeepsPromise ==
    ASSUME Typed, Typed', Timed, Promised, UNCHANGED direction, NEW n \in Notaries, NEW h \in Hash,
           NEW name \in Prepares, callPrepare(n, h, name)
    PROVE  Promised'
<1>0. SessionOK(session[n][h]) /\ session[n][h].stage = "signing"
  BY HashVocabulary DEF callPrepare, Typed, InNotaries, SessionsTyped
<1> DEFINE tx == [name |-> name, from |-> n, account |-> session[n][h].account, hash |-> h,
                  expiration |-> session[n][h].expiration, value |-> session[n][h].amount]
<1>1. PICK s : /\ session' = [session EXCEPT ![n][h] = s] /\ s.stage \in {"sent", "failed"}
               /\ s.user = session[n][h].user /\ s.amount = session[n][h].amount
               /\ s.expiration = session[n][h].expiration /\ s.asked = session[n][h].asked
               /\ mempool \subseteq mempool' /\ mempool' \subseteq mempool \cup {tx}
  <2>1. PICK sent \in BOOLEAN :
           /\ session' = [session EXCEPT ![n][h] =
                             [session[n][h] EXCEPT !.stage = IF sent THEN "sent" ELSE "failed"]]
           /\ mempool' = IF sent THEN mempool \cup {tx} ELSE mempool
    BY CrossChainNumbers DEF callPrepare
  <2> DEFINE t == [session[n][h] EXCEPT !.stage = IF sent THEN "sent" ELSE "failed"]
  <2>2. /\ t.stage \in {"sent", "failed"}
        /\ t.user = session[n][h].user /\ t.amount = session[n][h].amount
        /\ t.expiration = session[n][h].expiration /\ t.asked = session[n][h].asked
    BY <1>0 DEF SessionOK, SessionRecord
  <2>3. session' = [session EXCEPT ![n][h] = t]
    BY <2>1
  <2> HIDE DEF t, tx
  <2> QED
    BY <2>1, <2>2, <2>3
<1>2. /\ tx.from = n /\ tx.hash = h /\ tx.expiration = session[n][h].expiration
      /\ tx.value = session[n][h].amount /\ tx.name # ClaimName
  BY DEF Prepares, ClaimName
<1> HIDE DEF tx
<1>3. SessionsGoOn
  BY <1>0, <1>1, OneSessionGoesOn
<1>4. /\ session'[n][h] = s
      /\ \A m \in Notaries, k \in Hash : m # n \/ k # h => session'[m][k] = session[m][k]
  BY <1>1, OthersGoOn
<1>5. OffChain /\ UNCHANGED <<saved, fresh, inbox, db>>
  BY DEF callPrepare, OffChain
<1>6. RecordsGoOn
  BY <1>5, SameContinues DEF RecordsGoOn
<1>7. InCharge'
  BY <1>1, <1>4, <1>5 DEF Promised, InCharge
<1> QED
  BY <1>0, <1>1, <1>2, <1>3, <1>4, <1>5, <1>6, <1>7, SessionKeepsPromise

LEMMA ChargeKeepsPromise ==
    ASSUME Typed, Typed', Timed, Promised, AllUp', UNCHANGED direction,
           NEW n \in Notaries, NEW h \in Hash, takeCharge(n, h)
    PROVE  Promised'
<1>0. SessionOK(session[n][h]) /\ session[n][h].stage = "mined"
  BY HashVocabulary DEF takeCharge, Receipted, Typed, InNotaries, SessionsTyped
<1>1. h \in dealing[n] /\ Known(n, h)
  BY DEF takeCharge, Stop, AllUp, Typed, InNotaries, PollingTyped, DealingTyped, Known
<1>2. PICK s : /\ session' = [session EXCEPT ![n][h] = s] /\ s.stage = "done"
               /\ s.user = session[n][h].user /\ s.amount = session[n][h].amount
               /\ s.expiration = session[n][h].expiration /\ s.asked = session[n][h].asked
  <2> DEFINE t == [session[n][h] EXCEPT !.stage = "done"]
  <2>1. session' = [session EXCEPT ![n][h] = t]
    BY <1>1 DEF takeCharge
  <2>2. /\ t.stage = "done" /\ t.user = session[n][h].user /\ t.amount = session[n][h].amount
        /\ t.expiration = session[n][h].expiration /\ t.asked = session[n][h].asked
    BY <1>0 DEF SessionOK, SessionRecord
  <2> HIDE DEF t
  <2> QED
    BY <2>1, <2>2
<1>3. SessionsGoOn
  BY <1>0, <1>2, OneSessionGoesOn
<1>4. /\ session'[n][h] = s
      /\ \A m \in Notaries, k \in Hash : m # n \/ k # h => session'[m][k] = session[m][k]
  BY <1>2, OthersGoOn
<1> DEFINE info == [db[n][h] EXCEPT !.NotaryIDInCharge = n]
<1>5. info.NotaryIDInCharge = n /\ info.Secret = db[n][h].Secret /\ Continues(h, db[n][h], info)
  <2>1. db[n][h] \in LockInfo /\ Requested(n, h)
    BY <1>0, <1>1, KnownIsTyped DEF RecordOK, Requested
  <2> QED
    BY <2>1 DEF LockInfo, Continues, Starter, EndOf, StartStatus, SideStatus, Due
<1>6. \A m \in Notaries : /\ DOMAIN db'[m] = DOMAIN db[m]
                          /\ \A k \in DOMAIN db[m] :
                               db'[m][k] = IF m = n /\ k = h THEN info ELSE db[m][k]
  BY <1>1, OneRecordGoesOn DEF takeCharge
<1> HIDE DEF info
<1>7. RecordsGoOn /\ \A m \in Notaries : \A k \in DOMAIN db[m] : db'[m][k].Secret = db[m][k].Secret
  BY <1>5, <1>6, SameContinues DEF RecordsGoOn
<1>8. InCharge'
  <2> SUFFICES ASSUME NEW m \in Notaries, NEW k \in Hash, session'[m][k].stage = "done"
               PROVE  db'[m][k].NotaryIDInCharge = m
    BY DEF InCharge
  <2>1. CASE m = n /\ k = h
    BY <1>1, <1>5, <1>6, <2>1 DEF Known
  <2>2. CASE ~(m = n /\ k = h)
    <3>1. session[m][k].stage = "done"
      BY <1>4, <2>2
    <3>2. k \in DOMAIN db[m]
      BY <3>1 DEF Promised, SessionsStand, Known, Requested
    <3> QED
      BY <1>6, <2>2, <3>1, <3>2 DEF Promised, InCharge
  <2> QED
    BY <2>1, <2>2
<1>9. OffChain /\ UNCHANGED <<saved, fresh, inbox, mempool>>
  BY <1>1 DEF takeCharge, OffChain
<1> QED
  BY <1>2, <1>3, <1>4, <1>7, <1>8, <1>9, SessionKeepsPromise

LEMMA NotaryKeepsPromise ==
    ASSUME Typed, Typed', TruthInv, OneAsked, Timed, Promised, Timely, AllUp', ~CallsFail,
           NEW n \in Notaries, NotaryStep(n)
    PROVE  Promised'
<1>0. UNCHANGED direction
  BY DEF NotaryStep
<1>1. ASSUME NEW c \in Chains, Poll(n, c) PROVE Promised'
  BY <1>0, <1>1, PollKeepsPromise
<1>2. ASSUME NEW h \in Hash, callSCPrepareLockin(n, h) \/ callMCPrepareLockout(n, h) \/ takeCharge(n, h)
      PROVE  Promised'
  BY <1>0, <1>2, CallKeepsPromise, ChargeKeepsPromise
  DEF callSCPrepareLockin, callMCPrepareLockout, Prepares
<1>3. ASSUME Inward, NEW m \in Notaries, NEW h \in Hash, checkPrepareLockin(n, m, h) PROVE Promised'
  <2> DEFINE info == LockinEndorsed(db[m][h], n, session[n][h].expiration)
             agrees == LockinSignable(m, h, session[n][h])
  <2>1. agrees => Known(m, h) /\ db[m][h] \in LockInfo /\ db[m][h].SCLockStatus = "None"
    BY <1>3, KnownIsTyped DEF LockinSignable, LockinRequested, RecordOK
  <2>2. agrees => /\ Known(m, h) /\ info.Secret = db[m][h].Secret
                  /\ Requested(n, h) => Continues(h, db[m][h], info)
    BY <1>3, <2>1
    DEF LockinEndorsed, LockInfo, Continues, Starter, EndOf, StartStatus, SideStatus, AskedFor
  <2>3. Answer(n, m, h, agrees, info)
    BY <1>3 DEF checkPrepareLockin
  <2> HIDE DEF info, agrees
  <2> QED
    BY <1>0, <2>2, <2>3, AnswerKeepsPromise
<1>4. ASSUME Outward, NEW m \in Notaries, NEW h \in Hash, checkPrepareLockout(n, m, h) PROVE Promised'
  <2> DEFINE info == LockoutEndorsed(db[m][h], n, session[n][h].expiration)
             agrees == LockoutSignable(m, h, session[n][h])
  <2>1. agrees => Known(m, h) /\ db[m][h] \in LockInfo /\ db[m][h].MCLockStatus = "None"
    BY <1>4, KnownIsTyped DEF LockoutSignable, LockoutRequested, RecordOK
  <2>2. agrees => /\ Known(m, h) /\ info.Secret = db[m][h].Secret
                  /\ Requested(n, h) => Continues(h, db[m][h], info)
    BY <1>4, <2>1
    DEF LockoutEndorsed, LockInfo, Continues, Starter, EndOf, StartStatus, SideStatus, AskedFor,
        Inward, Outward
  <2>3. Answer(n, m, h, agrees, info)
    BY <1>4 DEF checkPrepareLockout
  <2> HIDE DEF info, agrees
  <2> QED
    BY <1>0, <2>2, <2>3, AnswerKeepsPromise
<1>5. CASE Inward /\ LockinNotaryStep(n)
  <2>1. ASSUME NEW c \in Chains, NEW e \in inbox[n][c], HandleLockin(n, c, e) PROVE Promised'
    BY <1>0, <1>5, <2>1, LockinHandlerKeepsPromise
  <2>2. CASE LockinSessionStep(n)
    BY <1>2, <1>3, <1>5, <2>2 DEF LockinSessionStep, Hash
  <2> QED
    BY <1>1, <1>5, <2>1, <2>2 DEF LockinNotaryStep
<1>6. CASE Outward /\ LockoutNotaryStep(n)
  <2>1. ASSUME NEW c \in Chains, NEW e \in inbox[n][c], HandleLockout(n, c, e) PROVE Promised'
    BY <1>0, <1>6, <2>1, LockoutHandlerKeepsPromise
  <2>2. CASE LockoutSessionStep(n)
    BY <1>2, <1>4, <1>6, <2>2, HashVocabulary DEF LockoutSessionStep
  <2> QED
    BY <1>1, <1>6, <2>1, <2>2 DEF LockoutNotaryStep
<1> QED
  BY <1>5, <1>6 DEF NotaryStep

\* A reveal that a notary has been told of.
LEMMA RevealedIsOut ==
    ASSUME TruthInv, NEW h \in Hash, NEW e, Reveals(e, h),
           e \in Log(Second) \/ \E n \in Notaries : e \in inbox[n][Second]
    PROVE  h \in Outs
<1>1. \/ Inward /\ Second = "sc" /\ ClaimName = "Lockin" /\ RevealName = "LockinSecret"
      \/ ~Inward /\ Second = "mc" /\ RevealName = "LockoutSecret"
  BY DEF Second, RevealName, ClaimName
<1>2. CASE e \in Log(Second)
  BY <1>1, <1>2, HashVocabulary DEF Outs, Minted, Released, Log, Reveals
<1>3. CASE \E n \in Notaries : e \in inbox[n][Second]
  BY <1>1, <1>3, HashVocabulary
  DEF Outs, Minted, Released, Log, Reveals, TruthInv, MailIsGenuine, Genuine, Own, Chains
<1> QED
  BY <1>2, <1>3

\* A notary is asked for the side lock: nobody was before, so nothing is owed.
LEMMA RequestKeepsPromise ==
    ASSUME Typed, Typed', TruthInv, OneAsked', Timed, Promised, UNCHANGED direction,
           NEW n \in Notaries, NEW h \in Hash, NEW u, NEW a, Known(n, h),
           Starter(db[n][h]) = u, SideStatus(db[n][h]) = "None",
           OpenSession(n, h, u, a, Due(db[n][h]))
    PROVE  Promised'
<1>0. OffChain /\ UNCHANGED <<db, saved, fresh, inbox, mempool>>
  BY DEF OpenSession, OffChain
<1>1. /\ GoesOn /\ Outs' = Outs /\ Used' = Used /\ Unclaimed' = Unclaimed
      /\ Locks' = Locks /\ SideLocks' = SideLocks /\ First' = First /\ Second' = Second
      /\ Log(Second)' = Log(Second) /\ Newest(Second)' = Newest(Second)
      /\ Height(First)' = Height(First) /\ Height(Second)' = Height(Second)
      /\ UNCHANGED <<balances, totalSupply, held, scLockout, direction>>
      /\ Height(Second) \in Nat
  BY <1>0, OffChainLasts
<1>2. /\ ClaimName' = ClaimName /\ \A e, k : Reveals(e, k)' <=> Reveals(e, k)
      /\ \A info : Starter(info)' = Starter(info) /\ EndOf(info)' = EndOf(info)
  BY <1>1, SidesStay
<1>3. PICK new : /\ session' = [session EXCEPT ![n][h] = new] /\ session[n][h].stage = "idle"
                 /\ new.stage = "signing" /\ n \notin new.asked /\ new.user = Starter(db[n][h])
                 /\ new.expiration = Due(db[n][h]) /\ new.amount = Net(db[n][h].Amount)
  <2> DEFINE t == [stage |-> "signing", asked |-> Notaries \ {n}, agreed |-> {},
                   user |-> u, account |-> a, expiration |-> Due(db[n][h]),
                   amount |-> db[n][h].Amount - calculateCrossFee(db[n][h].Amount),
                   receipt |-> Idle.receipt]
  <2>1. session' = [session EXCEPT ![n][h] = t] /\ session[n][h].stage = "idle"
    BY DEF OpenSession
  <2>2. /\ t.stage = "signing" /\ n \notin t.asked /\ t.user = Starter(db[n][h])
        /\ t.expiration = Due(db[n][h]) /\ t.amount = Net(db[n][h].Amount)
    BY DEF Net
  <2> HIDE DEF t
  <2> QED
    BY <2>1, <2>2
<1>5. /\ session'[n][h] = new
      /\ \A m \in Notaries, k \in Hash : m # n \/ k # h => session'[m][k] = session[m][k]
  BY <1>3, OthersGoOn
<1>6. \A m \in Notaries, k \in Hash :
         /\ Requested(m, k) => Requested(m, k)' /\ session'[m][k] = session[m][k]
         /\ Requested(m, k)' => Requested(m, k) \/ (m = n /\ k = h)
  BY <1>3, <1>5 DEF Requested
<1>7. ~AskedFor(h) /\ h \notin Outs
  <2>1. Requested(n, h)' /\ ~Requested(n, h)
    BY <1>3, <1>5 DEF Requested
  <2>2. \A m \in Notaries : ~Requested(m, h)
    BY <1>6, <2>1 DEF OneAsked
  <2> QED
    BY <2>2 DEF AskedFor, Timed, SetOnce, Requested
<1>8. Lasting
  BY <1>1, <1>6 DEF Lasting
<1>9. RecordsStand'
  <2>1. RecordsGoOn
    BY <1>0, SameContinues DEF RecordsGoOn
  <2> QED
    BY <1>8, <2>1, RecordsStandOn DEF Promised
<1>10. SessionsStand'
  <2> SUFFICES ASSUME NEW m \in Notaries, NEW k \in Hash, Requested(m, k)'
               PROVE  /\ Known(m, k)' /\ m \notin session'[m][k].asked
                      /\ SessionStands(k, session[m][k], db[m][k])'
    BY DEF SessionsStand
  <2>1. /\ Known(m, k) /\ m \notin session'[m][k].asked
        /\ SessionStands(k, session'[m][k], db[m][k])
    <3>1. CASE Requested(m, k)
      BY <1>6, <3>1 DEF Promised, SessionsStand
    <3>2. CASE ~Requested(m, k)
      <4>1. m = n /\ k = h
        BY <1>6, <3>2
      <4>2. OnTime(h, Due(db[n][h]), EndOf(db[n][h]))
        BY <1>7 DEF Promised, RecordsStand, RecordStands, Known
      <4>3. SessionStands(h, new, db[n][h])
        BY <1>3, <4>2 DEF SessionStands, OnTime
      <4> QED
        BY <1>3, <1>5, <4>1, <4>3
    <3> QED
      BY <3>1, <3>2
  <2> QED
    BY <1>0, <1>1, <1>2, <2>1 DEF Known, SessionStands, OnTime, Net
<1>11. InCharge'
  BY <1>0, <1>3, <1>5 DEF Promised, InCharge
<1>12. InChargeFirst'
  <2> SUFFICES ASSUME NEW m \in Notaries, NEW k \in Hash, Requested(m, k)', NEW e, Reveals(e, k),
                      \/ e \in Log(Second) /\ e.block <= Newest(Second)
                      \/ e \in inbox[m][Second]
               PROVE  session'[m][k].stage = "done"
    BY <1>0, <1>1, <1>2 DEF InChargeFirst
  <2>1. k # h
    BY <1>7, RevealedIsOut
  <2>2. Requested(m, k) /\ session'[m][k] = session[m][k]
    BY <1>5, <1>6, <2>1
  <2> QED
    BY <2>2 DEF Promised, InChargeFirst
<1>13. PreparesAgree'
  <2>1. \A tx \in mempool \cap Prepared :
           tx.from \in Notaries /\ tx.hash \in Hash /\ session[tx.from][tx.hash].stage = "sent"
    BY DEF Prepared, Timed, SentOnce
  <2> QED
    BY <1>0, <1>3, <1>5, <2>1 DEF Promised, PreparesAgree
<1>14. SideLocksAgree'
  <2> SUFFICES ASSUME NEW b \in Users, SideLocks[b].value > 0
               PROVE  \E m \in Notaries : LET s == session'[m][SideLocks[b].SecretHash] IN
                         /\ s.stage \in {"mined", "done"}
                         /\ s.expiration = SideLocks[b].Expiration /\ s.amount = SideLocks[b].value
    BY <1>1 DEF SideLocksAgree
  <2>1. SideLocks[b].SecretHash \in Hash
    BY HashVocabulary DEF Typed, OnChain, LocksTyped, SideLocks, LockTerms, AllAccounts
  <2>2. PICK m \in Notaries : LET s == session[m][SideLocks[b].SecretHash] IN
                         /\ s.stage \in {"mined", "done"}
                         /\ s.expiration = SideLocks[b].Expiration /\ s.amount = SideLocks[b].value
    BY DEF Promised, SideLocksAgree
  <2>3. session'[m][SideLocks[b].SecretHash] = session[m][SideLocks[b].SecretHash]
    BY <1>6, <2>1, <2>2 DEF Requested
  <2> QED
    BY <2>2, <2>3
<1>15. ClaimsAgree'
  <2> SUFFICES ASSUME NEW tx \in mempool, tx.name = ClaimName
               PROVE  /\ Requested(tx.from, MC!Sha256(tx.secret))'
                      /\ session'[tx.from][MC!Sha256(tx.secret)].user = tx.account
    BY <1>0, <1>2 DEF ClaimsAgree
  <2>1. tx.from \in Notaries /\ MC!Sha256(tx.secret) \in Hash
    <3>1. tx \in Claims
      BY TxKinds DEF ClaimName
    <3> QED
      BY <3>1, HashVocabulary DEF Claims
  <2> QED
    BY <1>6, <2>1 DEF Promised, ClaimsAgree
<1>16. \A m \in Notaries, k \in Hash : Requested(m, k)' /\ k \in Unclaimed =>
          Requested(m, k) /\ session'[m][k] = session[m][k]
  BY <1>6, <1>7 DEF Unclaimed
<1>17. Owed'
  <2> SUFFICES ASSUME NEW m \in Notaries, NEW k \in Hash, Requested(m, k)', k \in Unclaimed
               PROVE  /\ Open(k, Locks[session[m][k].user])'
                      /\ Pending(m, k, Locks[session[m][k].user].Expiration)'
    BY <1>1 DEF Owed
  <2>1. Requested(m, k) /\ session'[m][k] = session[m][k]
    BY <1>16
  <2>2. /\ Open(k, Locks[session[m][k].user])
        /\ Pending(m, k, Locks[session[m][k].user].Expiration)
    BY <2>1 DEF Promised, Owed
  <2> QED
    BY <1>0, <1>1, <1>2, <2>1, <2>2 DEF Open, Pending, Sent, InMail, Unseen, Ahead
<1>18. Balanced'
  <2>1. Bound' = Bound
    BY <1>1, <1>6, <1>16 DEF Bound
  <2>2. Free' = Free /\ Claimable' = Claimable /\ InHands' = InHands
    BY <1>1, <2>1 DEF Free, Claimable, InHands
  <2> QED
    BY <1>1, <2>2, SidesStay DEF Promised, Balanced
<1>19. FreshAtZero' /\ UsedAreOut'
  BY <1>0, <1>1 DEF Promised, FreshAtZero, UsedAreOut
<1> QED
  BY <1>9, <1>10, <1>11, <1>12, <1>13, <1>14, <1>15, <1>17, <1>18, <1>19 DEF Promised

-----------------------------------------------------------------------------
(* The chains grow: no claim is on its way and no mail waits then, so who  *)
(* still has to learn of a secret gets to poll it before the lock expires. *)
\* With no hasty user, a notary has the receipt of its lock before a block with
\* the secret of the lock is complete.
LEMMA HastySession ==
    ASSUME Typed, OneAsked, Accounted, NoneHasty, Timely, KeptUp, Height(Second) \in Nat,
           NEW n \in Notaries, NEW h \in Hash,
           NEW e \in Log(Second), Reveals(e, h), e.block = Height(Second)
    PROVE  session[n][h].stage # "mined"
<1> SUFFICES ASSUME session[n][h].stage = "mined" PROVE FALSE
  OBVIOUS
<1>1. PICK p \in Log(Second) : /\ p.name = SetName /\ p.account = session[n][h].account
                               /\ p.block = session[n][h].receipt.block
  BY DEF Accounted, Receipts
<1>2. p.block \in Nat /\ p.block <= Height(Second) /\ ~(p.block <= Newest(Second))
  <2>1. p.block \in Nat
    BY DEF Typed, OnChain, LogsTyped, EventOK, Second, Chains
  <2>2. session[n][h].receipt.chain = Second /\ p.block <= Height(Second)
    BY <1>1 DEF Accounted, Receipts
  <2>3. ~Receipted(n, h)
    BY HashVocabulary DEF KeptUp, Timely
  <2> QED
    BY <1>1, <2>1, <2>2, <2>3 DEF Receipted
<1>3. p.block = e.block
  BY <1>2 DEF Newest
<1>4. p.account = e.account
  <2>1. PICK m \in Notaries : session[m][h].stage \in Mined /\ session[m][h].account = e.account
    BY DEF Accounted, LoggedReveals, SetFor
  <2>2. m = n
    BY <2>1 DEF OneAsked, Mined, Requested
  <2> QED
    BY <1>1, <2>1, <2>2
<1>5. SameBlock(Log(Second), SetName, RevealName, h)
  BY <1>1, <1>3, <1>4 DEF SameBlock, Reveals
<1> QED
  BY <1>5 DEF NoneHasty, HastyLockin, HastyLockout, Inward, Outward, Second, SetName, RevealName, Log, Typed

LEMMA GrowthKeepsPromise ==
    ASSUME Typed, Typed', TruthInv, OneAsked, Timed, Accounted, NoneHasty, Promised, Timely, AllUp,
           MCGrows \/ SCGrows
    PROVE  Promised'
<1>1. /\ UNCHANGED <<direction, mempool, nodeVars, mcLog, scLog, mcLockin, mcLockout, scLockin,
                     scLockout, balances, totalSupply, held>>
      /\ KeptUp
      /\ \/ mcBlock' = mcBlock + 1 /\ scBlock' = scBlock /\ mcBlock - scBlock < MaxSkew
         \/ scBlock' = scBlock + 1 /\ mcBlock' = mcBlock /\ scBlock - mcBlock < MaxSkew
  <2>1. Prompt
    BY DEF Timely
  <2>2. CASE MCGrows
    BY <2>1, <2>2 DEF MCGrows, MCNewBlock, MC!newBlock, scVars
  <2>3. CASE SCGrows
    <3>1. UNCHANGED <<direction, mempool, nodeVars, mcVars, scLog>> /\ KeptUp
          /\ scBlock - mcBlock < MaxSkew /\ SC!newBlock
      BY <2>1, <2>3 DEF SCGrows, SCNewBlock
    <3> QED
      BY <3>1 DEF SC!newBlock, SC!tokenVars, mcVars
  <2> QED
    BY <2>2, <2>3
<1>2. {mcBlock, scBlock, Height(First), Height(Second)} \subseteq Nat /\ MaxSkew \in Nat
  BY CrossChainNumbers DEF Typed, OnChain, ChainTyped, Height
<1>3. UNCHANGED <<Locks, SideLocks, UnusedLocks, Outs, First, Second, Used, ClaimName>>
  BY <1>1 DEF Locks, SideLocks, UnusedLocks, Outs, First, Second, Inward, Minted, Released, Used,
              Claimed, Destroyed, Logged, ClaimName
<1>4. /\ Unclaimed' = Unclaimed /\ Log(Second)' = Log(Second)
      /\ \A e, h : Reveals(e, h)' <=> Reveals(e, h)
  BY <1>1, <1>3, SidesStay DEF Unclaimed, Log
<1>5. \/ /\ Height(First)' = Height(First) + 1 /\ Height(Second)' = Height(Second)
         /\ Height(First) - Height(Second) < MaxSkew
      \/ Height(First)' = Height(First) /\ Height(Second)' = Height(Second) + 1
  BY <1>1, <1>3 DEF Height, First, Second
<1>6. /\ UNCHANGED <<session, db, saved, fresh, inbox, mempool>>
      /\ \A n \in Notaries, h \in Hash : Requested(n, h)' <=> Requested(n, h)
  BY <1>1 DEF nodeVars, Requested
<1>7. Lasting
  <2>1. GoesOn
    BY <1>1, <1>2, <1>3, ChainsGoOn DEF LocksKept, Timed
  <2> QED
    BY <1>2, <1>5, <1>6, <2>1 DEF Lasting
<1>8. RecordsStand' /\ SessionsStand'
  <2>1. RecordsGoOn /\ SessionsGoOn
    BY <1>6, SameContinues DEF RecordsGoOn, SessionsGoOn
  <2> QED
    BY <1>7, <2>1, RecordsStandOn, SessionsStandOn DEF Promised
<1>9. InChargeFirst'
  <2> SUFFICES ASSUME NEW n \in Notaries, NEW h \in Hash, Requested(n, h), NEW e, Reveals(e, h),
                      (e \in Log(Second) /\ e.block <= Newest(Second)') \/ e \in inbox[n][Second]
               PROVE  session[n][h].stage = "done"
    BY <1>3, <1>4, <1>6 DEF InChargeFirst
  <2>1. CASE e \in inbox[n][Second] \/ e.block <= Newest(Second)
    BY <2>1 DEF Promised, InChargeFirst
  <2>2. CASE e \in Log(Second) /\ e.block <= Newest(Second)' /\ ~(e.block <= Newest(Second))
    <3>1. h \in Outs
      BY <2>2, RevealedIsOut
    <3>2. PICK m \in Notaries : session[m][h].stage \in {"mined", "done"}
      BY <3>1 DEF Timed, SetOnce
    <3>3. m = n
      BY <3>2 DEF OneAsked, Requested
    <3>4. e.block = Height(Second)
      <4>1. e.block \in Nat
        BY <2>2 DEF Typed, OnChain, LogsTyped, EventOK, Second, Chains
      <4>2. Newest(Second) = Height(Second) - 1 /\ Newest(Second)' <= Height(Second)
        BY <1>2, <1>3, <1>5 DEF Newest
      <4> QED
        <5>1. \A b \in Nat, k \in Nat, x \in Int, y \in Int : b <= x /\ ~(b <= y) /\ y = k - 1 /\ x <= k => b = k
          OBVIOUS
        <5>2. Newest(Second)' \in Int /\ Newest(Second) \in Int
          BY <1>2, <1>3, <1>5 DEF Newest
        <5> QED
          BY <1>2, <2>2, <4>1, <4>2, <5>1, <5>2
    <3>5. session[n][h].stage # "mined"
      BY <1>1, <1>2, <2>2, <3>4, HastySession
    <3> QED
      BY <3>2, <3>3, <3>5
  <2> QED
    BY <2>1, <2>2
<1>10. /\ FreshAtZero' /\ InCharge' /\ PreparesAgree' /\ SideLocksAgree' /\ ClaimsAgree'
       /\ UsedAreOut'
  <2>1. FreshAtZero' /\ InCharge' /\ UsedAreOut'
    BY <1>3, <1>6 DEF Promised, FreshAtZero, InCharge, UsedAreOut
  <2>2. PreparesAgree' /\ SideLocksAgree'
    BY <1>3, <1>6 DEF Promised, PreparesAgree, SideLocksAgree
  <2>3. ClaimsAgree'
    BY <1>3, <1>6 DEF Promised, ClaimsAgree, Requested
  <2> QED
    BY <2>1, <2>2, <2>3
<1>11. Owed'
  <2> SUFFICES ASSUME NEW n \in Notaries, NEW h \in Hash, Requested(n, h), h \in Unclaimed
               PROVE  /\ Open(h, Locks[session[n][h].user])'
                      /\ Pending(n, h, Locks[session[n][h].user].Expiration)'
    BY <1>4, <1>6 DEF Owed
  <2>1. PICK lock : lock = Locks[session[n][h].user]
    OBVIOUS
  <2>2. Open(h, lock) /\ Pending(n, h, lock.Expiration)
    BY <2>1 DEF Promised, Owed
  <2>3. lock.Expiration \in Nat
    <3>1. session[n][h].user \in Users
      <4>1. Known(n, h) /\ session[n][h].user = Starter(db[n][h])
        BY DEF Promised, SessionsStand, SessionStands
      <4> QED
        BY <4>1, KnownIsTyped DEF RecordOK, Starter, Inward, Outward, Typed
    <3> QED
      BY <2>1, <3>1, HashVocabulary DEF Typed, OnChain, LocksTyped, Locks, AllAccounts
  <2>4. /\ saved[n][Second] >= Newest(Second) /\ inbox[n][Second] = {} /\ ~Sent(h)
    <3>1. Second \in Chains /\ ClaimName \notin Prepares
      BY DEF Second, Chains, ClaimName, Prepares
    <3> QED
      BY <1>1, <3>1 DEF KeptUp, Timely, AllUp, Sent
  <2>5. PICK e \in Log(Second) : /\ Reveals(e, h) /\ Ahead(n, e) /\ e.block <= Height(Second)
                                 /\ Height(Second) + MaxSkew < lock.Expiration
    <3>1. db[n][h].Secret = NoSecret /\ Unseen(n, h, lock.Expiration)
      BY <2>2, <2>4 DEF Pending, InMail
    <3>2. ~(saved[n][Second] < Newest(Second))
      BY <2>4, <1>2 DEF Newest, Typed, InNotaries, PollingTyped, Second, Chains
    <3> QED
      BY <3>1, <3>2 DEF Unseen
  <2>6. Open(h, lock)'
    BY <1>2, <1>5, <2>2, <2>3, <2>5 DEF Open
  <2>7. Unseen(n, h, lock.Expiration)'
    <3>1. Ahead(n, e)' /\ Reveals(e, h)' /\ e \in Log(Second)'
      BY <1>3, <1>4, <1>6, <2>5 DEF Ahead
    <3>2. CASE Height(Second)' = Height(Second)
      BY <2>5, <3>1, <3>2 DEF Unseen
    <3>3. CASE Height(Second)' = Height(Second) + 1
      <4>1. /\ saved[n][Second] \in Nat
            /\ saved[n][Second] = 0 \/ saved[n][Second] <= Newest(Second)
            /\ Newest(Second) = Height(Second) - 1
        BY DEF Timed, AllFollow, Following, Second, Chains, Newest, Typed, InNotaries, PollingTyped
      <4>2. Newest(Second)' = Height(Second) /\ saved'[n][Second'] = saved[n][Second]
        BY <1>2, <1>3, <1>6, <3>3 DEF Newest
      <4>3. saved[n][Second] < Height(Second) \/ Height(Second) = 0
        BY <1>2, <4>1
      <4>4. Height(Second) = 0 => Height(Second)' + MaxSkew < lock.Expiration
        BY <1>2, <2>2, <2>3, <3>3 DEF Open
      <4>5. e.block \in Nat
        BY <2>5 DEF Typed, OnChain, LogsTyped, EventOK, Second, Chains
      <4>6. e.block <= Height(Second)' /\ e.block <= Newest(Second)'
        BY <1>2, <2>5, <3>3, <4>2, <4>5
      <4> QED
        BY <3>1, <4>2, <4>3, <4>4, <4>6 DEF Unseen
    <3> QED
      BY <1>5, <3>2, <3>3
  <2>8. db[n][h].Secret = NoSecret
    BY <2>2, <2>4 DEF Pending
  <2>9. lock = Locks'[session'[n][h].user]
    BY <1>3, <1>6, <2>1
  <2>10. Pending(n, h, lock.Expiration)'
    BY <1>6, <2>7, <2>8 DEF Pending
  <2> QED
    BY <2>6, <2>9, <2>10 DEF Open, Pending, Unseen
<1>12. Balanced'
  <2>1. Bound' = Bound
    BY <1>4, <1>6 DEF Bound
  <2>2. Free' = Free /\ Claimable' = Claimable /\ InHands' = InHands
    BY <1>1, <1>3, <2>1 DEF Free, Claimable, InHands
  <2> QED
    BY <1>1, <2>2, SidesStay DEF Promised, Balanced
<1> QED
  BY <1>8, <1>9, <1>10, <1>11, <1>12 DEF Promised

-----------------------------------------------------------------------------
(* Transactions.                                                           *)
LEMMA SameHeights ==
    ASSUME Typed, OnAChain
    PROVE  /\ Height(First)' = Height(First) /\ Height(Second)' = Height(Second)
           /\ Newest(Second)' = Newest(Second) /\ First' = First /\ Second' = Second
           /\ Height(First) \in Nat /\ Height(Second) \in Nat /\ Newest(Second) = Height(Second) - 1
           /\ Second \in Chains /\ First \in Chains /\ Log(Second) \subseteq Log(Second)'
           /\ ClaimName' = ClaimName /\ RevealName' = RevealName
           /\ \A e, h : Reveals(e, h)' <=> Reveals(e, h)
<1>1. /\ First' = First /\ Second' = Second /\ ClaimName' = ClaimName /\ RevealName' = RevealName
      /\ \A e, h : Reveals(e, h)' <=> Reveals(e, h)
  BY SidesStay DEF OnAChain
<1>2. /\ Height(First)' = Height(First) /\ Height(Second)' = Height(Second)
      /\ Newest(Second)' = Newest(Second) /\ Log(Second) \subseteq Log(Second)'
  BY <1>1 DEF OnAChain, Height, Newest, Log
<1>3. /\ Height(First) \in Nat /\ Height(Second) \in Nat /\ Newest(Second) = Height(Second) - 1
      /\ Second \in Chains /\ First \in Chains
  BY DEF Typed, OnChain, ChainTyped, Height, Newest, First, Second, Chains
<1> QED
  BY <1>1, <1>2, <1>3

\* What a transaction leaves alone, and what is left to show of it.
LEMMA TransactionKeepsPromise ==
    ASSUME Typed, Typed', Timed, Promised, OnAChain, GoesOn, SessionsGoOn,
           \A n \in Notaries, h \in Hash : session'[n][h].stage = "done" => session[n][h].stage = "done",
           \A e \in Log(Second)' \ Log(Second) : e.name = RevealName => e.block = Height(Second),
           SideLocksAgree', UsedAreOut', Owed', Balanced'
    PROVE  Promised'
<1>1. /\ Height(Second)' = Height(Second) /\ Newest(Second)' = Newest(Second)
      /\ Second' = Second /\ Height(Second) \in Nat /\ Newest(Second) = Height(Second) - 1
      /\ ClaimName' = ClaimName /\ \A e, h : Reveals(e, h)' <=> Reveals(e, h)
  BY SameHeights
<1>2. UNCHANGED <<db, saved, fresh, inbox>> /\ mempool' \subseteq mempool
  BY DEF OnAChain
<1>3. RecordsStand' /\ SessionsStand'
  <2>1. Lasting
    BY <1>1 DEF Lasting, SessionsGoOn
  <2>2. RecordsGoOn
    BY <1>2, SameContinues DEF RecordsGoOn
  <2> QED
    BY <2>1, <2>2, RecordsStandOn, SessionsStandOn DEF Promised
<1>4. FreshAtZero' /\ InCharge'
  BY <1>2 DEF Promised, FreshAtZero, InCharge
<1>5. InChargeFirst'
  <2> SUFFICES ASSUME NEW n \in Notaries, NEW h \in Hash, Requested(n, h)', NEW e, Reveals(e, h),
                      \/ e \in Log(Second)' /\ e.block <= Newest(Second)
                      \/ e \in inbox[n][Second]
               PROVE  session'[n][h].stage = "done"
    BY <1>1, <1>2 DEF InChargeFirst
  <2>1. (e \in Log(Second) /\ e.block <= Newest(Second)) \/ e \in inbox[n][Second]
    BY <1>1 DEF Reveals
  <2>2. session[n][h].stage = "done"
    BY <2>1 DEF Promised, InChargeFirst, SessionsGoOn
  <2> QED
    BY <2>2 DEF SessionsGoOn
<1>6. PreparesAgree'
  <2>1. \A tx \in mempool' \cap Prepared : tx \in mempool \cap Prepared /\ tx.from \in Notaries /\ tx.hash \in Hash
    BY <1>2 DEF Prepared
  <2> QED
    BY <2>1 DEF Promised, PreparesAgree, SessionsGoOn
<1>7. ClaimsAgree'
  <2> SUFFICES ASSUME NEW tx \in mempool', tx.name = ClaimName
               PROVE  /\ Requested(tx.from, MC!Sha256(tx.secret))'
                      /\ session'[tx.from][MC!Sha256(tx.secret)].user = tx.account
    BY <1>1 DEF ClaimsAgree
  <2>0. tx \in mempool
    BY <1>2
  <2>1. tx.from \in Notaries /\ MC!Sha256(tx.secret) \in Hash
    <3>1. tx \in Claims
      BY <2>0, TxKinds DEF ClaimName
    <3> QED
      BY <3>1, HashVocabulary DEF Claims
  <2> QED
    BY <2>0, <2>1 DEF Promised, ClaimsAgree, SessionsGoOn
<1> QED
  BY <1>3, <1>4, <1>5, <1>6, <1>7 DEF Promised

LEMMA SessionUserTyped ==
    ASSUME Typed, Promised, NEW n \in Notaries, NEW h \in Hash, Requested(n, h)
    PROVE  /\ session[n][h].user \in Users /\ Known(n, h) /\ db[n][h] \in LockInfo
           /\ Locks[session[n][h].user] \in LockTerms
           /\ Locks[session[n][h].user].Expiration \in Nat
<1>1. Known(n, h) /\ session[n][h].user = Starter(db[n][h])
  BY DEF Promised, SessionsStand, SessionStands
<1>2. session[n][h].user \in Users /\ db[n][h] \in LockInfo
  BY <1>1, KnownIsTyped DEF RecordOK, Starter, Inward, Outward, Typed
<1> QED
  BY <1>1, <1>2, HashVocabulary DEF Typed, OnChain, LocksTyped, Locks, AllAccounts

\* What is owed stays owed while the lock and the claim are left alone.
LEMMA OwedLasts ==
    ASSUME Typed, Promised, OnAChain, SessionsGoOn,
           NEW n \in Notaries, NEW h \in Hash, Requested(n, h), h \in Unclaimed,
           Locks'[session[n][h].user] = Locks[session[n][h].user],
           \A tx \in mempool \ mempool' : tx.name = ClaimName => MC!Sha256(tx.secret) # h
    PROVE  /\ Open(h, Locks[session[n][h].user])'
           /\ Pending(n, h, Locks[session[n][h].user].Expiration)'
<1>1. /\ Height(First)' = Height(First) /\ Height(Second)' = Height(Second)
      /\ Newest(Second)' = Newest(Second) /\ Second' = Second
      /\ Log(Second) \subseteq Log(Second)'
      /\ ClaimName' = ClaimName /\ \A e : Reveals(e, h)' <=> Reveals(e, h)
  BY SameHeights
<1>2. UNCHANGED <<db, saved, fresh, inbox>>
  BY DEF OnAChain
<1>3. PICK lock : lock = Locks[session[n][h].user]
  OBVIOUS
<1>4. Open(h, lock) /\ Pending(n, h, lock.Expiration)
  BY <1>3 DEF Promised, Owed
<1>5. lock = Locks'[session'[n][h].user]
  BY <1>3 DEF SessionsGoOn
<1>6. Open(h, lock)'
  BY <1>1, <1>4 DEF Open
<1>7. Sent(h) => Sent(h)'
  BY <1>1 DEF Sent
<1>8. InMail(n, h) => InMail(n, h)'
  BY <1>1, <1>2 DEF InMail
<1>9. Unseen(n, h, lock.Expiration) => Unseen(n, h, lock.Expiration)'
  BY <1>1, <1>2 DEF Unseen, Ahead
<1>10. Pending(n, h, lock.Expiration)'
  BY <1>2, <1>4, <1>7, <1>8, <1>9 DEF Pending
<1> QED
  BY <1>5, <1>6, <1>10 DEF Open, Pending, Unseen

-----------------------------------------------------------------------------
(* Sums of what users have.                                                *)
Adding(fun, x, sum) == fun[x] + sum
IsNatural(fun, sum) == sum \in Nat
F == INSTANCE Folds_proofs WITH Op <- Adding, Good <- IsNatural

LEMMA FiniteAndAdding ==
    /\ \A S : IsFiniteSet(S) <=> F!IsFiniteSet(S)
    /\ F!Adds
BY DEF IsFiniteSet, F!IsFiniteSet, F!Adds, Adding

LEMMA SumIsTotal ==
    ASSUME NEW fun \in [Users -> Nat]
    PROVE  SumFunction(fun) = F!Total(fun, Users) /\ F!Natural(fun, Users)
BY DEF SumFunction, SumFunctionOnSet, FoldFunctionOnSet, MapThenFoldSet,
       F!Total, F!Natural, F!Fold, F!Defines, F!First, Adding

\* Nobody but u has more than before.
LEMMA SumsOverUsers ==
    ASSUME NEW f \in [Users -> Nat], NEW g \in [Users -> Nat], NEW u \in Users,
           \A a \in Users \ {u} : g[a] <= f[a]
    PROVE  /\ SumFunction(f) \in Nat /\ SumFunction(g) \in Nat /\ f[u] <= SumFunction(f)
           /\ SumFunction(g) <= SumFunction(f) - f[u] + g[u]
BY EtherCanBeCounted, FiniteAndAdding, SumIsTotal, F!TotalsDiffer

ValuesTyped == /\ {Free, Claimable, InHands} \subseteq [Users -> Nat]
               /\ {held, totalSupply} \subseteq Nat

LEMMA ValuesAreNatural == Typed => ValuesTyped
<1> SUFFICES ASSUME Typed PROVE ValuesTyped
  OBVIOUS
<1>1. \A a \in Users : /\ Locks[a].value \in Nat /\ scLockout[a].value \in Nat /\ balances[a] \in Nat
  <2>1. \A a \in Users : Locks[a] \in LockTerms /\ scLockout[a] \in LockTerms /\ balances[a] \in Uint
    BY DEF Typed, OnChain, LocksTyped, TokenTyped, Locks, AllAccounts
  <2>2. Uint \subseteq Nat
    BY DEF Uint
  <2> QED
    BY <2>1, <2>2, HashVocabulary
<1>2. Free \in [Users -> Nat] /\ Claimable \in [Users -> Nat] /\ InHands \in [Users -> Nat]
  BY <1>1 DEF Free, Claimable, InHands
<1> QED
  BY <1>2 DEF ValuesTyped, Typed, OnChain, ChainTyped, TokenTyped, Uint

\* Only u's part changes for the worse.
LEMMA BalancedLasts ==
    ASSUME Typed, Typed', Promised, UNCHANGED direction, NEW u \in Users,
           Inward => \A a \in Users \ {u} : Free'[a] <= Free[a],
           Outward => \A a \in Users \ {u} : Claimable[a] <= Claimable'[a] /\ InHands'[a] <= InHands[a],
           Inward => totalSupply' - totalSupply + Free'[u] - Free[u] <= held' - held,
           Outward => totalSupply' - totalSupply <= held' - held + Claimable'[u] - Claimable[u],
           Outward => InHands'[u] - InHands[u] <= totalSupply' - totalSupply
    PROVE  Balanced'
<1>1. /\ {Free, Free', Claimable, Claimable', InHands, InHands'} \subseteq [Users -> Nat]
      /\ {held, held', totalSupply, totalSupply'} \subseteq Nat
  <2>1. ValuesTyped
    BY ValuesAreNatural
  <2>2. Typed' => ValuesTyped'
    BY ValuesAreNatural, PTL
  <2> QED
    BY <2>1, <2>2 DEF ValuesTyped
<1>2. Inward' = Inward /\ Outward' = Outward
  BY DEF Inward, Outward
<1>3. ASSUME Inward PROVE totalSupply' - 1 + SumFunction(Free') <= held'
  <2>1. PICK f \in [Users -> Nat], g \in [Users -> Nat] : f = Free /\ g = Free'
    BY <1>1
  <2>2. /\ SumFunction(f) \in Nat /\ SumFunction(g) \in Nat
        /\ SumFunction(g) <= SumFunction(f) - f[u] + g[u]
    BY <1>3, <2>1, SumsOverUsers
  <2>3. totalSupply - 1 + SumFunction(f) <= held /\ {f[u], g[u]} \subseteq Nat
    BY <1>3, <2>1 DEF Promised, Balanced
  <2> QED
    BY <1>1, <1>3, <2>1, <2>2, <2>3
<1>4. ASSUME Outward
      PROVE  totalSupply' - 1 <= held' + SumFunction(Claimable') /\ 1 + SumFunction(InHands') <= totalSupply'
  <2>1. PICK f \in [Users -> Nat], g \in [Users -> Nat] : f = Claimable /\ g = Claimable'
    BY <1>1
  <2>2. PICK i \in [Users -> Nat], j \in [Users -> Nat] : i = InHands /\ j = InHands'
    BY <1>1
  <2>3. /\ SumFunction(f) \in Nat /\ SumFunction(g) \in Nat
        /\ SumFunction(f) <= SumFunction(g) - g[u] + f[u]
    BY <1>4, <2>1, SumsOverUsers
  <2>4. /\ SumFunction(i) \in Nat /\ SumFunction(j) \in Nat
        /\ SumFunction(j) <= SumFunction(i) - i[u] + j[u]
    BY <1>4, <2>2, SumsOverUsers
  <2>5. /\ totalSupply - 1 <= held + SumFunction(f) /\ 1 + SumFunction(i) <= totalSupply
        /\ {f[u], g[u], i[u], j[u]} \subseteq Nat
    BY <1>4, <2>1, <2>2 DEF Promised, Balanced
  <2>6. totalSupply' - 1 <= held' + SumFunction(g)
    BY <1>1, <1>4, <2>1, <2>3, <2>5
  <2>7. 1 + SumFunction(j) <= totalSupply'
    BY <1>1, <1>4, <2>2, <2>4, <2>5
  <2> QED
    BY <2>1, <2>2, <2>6, <2>7
<1> QED
  BY <1>2, <1>3, <1>4 DEF Balanced

-----------------------------------------------------------------------------
(* A transaction that changes no lock of the notaries: nobody gets to owe  *)
(* anything, and whoever goes on owing keeps the lock and the claim.       *)
LEMMA FirstChainKeepsPromise ==
    ASSUME Typed, Typed', Timed, Promised, OnAChain, LocksKept, UNCHANGED <<session, SideLocks>>,
           Log(Second)' = Log(Second), Outs' = Outs, Used \subseteq Used', Used' \subseteq Outs,
           NEW u \in Users, \A a \in Users \ {u} : Locks'[a] = Locks[a],
           \A n \in Notaries, h \in Hash : Requested(n, h) /\ h \in Outs \ Used' => session[n][h].user # u,
           \A tx \in mempool \ mempool' : tx.name = ClaimName => MC!Sha256(tx.secret) \notin Outs \ Used',
           Balanced'
    PROVE  Promised'
<1>1. GoesOn
  BY ChainsGoOn DEF OnAChain, Timed, Typed, OnChain, ChainTyped
<1>2. SessionsGoOn
  BY DEF SessionsGoOn, Requested
<1>3. SideLocksAgree'
  <2>1. session' = session /\ SideLocks' = SideLocks
    OBVIOUS
  <2> QED
    BY <2>1 DEF Promised, SideLocksAgree
<1>4. UsedAreOut'
  BY DEF UsedAreOut
<1>5. Owed'
  <2> SUFFICES ASSUME NEW n \in Notaries, NEW h \in Hash, Requested(n, h), h \in Outs \ Used'
               PROVE  /\ Open(h, Locks[session[n][h].user])'
                      /\ Pending(n, h, Locks[session[n][h].user].Expiration)'
    BY DEF Owed, Unclaimed, Requested
  <2>1. h \in Unclaimed
    BY DEF Unclaimed
  <2>2. Locks'[session[n][h].user] = Locks[session[n][h].user]
    BY SessionUserTyped
  <2> QED
    BY <1>2, <2>1, <2>2, OwedLasts
<1> QED
  BY <1>1, <1>2, <1>3, <1>4, <1>5, TransactionKeepsPromise

\* A transaction that changes neither the locks of users nor what they have.
LEMMA SecondChainKeepsPromise ==
    ASSUME Typed, Typed', Timed, Promised, OnAChain, SessionsGoOn,
           UNCHANGED <<Locks, Used, held, totalSupply, balances, scLockout>>, Outs' = Outs,
           \A n \in Notaries, h \in Hash : session'[n][h].stage = "done" => session[n][h].stage = "done",
           \A e \in Log(Second)' \ Log(Second) : e.name # RevealName,
           \A tx \in mempool \ mempool' : tx.name = ClaimName => MC!Sha256(tx.secret) \notin Unclaimed,
           SideLocksAgree'
    PROVE  Promised'
<1>1. GoesOn
  BY LocksLast
<1>2. Unclaimed' = Unclaimed /\ UsedAreOut'
  BY DEF Unclaimed, UsedAreOut, Promised
<1>3. Owed'
  <2> SUFFICES ASSUME NEW n \in Notaries, NEW h \in Hash, Requested(n, h), h \in Unclaimed
               PROVE  /\ Open(h, Locks[session[n][h].user])'
                      /\ Pending(n, h, Locks[session[n][h].user].Expiration)'
    BY <1>2 DEF Owed, SessionsGoOn
  <2>1. Locks'[session[n][h].user] = Locks[session[n][h].user]
    OBVIOUS
  <2> QED
    BY <2>1, OwedLasts
<1>4. Balanced'
  <2>1. Bound' = Bound
    BY <1>2 DEF Bound, SessionsGoOn
  <2>2. Free' = Free /\ Claimable' = Claimable /\ InHands' = InHands
    BY <2>1 DEF Free, Claimable, InHands
  <2> QED
    BY <2>2, SidesStay DEF Promised, Balanced, OnAChain
<1> QED
  BY <1>1, <1>2, <1>3, <1>4, TransactionKeepsPromise

\* Side locks that were there agree with their sessions as before.
LEMMA SideLocksAgreeOn ==
    ASSUME Typed, Promised, SessionsGoOn,
           \A n \in Notaries, h \in Hash :
              session[n][h].stage \in {"mined", "done"} => session'[n][h].stage \in {"mined", "done"},
           NEW u, \A a \in Users \ {u} : SideLocks'[a] = SideLocks[a],
           u \in Users => \/ SideLocks'[u] \in {SideLocks[u], MC!Unlocked}
                          \/ \E n \in Notaries : LET s == session'[n][SideLocks'[u].SecretHash] IN
                                /\ s.stage \in {"mined", "done"}
                                /\ s.expiration = SideLocks'[u].Expiration
                                /\ s.amount = SideLocks'[u].value
    PROVE  SideLocksAgree'
<1>1. ~(MC!Unlocked.value > 0)
  BY HashVocabulary
<1>2. ASSUME NEW a \in Users, SideLocks[a].value > 0
      PROVE  \E n \in Notaries : LET s == session'[n][SideLocks[a].SecretHash] IN
                /\ s.stage \in {"mined", "done"}
                /\ s.expiration = SideLocks[a].Expiration /\ s.amount = SideLocks[a].value
  <2>1. SideLocks[a].SecretHash \in Hash
    BY <1>2, HashVocabulary DEF Typed, OnChain, LocksTyped, SideLocks, LockTerms, AllAccounts
  <2> QED
    BY <1>2, <2>1 DEF Promised, SideLocksAgree, SessionsGoOn
<1> QED
  BY <1>1, <1>2 DEF SideLocksAgree

-----------------------------------------------------------------------------
(* A side lock is opened.  It was open, so by the time it has to end the   *)
(* lock of the user stands, has time left, and nobody could claim it yet.  *)
LEMMA TakenOffIsLess ==
    ASSUME NEW x \in Uint
    PROVE  x - calculateCrossFee(x) <= x
<1>1. \A y \in Nat, r \in Nat \ {0} : y \div r \in 0 .. y
  OBVIOUS
<1> QED
  BY <1>1, CrossChainNumbers DEF Uint, calculateCrossFee

LEMMA AliveIsCovered ==
    ASSUME Typed, Timed, Promised, Timely, NEW u \in Users,
           SideLocks[u].value > 0, SideLocks[u].Expiration > Height(Second)
    PROVE  LET k == SideLocks[u].SecretHash IN
           /\ k \in Hash /\ k \notin Outs
           /\ \E n \in Notaries :
                 LET w == session[n][k].user IN
                 /\ Requested(n, k) /\ db[n][k].Secret = NoSecret /\ w \in Users \ Bound
                 /\ Open(k, Locks[w]) /\ Height(Second) + MaxSkew < Locks[w].Expiration
                 /\ SideLocks[u].value <= Locks[w].value
<1>1. PICK k : k = SideLocks[u].SecretHash
  OBVIOUS
<1>2. k \in Hash /\ SideLocks[u].Expiration \in Nat
  BY <1>1, HashVocabulary DEF Typed, OnChain, LocksTyped, SideLocks, LockTerms, AllAccounts
<1>3. k \notin Outs
  BY <1>1 DEF Timed, SetOnce
<1>4. PICK n \in Notaries : /\ session[n][k].stage \in {"mined", "done"}
                            /\ session[n][k].expiration = SideLocks[u].Expiration
                            /\ session[n][k].amount = SideLocks[u].value
  BY <1>1 DEF Promised, SideLocksAgree
<1>5. Requested(n, k)
  BY <1>4 DEF Requested
<1>6. PICK w, info : w = session[n][k].user /\ info = db[n][k]
  OBVIOUS
<1>7. /\ w \in Users /\ info \in LockInfo /\ info.Amount \in Uint /\ EndOf(info) \in Nat
      /\ Locks[w] \in LockTerms /\ Known(n, k)
  <2>1. w \in Users /\ info \in LockInfo /\ Locks[w] \in LockTerms /\ Known(n, k)
    BY <1>2, <1>5, <1>6, SessionUserTyped
  <2>2. info.Amount \in Uint
    BY <1>6, <2>1, KnownIsTyped DEF RecordOK, Typed
  <2> QED
    BY <2>1, <2>2 DEF EndOf, LockInfo
<1>8. /\ w = Starter(info) /\ SideLocks[u].value = Net(info.Amount)
      /\ OnTime(k, SideLocks[u].Expiration, EndOf(info))
  BY <1>2, <1>4, <1>5, <1>6 DEF Promised, SessionsStand, SessionStands
<1>9. /\ Height(First) \in Nat /\ Height(Second) \in Nat /\ MaxSkew \in Nat /\ MinExpiration \in Nat
      /\ Height(First) - Height(Second) <= MaxSkew
  BY CrossChainNumbers
  DEF Typed, OnChain, ChainTyped, Height, First, Second, Timed, Apart
<1>10. SideLocks[u].Expiration + MaxSkew <= EndOf(info) /\ MinExpiration < EndOf(info)
  BY <1>2, <1>3, <1>8, <1>9 DEF OnTime
<1>11. /\ Height(First) < EndOf(info) /\ Height(Second) + MaxSkew < EndOf(info)
       /\ 1 + MaxSkew < EndOf(info)
  BY <1>2, <1>7, <1>9, <1>10 DEF Timely
<1>12. LockOf(k, info) \in Standing[w] /\ info.Secret = NoSecret
  BY <1>2, <1>3, <1>6, <1>7, <1>8 DEF Promised, RecordsStand, RecordStands, Known
<1>13. Locks[w] = LockOf(k, info) /\ LockOf(k, info).value > 0
  BY <1>3, <1>7, <1>9, <1>11, <1>12 DEF Standing, LockOf
<1>14. Locks[w].SecretHash = k /\ Locks[w].Expiration = EndOf(info) /\ Locks[w].value = info.Amount
  BY <1>13 DEF LockOf
<1>15. w \notin Bound
  BY <1>3, <1>14 DEF Bound, Promised, Owed, Open, Unclaimed
<1>16. Open(k, Locks[w]) /\ Height(Second) + MaxSkew < Locks[w].Expiration
  BY <1>11, <1>13, <1>14 DEF Open
<1>17. SideLocks[u].value <= Locks[w].value
  BY <1>7, <1>8, <1>14, FeeIsTakenOff, TakenOffIsLess DEF Net
<1> QED
  BY <1>1, <1>2, <1>3, <1>5, <1>6, <1>7, <1>12, <1>15, <1>16, <1>17

LEMMA SideLockOpensKeepsPromise ==
    ASSUME Typed, Typed', Timed, Promised, OneAsked, Timely, OnAChain,
           UNCHANGED <<session, Locks, Used, mempool>>,
           NEW u \in Users, SideLocks[u].value > 0, SideLocks[u].Expiration > Height(Second),
           Outs' = Outs \cup {SideLocks[u].SecretHash},
           \A a \in Users : SideLocks'[a] = IF a = u THEN MC!Unlocked ELSE SideLocks[a],
           NEW e, Log(Second)' = Log(Second) \cup {e},
           Reveals(e, SideLocks[u].SecretHash), e.block = Height(Second),
           Inward => held' = held /\ totalSupply' <= totalSupply + SideLocks[u].value,
           Outward => /\ held' = held - SideLocks[u].value
                      /\ UNCHANGED <<totalSupply, balances, scLockout>>
    PROVE  Promised'
<1>1. PICK k : k = SideLocks[u].SecretHash /\ k \in Hash /\ k \notin Outs
  BY AliveIsCovered
<1>2. PICK n \in Notaries, w \in Users :
         /\ w = session[n][k].user /\ w \notin Bound /\ Requested(n, k) /\ db[n][k].Secret = NoSecret
         /\ Open(k, Locks[w]) /\ Height(Second) + MaxSkew < Locks[w].Expiration
         /\ SideLocks[u].value <= Locks[w].value
  BY <1>1, AliveIsCovered
<1>3. /\ Height(First)' = Height(First) /\ Height(Second)' = Height(Second)
      /\ Newest(Second)' = Newest(Second) /\ Second' = Second /\ Second \in Chains
      /\ Height(Second) \in Nat /\ Newest(Second) = Height(Second) - 1
      /\ ClaimName' = ClaimName /\ \A f, h : Reveals(f, h)' <=> Reveals(f, h)
  BY SameHeights
<1>4. UNCHANGED <<direction, db, saved, fresh, inbox>>
  BY DEF OnAChain
<1>5. /\ SessionsGoOn /\ GoesOn
      /\ \A m \in Notaries, h \in Hash : Requested(m, h)' <=> Requested(m, h)
  BY LocksLast DEF SessionsGoOn, Requested
<1>6. Unclaimed' = Unclaimed \cup {k} /\ UsedAreOut'
  BY <1>1 DEF Unclaimed, Promised, UsedAreOut
<1>7. SideLocksAgree'
  BY <1>5, SideLocksAgreeOn
<1>8. \A m \in Notaries : Requested(m, k) => m = n
  BY <1>1, <1>2 DEF OneAsked
<1>9. Unseen(n, k, Locks[w].Expiration)'
  <2>1. Ahead(n, e)
    <3>1. /\ saved[n][Second] \in Nat
          /\ saved[n][Second] = 0 \/ saved[n][Second] <= Newest(Second)
          /\ saved[n][Second] = 0 => fresh[n][Second]
      BY <1>3 DEF Typed, InNotaries, PollingTyped, Timed, AllFollow, Following, Promised, FreshAtZero
    <3> QED
      BY <1>3, <3>1 DEF Ahead
  <2>2. Ahead(n, e)' /\ Reveals(e, k)' /\ e \in Log(Second)'
    BY <1>1, <1>3, <1>4, <2>1 DEF Ahead
  <2> QED
    BY <1>2, <1>3, <2>2 DEF Unseen
<1>10. Owed'
  <2> SUFFICES ASSUME NEW m \in Notaries, NEW h \in Hash, Requested(m, h), h \in Unclaimed \cup {k}
               PROVE  /\ Open(h, Locks[session[m][h].user])'
                      /\ Pending(m, h, Locks[session[m][h].user].Expiration)'
    BY <1>5, <1>6 DEF Owed
  <2>1. CASE h \in Unclaimed
    BY <1>5, <2>1, OwedLasts
  <2>2. CASE h = k
    <3>1. m = n /\ session'[m][h].user = w /\ Locks'[w] = Locks[w]
      BY <1>2, <1>8, <2>2
    <3>2. Open(h, Locks[w])'
      BY <1>2, <1>3, <2>2 DEF Open
    <3>3. Pending(m, h, Locks[w].Expiration)'
      BY <1>2, <1>4, <1>9, <2>2, <3>1 DEF Pending
    <3> QED
      BY <3>1, <3>2, <3>3 DEF Open, Pending, Unseen
  <2> QED
    BY <2>1, <2>2
<1>11. Balanced'
  <2>1. Bound' = Bound \cup {w}
    <3>1. Bound' = {a \in Users : \E m \in Notaries, h \in Hash :
                       Requested(m, h) /\ h \in Unclaimed \cup {k} /\ session[m][h].user = a}
      BY <1>5, <1>6 DEF Bound
    <3>2. ASSUME NEW a \in Bound' PROVE a \in Bound \cup {w}
      <4>1. PICK m \in Notaries, h \in Hash :
               Requested(m, h) /\ h \in Unclaimed \cup {k} /\ session[m][h].user = a
        BY <3>1, <3>2
      <4>2. a \in Users
        BY <3>1, <3>2
      <4>3. CASE h = k
        BY <1>2, <1>8, <4>1, <4>3
      <4>4. CASE h \in Unclaimed
        BY <4>1, <4>2, <4>4 DEF Bound
      <4> QED
        BY <4>1, <4>3, <4>4
    <3>3. w \in Bound'
      BY <1>1, <1>2, <3>1
    <3>4. Bound \subseteq Bound'
      <4>1. \A a \in Bound : a \in Users /\ \E m \in Notaries, h \in Hash :
               Requested(m, h) /\ h \in Unclaimed /\ session[m][h].user = a
        BY DEF Bound
      <4> QED
        BY <3>1, <4>1
    <3> QED
      BY <3>2, <3>3, <3>4
  <2>2. {held, totalSupply, totalSupply', Locks[w].value, SideLocks[u].value} \subseteq Nat
    <3>1. Locks[w] \in LockTerms /\ SideLocks[u] \in LockTerms /\ Uint \subseteq Nat
      BY DEF Typed, OnChain, LocksTyped, Locks, SideLocks, AllAccounts, Uint
    <3> QED
      BY <3>1, HashVocabulary DEF Typed, OnChain, ChainTyped, TokenTyped
  <2>3. /\ Free[w] = Locks[w].value /\ Free'[w] = 0
        /\ Claimable[w] = 0 /\ Claimable'[w] = Locks[w].value
        /\ \A a \in Users \ {w} : Free'[a] = Free[a] /\ Claimable'[a] = Claimable[a]
    BY <1>2, <2>1 DEF Free, Claimable
  <2>4. Outward => InHands' = InHands
    BY DEF InHands
  <2>5. \A a \in Users : {Free[a], Claimable[a], InHands[a]} \subseteq Nat
    BY ValuesAreNatural DEF ValuesTyped
  <2> QED
    BY <1>2, <1>4, <2>2, <2>3, <2>4, <2>5, BalancedLasts
<1> QED
  BY <1>3, <1>5, <1>6, <1>7, <1>10, <1>11, TransactionKeepsPromise

-----------------------------------------------------------------------------
(* Locks of users.  One that may not be claimed is set or taken back, and  *)
(* one is opened by a claim of the notaries.                               *)
LEMMA BoundAreOpen ==
    ASSUME Promised, NEW u \in Bound
    PROVE  Locks[u].value > 0 /\ Height(First) < Locks[u].Expiration /\ Locks[u].SecretHash \in Unclaimed
BY DEF Bound, Promised, Owed, Open

LEMMA UnboundKeepsPromise ==
    ASSUME Typed, Typed', Timed, Promised, OnAChain, LocksKept, UNCHANGED <<session, SideLocks, Used>>,
           Log(Second)' = Log(Second), Outs' = Outs,
           NEW u \in Users \ Bound, \A a \in Users \ {u} : Locks'[a] = Locks[a],
           \A tx \in mempool \ mempool' : tx.name # ClaimName,
           Inward => totalSupply' = totalSupply /\ Locks'[u].value - Locks[u].value <= held' - held,
           Outward => /\ held' = held /\ totalSupply' = totalSupply
                      /\ \A a \in Users : InHands'[a] <= InHands[a]
    PROVE  Promised'
<1>1. UNCHANGED direction /\ \A n \in Notaries, h \in Hash : Requested(n, h)' <=> Requested(n, h)
  BY DEF OnAChain, Requested
<1>2. Used' \subseteq Outs /\ Unclaimed' = Unclaimed
  BY DEF Promised, UsedAreOut, Unclaimed
<1>3. Bound' = Bound
  BY <1>1, <1>2 DEF Bound
<1>4. \A n \in Notaries, h \in Hash : Requested(n, h) /\ h \in Outs \ Used' => session[n][h].user # u
  BY <1>2 DEF Bound, Unclaimed
<1>5. Balanced'
  <2>1. /\ Free[u] = Locks[u].value /\ Free'[u] = Locks'[u].value
        /\ \A a \in Users \ {u} : Free'[a] = Free[a]
        /\ \A a \in Users : Claimable'[a] = Claimable[a]
    BY <1>3 DEF Free, Claimable
  <2>2. /\ \A a \in Users : /\ {Free[a], Claimable[a], InHands[a]} \subseteq Nat
                            /\ {Free'[a], Claimable'[a], InHands'[a]} \subseteq Nat
        /\ {held, totalSupply, held', totalSupply'} \subseteq Nat
    <3>1. ValuesTyped
      BY ValuesAreNatural
    <3>2. Typed' => ValuesTyped'
      BY ValuesAreNatural, PTL
    <3> QED
      BY <3>1, <3>2 DEF ValuesTyped
  <2>3. Inward => totalSupply' - totalSupply + Free'[u] - Free[u] <= held' - held
    BY <2>1, <2>2
  <2>4. Outward => /\ totalSupply' - totalSupply <= held' - held + Claimable'[u] - Claimable[u]
                   /\ InHands'[u] - InHands[u] <= totalSupply' - totalSupply
    BY <2>1, <2>2
  <2>5. /\ Inward => \A a \in Users \ {u} : Free'[a] <= Free[a]
        /\ Outward => \A a \in Users \ {u} : Claimable[a] <= Claimable'[a] /\ InHands'[a] <= InHands[a]
    BY <2>1, <2>2
  <2> QED
    BY <1>1, <2>3, <2>4, <2>5, BalancedLasts
<1> QED
  BY <1>2, <1>4, <1>5, FirstChainKeepsPromise

LEMMA ClaimKeepsPromise ==
    ASSUME Typed, Typed', Timed, Promised, OneAsked, OnAChain, UNCHANGED <<session, SideLocks, held>>,
           Log(Second)' = Log(Second), Outs' = Outs,
           NEW tx \in mempool, tx.name = ClaimName, tx \in Claims, mempool' = mempool \ {tx},
           Used' = Used \cup {MC!Sha256(tx.secret)},
           Locks[tx.account].SecretHash = MC!Sha256(tx.secret),
           \A a \in Users : Locks'[a] = IF a = tx.account THEN MC!Unlocked ELSE Locks[a],
           Inward => totalSupply' = totalSupply,
           Outward => /\ totalSupply' = totalSupply - Locks[tx.account].value
                      /\ InHands'[tx.account] = InHands[tx.account] - Locks[tx.account].value
                      /\ \A a \in Users \ {tx.account} : InHands'[a] = InHands[a]
    PROVE  Promised'
<1>1. PICK k \in Hash, u \in Users : /\ k = MC!Sha256(tx.secret) /\ u = tx.account /\ k \in Outs
                                     /\ tx.from \in Notaries
  <2>1. MC!Sha256(tx.secret) \in Hash /\ tx.account \in Users /\ tx.from \in Notaries
    BY HashVocabulary DEF Claims
  <2>2. MC!Sha256(tx.secret) \in Outs
    BY DEF Timed, TxsTimed
  <2> QED
    BY <2>1, <2>2
<1>2. UNCHANGED direction /\ \A n \in Notaries, h \in Hash : Requested(n, h)' <=> Requested(n, h)
  BY DEF OnAChain, Requested
<1>3. \A n \in Notaries : Requested(n, k) => session[n][k].user = u
  <2>1. Requested(tx.from, k) /\ session[tx.from][k].user = u
    BY <1>1 DEF Promised, ClaimsAgree
  <2> QED
    BY <1>1, <2>1 DEF OneAsked
<1>4. \A n \in Notaries, h \in Hash : Requested(n, h) /\ h \in Outs \ Used' => session[n][h].user # u
  BY <1>1 DEF Promised, Owed, Open, Unclaimed
<1>5. LocksKept
  BY <1>1 DEF LocksKept
<1>6. Bound' = Bound \ {u}
  <2>1. Bound' = {a \in Users : \E n \in Notaries, h \in Hash :
                     Requested(n, h) /\ h \in Outs \ Used' /\ session[n][h].user = a}
    BY <1>2 DEF Bound, Unclaimed
  <2>2. \A h : h \in Outs \ Used' <=> h \in Unclaimed /\ h # k
    BY <1>1 DEF Unclaimed
  <2>3. ASSUME NEW a \in Bound \ {u} PROVE a \in Bound'
    <3>1. PICK n \in Notaries, h \in Hash :
             Requested(n, h) /\ h \in Unclaimed /\ session[n][h].user = a /\ a \in Users
      BY <2>3 DEF Bound
    <3>2. h # k
      BY <1>3, <2>3, <3>1
    <3> QED
      BY <2>1, <2>2, <3>1, <3>2
  <2>4. ASSUME NEW a \in Bound' PROVE a \in Bound \ {u}
    <3>1. PICK n \in Notaries, h \in Hash :
             Requested(n, h) /\ h \in Outs \ Used' /\ session[n][h].user = a /\ a \in Users
      BY <2>1, <2>4
    <3>2. a # u /\ h \in Unclaimed
      BY <1>4, <2>2, <3>1
    <3> QED
      BY <3>1, <3>2 DEF Bound
  <2> QED
    BY <2>3, <2>4
<1>7. Balanced'
  <2>1. /\ \A a \in Users \ {u} : Free'[a] = Free[a] /\ Claimable'[a] = Claimable[a]
        /\ Free'[u] = 0 /\ Claimable'[u] = 0 /\ Claimable[u] <= Locks[u].value
        /\ Locks[u].value \in Nat
    <3>1. Locks'[u].value = 0 /\ Locks[u].value \in Nat
      <4>1. Locks[u] \in LockTerms /\ Uint \subseteq Nat
        BY DEF Typed, OnChain, LocksTyped, Locks, AllAccounts, Uint
      <4>2. Locks'[u] = MC!Unlocked
        BY <1>1
      <4>3. MC!Unlocked.value = 0
        BY HashVocabulary
      <4>4. Locks[u].value \in Nat
        BY <4>1, HashVocabulary
      <4> QED
        BY <4>2, <4>3, <4>4
    <3> QED
      BY <1>1, <1>6, <3>1 DEF Free, Claimable
  <2>2. /\ \A a \in Users : /\ {Free[a], Claimable[a], InHands[a]} \subseteq Nat
                            /\ {Free'[a], Claimable'[a], InHands'[a]} \subseteq Nat
        /\ {held, totalSupply, totalSupply'} \subseteq Nat
    <3>1. ValuesTyped
      BY ValuesAreNatural
    <3>2. Typed' => ValuesTyped'
      BY ValuesAreNatural, PTL
    <3> QED
      BY <3>1, <3>2 DEF ValuesTyped
  <2>3. Inward => totalSupply' - totalSupply + Free'[u] - Free[u] <= held' - held
    BY <2>1, <2>2
  <2>4. Outward => /\ totalSupply' - totalSupply <= held' - held + Claimable'[u] - Claimable[u]
                   /\ InHands'[u] - InHands[u] <= totalSupply' - totalSupply
    BY <1>1, <2>1, <2>2
  <2>5. /\ Inward => \A a \in Users \ {u} : Free'[a] <= Free[a]
        /\ Outward => \A a \in Users \ {u} : Claimable[a] <= Claimable'[a] /\ InHands'[a] <= InHands[a]
    BY <1>1, <2>1, <2>2
  <2> QED
    BY <1>2, <2>3, <2>4, <2>5, BalancedLasts
<1>8. Used \subseteq Used' /\ Used' \subseteq Outs
  BY <1>1 DEF Promised, UsedAreOut
<1>9. /\ \A a \in Users \ {u} : Locks'[a] = Locks[a]
      /\ \A ty \in mempool \ mempool' : ty.name = ClaimName => MC!Sha256(ty.secret) \notin Outs \ Used'
  BY <1>1
<1> QED
  BY <1>4, <1>5, <1>7, <1>8, <1>9, FirstChainKeepsPromise

\* The transaction of a notary reverts.  A claim that is owed does not.
LEMMA RevertKeepsPromise ==
    ASSUME Typed, Typed', Timed, Promised, UNCHANGED <<mcVars, scVars, nodeVars, direction>>,
           NEW tx \in mempool, mempool' = mempool \ {tx},
           tx.name = ClaimName => \/ Locks[tx.account].SecretHash # MC!Sha256(tx.secret)
                                  \/ Locks[tx.account].value = 0
                                  \/ Height(First) >= Locks[tx.account].Expiration
    PROVE  Promised'
<1>1. OnAChain
  BY DEF OnAChain, mcVars, scVars, nodeVars, Timed, LogsNamed, Log, UnusedLocks, Inward
<1>2. /\ UNCHANGED <<Locks, SideLocks, Outs, session, held, totalSupply, balances, scLockout, Second>>
      /\ Log(Second)' = Log(Second) /\ Used' = Used /\ SessionsGoOn
  <2>1. UNCHANGED <<Locks, SideLocks, Outs, Second>> /\ \A c \in Chains : Log(c)' = Log(c)
    BY ChainsSame
  <2>2. Second \in Chains
    BY SameHeights, <1>1
  <2>3. UNCHANGED <<session, held, totalSupply, balances, scLockout>> /\ Used' = Used
    BY DEF nodeVars, mcVars, scVars, Used, Claimed, Destroyed, Logged, Inward
  <2>4. Log(Second)' = Log(Second)
    BY <2>1, <2>2
  <2>5. SessionsGoOn
    BY <2>3 DEF SessionsGoOn, Requested
  <2> QED
    BY <2>1, <2>3, <2>4, <2>5
<1>3. tx.name = ClaimName => MC!Sha256(tx.secret) \notin Unclaimed
  <2> SUFFICES ASSUME tx.name = ClaimName, MC!Sha256(tx.secret) \in Unclaimed PROVE FALSE
    OBVIOUS
  <2>1. tx \in Claims
    BY TxKinds DEF ClaimName
  <2>2. tx.from \in Notaries /\ MC!Sha256(tx.secret) \in Hash /\ tx.account \in Users
    BY <2>1, HashVocabulary DEF Claims
  <2>3. Open(MC!Sha256(tx.secret), Locks[tx.account])
    BY <2>2 DEF Promised, ClaimsAgree, Owed
  <2>4. Height(First) \in Nat /\ Locks[tx.account].Expiration \in Nat
    BY <2>2, HashVocabulary
    DEF Typed, OnChain, ChainTyped, Height, LocksTyped, Locks, AllAccounts
  <2> QED
    BY <2>3, <2>4 DEF Open
<1>4. SideLocksAgree'
  BY <1>2 DEF Promised, SideLocksAgree
<1> QED
  BY <1>1, <1>2, <1>3, <1>4, SecondChainKeepsPromise

-----------------------------------------------------------------------------
(* Steps of users.                                                         *)
LEMMA PlusAddsAtMost == \A x, y \in Uint : SC!Plus(x, y) <= x + y
<1>1. \A z \in Nat, m \in Nat \ {0} : z % m <= z
  OBVIOUS
<1> QED
  BY <1>1, CrossChainNumbers DEF Uint, SC!Plus

LEMMA NothingIsUsed ==
    ASSUME UNCHANGED direction, NEW e, Entered(e), e.name \notin {"Lockin", "Lockout"}
    PROVE  Used' = Used
BY DEF Used, Claimed, Destroyed, Logged, Inward, Entered

LEMMA SecretIsUsed ==
    ASSUME UNCHANGED direction, NEW e, NEW h \in Hash, e.SecretHash = h,
           \/ Inward /\ e.name = "Lockin" /\ mcLog' = mcLog \cup {e}
           \/ Outward /\ e.name = "Lockout" /\ scLog' = scLog \cup {e}
    PROVE  Used' = Used \cup {h}
BY DEF Used, Claimed, Destroyed, Logged, Inward, Outward

LEMMA LockinUserKeepsPromise ==
    ASSUME Typed, Typed', TruthInv, OneAsked, OneAsked', Timed, Promised, Timely,
           Inward, UNCHANGED direction, LockinUserStep
    PROVE  Promised'
<1> USE DEF mcVars, scVars, nodeVars, Timed
<1>0. /\ Locks = mcLockin /\ SideLocks = scLockin /\ UnusedLocks = mcLockout
      /\ Locks' = mcLockin' /\ SideLocks' = scLockin' /\ UnusedLocks' = mcLockout'
      /\ Height(First) = mcBlock /\ Height(Second) = scBlock /\ ~Outward
      /\ Log(Second) = scLog /\ Log(Second)' = scLog' /\ RevealName = "LockinSecret"
      /\ {mcLockin, scLockin} \subseteq [AllAccounts -> LockTerms] /\ Users \subseteq AllAccounts
      /\ {mcBlock, scBlock, held, totalSupply} \subseteq Nat
  BY DEF Locks, SideLocks, UnusedLocks, Inward, Outward, First, Second, Height, Log, RevealName,
         Typed, OnChain, LocksTyped, ChainTyped, TokenTyped, AllAccounts, Uint
<1>a. \A a \in Users : /\ Locks[a] \in LockTerms /\ Locks[a].value \in Nat /\ Locks[a].Expiration \in Nat
                       /\ SideLocks[a].value \in Uint /\ SideLocks[a].Expiration \in Nat
  BY <1>0, HashVocabulary DEF Uint
<1>b. MC!Unlocked.value = 0
  BY HashVocabulary
<1>1. ASSUME NEW u \in Users, NEW s \in Secrets, NEW e \in Expirations, NEW v \in Amounts,
             UserPrepareLockin(u, MC!Sha256(s), e, v)
      PROVE  Promised'
  <2> DEFINE lock == [SecretHash |-> MC!Sha256(s), Expiration |-> e, value |-> v]
  <2>1. /\ mcLockin' = [mcLockin EXCEPT ![u] = lock] /\ mcLockin[u].value = 0 /\ held' = held + v
        /\ UNCHANGED <<mcLockout, mcBlock, scVars, mempool, nonces, crashes, nodeVars>>
        /\ Entered(MC!EmitPrepareLockin(u))
    BY <1>1 DEF UserPrepareLockin, Entered, OnMC, MC!prepareLockin
  <2>2. lock.value = v /\ v \in Nat
    BY CrossChainNumbers
  <2> HIDE DEF lock
  <2>3. OnAChain /\ Outs' = Outs /\ Used' = Used
    BY <1>0, <2>1, EntryIsOnAChain, NothingIsUsed DEF MC!EmitPrepareLockin
  <2>4. u \notin Bound
    BY <1>0, <2>1, BoundAreOpen
  <2>5. /\ Locks'[u] = lock /\ Locks[u].value = 0 /\ \A a \in Users \ {u} : Locks'[a] = Locks[a]
    BY <1>0, <2>1
  <2>6. LocksKept
    BY <2>5 DEF LocksKept
  <2>7. Locks'[u].value - Locks[u].value <= held' - held
    BY <1>0, <2>1, <2>2, <2>5
  <2> QED
    BY <1>0, <2>1, <2>3, <2>4, <2>5, <2>6, <2>7, UnboundKeepsPromise
<1>2. ASSUME NEW u \in Users, UserCancelLockin(u) PROVE Promised'
  <2>1. /\ mcLockin' = [mcLockin EXCEPT ![u] = MC!Unlocked] /\ mcBlock > mcLockin[u].Expiration
        /\ held' = held - mcLockin[u].value
        /\ UNCHANGED <<mcLockout, mcBlock, scVars, mempool, nonces, crashes, nodeVars>>
        /\ Entered(MC!EmitCancelLockin(u))
    BY <1>2 DEF UserCancelLockin, Entered, OnMC, MC!cancelLockin, MC!Lapsed, MC!Expired, MC!transferEther
  <2>3. OnAChain /\ Outs' = Outs /\ Used' = Used
    BY <1>0, <2>1, EntryIsOnAChain, NothingIsUsed DEF MC!EmitCancelLockin
  <2>4. u \notin Bound
    BY <1>0, <1>a, <2>1, BoundAreOpen
  <2>5. /\ Locks'[u] = MC!Unlocked /\ \A a \in Users \ {u} : Locks'[a] = Locks[a]
    BY <1>0, <2>1
  <2>6. LocksKept
    BY <1>0, <2>1, <2>5 DEF LocksKept
  <2>7. Locks'[u].value - Locks[u].value <= held' - held
    BY <1>0, <1>a, <1>b, <2>1, <2>5
  <2> QED
    BY <1>0, <2>1, <2>3, <2>4, <2>5, <2>6, <2>7, UnboundKeepsPromise
<1>3. ASSUME NEW u \in Users, NEW s \in Secrets, UserLockin(u, s) PROVE Promised'
  <2>1. /\ scLockin' = [scLockin EXCEPT ![u] = MC!Unlocked]
        /\ scLockin[u].value > 0 /\ scLockin[u].SecretHash = MC!Sha256(s)
        /\ scLockin[u].Expiration > scBlock
        /\ totalSupply' = SC!Plus(totalSupply, scLockin[u].value)
        /\ UNCHANGED <<scLockout, scBlock, mcVars, mempool, nonces, crashes, nodeVars>>
        /\ Entered(SC!EmitLockinSecret(u, s)) /\ scLog' = scLog \cup {SC!EmitLockinSecret(u, s)}
    BY <1>3, HashVocabulary DEF UserLockin, Entered, OnSC, SC!lockin, SC!Opens, SC!Alive
  <2>2. PICK e : /\ e = SC!EmitLockinSecret(u, s) /\ e.name = "LockinSecret" /\ e.secret = s
                 /\ e.block = scBlock
    <3>1. /\ SC!EmitLockinSecret(u, s).name = "LockinSecret"
          /\ SC!EmitLockinSecret(u, s).secret = s /\ SC!EmitLockinSecret(u, s).block = scBlock
      BY DEF SC!EmitLockinSecret
    <3> QED
      BY <3>1
  <2>3. OnAChain /\ Used' = Used
    BY <1>0, <2>1, <2>2, EntryIsOnAChain, NothingIsUsed
  <2>4. Outs' = Outs \cup {SideLocks[u].SecretHash}
    BY <1>0, <2>1, <2>2, SecretIsOut
  <2>5. Reveals(e, SideLocks[u].SecretHash) /\ e.block = Height(Second)
    BY <1>0, <2>1, <2>2 DEF Reveals
  <2>6. \A a \in Users : SideLocks'[a] = IF a = u THEN MC!Unlocked ELSE SideLocks[a]
    BY <1>0, <2>1
  <2>7. held' = held /\ totalSupply' <= totalSupply + SideLocks[u].value
    BY <1>0, <1>a, <2>1, PlusAddsAtMost DEF Typed, OnChain, TokenTyped
  <2>8. /\ UNCHANGED <<session, Locks, mempool>> /\ Log(Second)' = Log(Second) \cup {e}
        /\ SideLocks[u].value > 0 /\ SideLocks[u].Expiration > Height(Second)
    BY <1>0, <2>1, <2>2
  <2> QED
    BY <1>0, <2>3, <2>4, <2>5, <2>6, <2>7, <2>8, SideLockOpensKeepsPromise
<1>4. ASSUME NEW n \in Notaries, NEW u \in Users, NEW a \in Users, NEW h \in Hash,
             onSCPrepareLockinRequest(n, u, a, h)
      PROVE  Promised'
  BY <1>4, RequestKeepsPromise
  DEF onSCPrepareLockinRequest, LockinRequested, Due, Starter, SideStatus
<1> QED
  BY <1>1, <1>2, <1>3, <1>4, HashVocabulary DEF LockinUserStep

LEMMA WithdrawalKeepsPromise ==
    ASSUME Typed, Typed', Timed, Promised, Outward, UNCHANGED direction,
           NEW u \in Users, SC!cancelLockOut(u), scLog' = scLog \cup {SC!EmitCancelLockout(u)},
           UNCHANGED <<mcVars, nodeVars>>, mempool' \subseteq mempool,
           \A tx \in mempool \ mempool' : tx.name # ClaimName
    PROVE  Promised'
<1> USE DEF mcVars, nodeVars, Timed
<1>0. /\ Locks = scLockout /\ SideLocks = mcLockout /\ UnusedLocks = scLockin /\ ~Inward
      /\ Locks' = scLockout' /\ SideLocks' = mcLockout' /\ UnusedLocks' = scLockin'
      /\ Height(First) = scBlock /\ Log(Second) = mcLog /\ Log(Second)' = mcLog'
      /\ scLockout \in [AllAccounts -> LockTerms] /\ balances \in [AllAccounts -> Uint]
      /\ Users \subseteq AllAccounts /\ scBlock \in Nat
  BY DEF Locks, SideLocks, UnusedLocks, Inward, Outward, First, Second, Height, Log,
         Typed, OnChain, LocksTyped, ChainTyped, TokenTyped, AllAccounts
<1>1. /\ scLockout' = [scLockout EXCEPT ![u] = MC!Unlocked] /\ scBlock > scLockout[u].Expiration
      /\ balances' = [balances EXCEPT ![u] = SC!Plus(@, scLockout[u].value)]
      /\ UNCHANGED <<scLockin, scBlock, totalSupply>> /\ Entered(SC!EmitCancelLockout(u))
  BY HashVocabulary DEF SC!cancelLockOut, SC!Lapsed, SC!Expired, Entered
<1>2. OnAChain /\ Outs' = Outs /\ Used' = Used
  BY <1>0, <1>1, EntryIsOnAChain, NothingIsUsed DEF SC!EmitCancelLockout
<1>3. /\ scLockout[u].value \in Uint /\ scLockout[u].Expiration \in Nat /\ balances[u] \in Uint
      /\ MC!Unlocked.value = 0
  BY <1>0, HashVocabulary
<1>4. u \notin Bound
  BY <1>0, <1>1, <1>3, BoundAreOpen
<1>5. Locks'[u] = MC!Unlocked /\ \A a \in Users \ {u} : Locks'[a] = Locks[a]
  BY <1>0, <1>1
<1>6. LocksKept
  BY <1>0, <1>1, <1>5 DEF LocksKept
<1>7. \A a \in Users : InHands'[a] <= InHands[a]
  <2>1. ASSUME NEW a \in Users, a # u PROVE InHands'[a] = InHands[a] /\ InHands[a] \in Nat
    BY <1>0, <1>1, <2>1, ValuesAreNatural DEF InHands, ValuesTyped
  <2>2. InHands'[u] <= InHands[u]
    <3>1. SC!Plus(balances[u], scLockout[u].value) <= balances[u] + scLockout[u].value
      BY <1>3, PlusAddsAtMost
    <3>2. SC!Plus(balances[u], scLockout[u].value) \in Uint
      BY <1>3, UintArithmetic DEF SC!Plus
    <3>3. InHands'[u] = SC!Plus(balances[u], scLockout[u].value) + 0
      BY <1>0, <1>1, <1>3 DEF InHands
    <3> QED
      BY <1>3, <3>1, <3>2, <3>3 DEF InHands, Uint
  <2> QED
    BY <2>1, <2>2
<1> QED
  BY <1>0, <1>1, <1>2, <1>4, <1>5, <1>6, <1>7, UnboundKeepsPromise

LEMMA LockoutUserKeepsPromise ==
    ASSUME Typed, Typed', TruthInv, OneAsked, OneAsked', Timed, Promised, Timely,
           Outward, UNCHANGED direction, LockoutUserStep
    PROVE  Promised'
<1> USE DEF mcVars, scVars, nodeVars, Timed
<1>0. /\ Locks = scLockout /\ SideLocks = mcLockout /\ UnusedLocks = scLockin
      /\ Locks' = scLockout' /\ SideLocks' = mcLockout' /\ UnusedLocks' = scLockin'
      /\ Height(First) = scBlock /\ Height(Second) = mcBlock /\ ~Inward
      /\ Log(Second) = mcLog /\ Log(Second)' = mcLog' /\ RevealName = "LockoutSecret"
      /\ {scLockout, mcLockout} \subseteq [AllAccounts -> LockTerms] /\ Users \subseteq AllAccounts
      /\ {mcBlock, scBlock, held, totalSupply} \subseteq Nat /\ balances \in [AllAccounts -> Uint]
  BY DEF Locks, SideLocks, UnusedLocks, Inward, Outward, First, Second, Height, Log, RevealName,
         Typed, OnChain, LocksTyped, ChainTyped, TokenTyped, AllAccounts, Uint
<1>a. \A a \in Users : /\ Locks[a] \in LockTerms /\ Locks[a].value \in Nat /\ Locks[a].Expiration \in Nat
                       /\ SideLocks[a].value \in Uint /\ SideLocks[a].Expiration \in Nat
                       /\ balances[a] \in Nat
  BY <1>0, HashVocabulary DEF Uint
<1>1. ASSUME NEW u \in Users, NEW s \in Secrets, NEW e \in Expirations, NEW v \in Amounts,
             UserPrepareLockout(u, SC!Sha256(s), e, v)
      PROVE  Promised'
  <2> DEFINE lock == [SecretHash |-> SC!Sha256(s), Expiration |-> e, value |-> v]
  <2>1. /\ scLockout' = [scLockout EXCEPT ![u] = lock] /\ scLockout[u].value = 0
        /\ balances' = [balances EXCEPT ![u] = @ - v]
        /\ UNCHANGED <<scLockin, scBlock, totalSupply, mcVars, mempool, nonces, crashes, nodeVars>>
        /\ Entered(SC!EmitPrepareLockout(u))
    BY <1>1 DEF UserPrepareLockout, Entered, OnSC, SC!prepareLockout
  <2>2. lock.value = v /\ v \in Nat
    BY CrossChainNumbers
  <2> HIDE DEF lock
  <2>3. OnAChain /\ Outs' = Outs /\ Used' = Used
    BY <1>0, <2>1, EntryIsOnAChain, NothingIsUsed DEF SC!EmitPrepareLockout
  <2>4. u \notin Bound
    BY <1>0, <2>1, BoundAreOpen
  <2>5. /\ Locks'[u] = lock /\ Locks[u].value = 0 /\ \A a \in Users \ {u} : Locks'[a] = Locks[a]
    BY <1>0, <2>1
  <2>6. LocksKept
    BY <2>5 DEF LocksKept
  <2>7. \A a \in Users : InHands'[a] <= InHands[a]
    <3>1. ASSUME NEW a \in Users, a # u PROVE InHands'[a] = InHands[a] /\ InHands[a] \in Nat
      BY <1>0, <2>1, <3>1, ValuesAreNatural DEF InHands, ValuesTyped
    <3>2. InHands'[u] = balances[u] - v + v /\ InHands[u] = balances[u] + 0
      BY <1>0, <2>1, <2>2 DEF InHands
    <3> QED
      BY <1>a, <2>2, <3>1, <3>2
  <2> QED
    BY <1>0, <2>1, <2>3, <2>4, <2>5, <2>6, <2>7, UnboundKeepsPromise
<1>2. ASSUME NEW u \in Users, UserCancelLockOut(u) PROVE Promised'
  BY <1>2, WithdrawalKeepsPromise DEF UserCancelLockOut, OnSC
<1>3. ASSUME NEW u \in Users, NEW s \in Secrets, UserLockout(u, s) PROVE Promised'
  <2>1. /\ mcLockout' = [mcLockout EXCEPT ![u] = MC!Unlocked]
        /\ mcLockout[u].value > 0 /\ mcLockout[u].SecretHash = MC!Sha256(s)
        /\ mcLockout[u].Expiration > mcBlock
        /\ held' = held - mcLockout[u].value
        /\ UNCHANGED <<mcBlock, scVars, mempool, nonces, crashes, nodeVars>>
        /\ Entered(MC!EmitLockoutSecret(u, s)) /\ mcLog' = mcLog \cup {MC!EmitLockoutSecret(u, s)}
    BY <1>3 DEF UserLockout, Entered, OnMC, MC!lockout, MC!Opens, MC!Alive, MC!transferEther
  <2>2. PICK e : /\ e = MC!EmitLockoutSecret(u, s) /\ e.name = "LockoutSecret" /\ e.secret = s
                 /\ e.block = mcBlock
    <3>1. /\ MC!EmitLockoutSecret(u, s).name = "LockoutSecret"
          /\ MC!EmitLockoutSecret(u, s).secret = s /\ MC!EmitLockoutSecret(u, s).block = mcBlock
      BY DEF MC!EmitLockoutSecret
    <3> QED
      BY <3>1
  <2>3. OnAChain /\ Used' = Used
    BY <1>0, <2>1, <2>2, EntryIsOnAChain, NothingIsUsed
  <2>4. Outs' = Outs \cup {SideLocks[u].SecretHash}
    BY <1>0, <2>1, <2>2, SecretIsOut
  <2>5. Reveals(e, SideLocks[u].SecretHash) /\ e.block = Height(Second)
    BY <1>0, <2>1, <2>2 DEF Reveals
  <2>6. \A a \in Users : SideLocks'[a] = IF a = u THEN MC!Unlocked ELSE SideLocks[a]
    BY <1>0, <2>1
  <2>7. held' = held - SideLocks[u].value /\ UNCHANGED <<totalSupply, balances, scLockout>>
    BY <1>0, <2>1
  <2>8. /\ UNCHANGED <<session, Locks, mempool>> /\ Log(Second)' = Log(Second) \cup {e}
        /\ SideLocks[u].value > 0 /\ SideLocks[u].Expiration > Height(Second)
    BY <1>0, <2>1, <2>2
  <2> QED
    BY <1>0, <2>3, <2>4, <2>5, <2>6, <2>7, <2>8, SideLockOpensKeepsPromise
<1>4. ASSUME NEW u \in Users, CancleLockOut(u) PROVE Promised'
  <2>1. /\ mcLockout' = [mcLockout EXCEPT ![u] = MC!Unlocked]
        /\ UNCHANGED <<mcBlock, held, scVars, mempool, nonces, crashes, nodeVars>>
        /\ mcLog' = mcLog \cup {MC!EmitCancelLockout(u)} /\ Entered(MC!EmitCancelLockout(u))
    BY <1>4 DEF CancleLockOut, Entered, OnMC, MC!cancleLockOut
  <2>2. OnAChain /\ Outs' = Outs /\ Used' = Used
    BY <1>0, <2>1, EntryIsOnAChain, NothingIsUsed DEF MC!EmitCancelLockout
  <2>3. \A e \in Log(Second)' \ Log(Second) : e.name # RevealName
    BY <1>0, <2>1 DEF MC!EmitCancelLockout
  <2>4. UNCHANGED <<Locks, Used, held, totalSupply, balances, scLockout, session, mempool>>
    BY <1>0, <2>1, <2>2
  <2>5. SessionsGoOn
    BY <2>4 DEF SessionsGoOn, Requested
  <2>6. SideLocksAgree'
    BY <1>0, <2>1, <2>4, <2>5, SideLocksAgreeOn
  <2> QED
    BY <2>2, <2>3, <2>4, <2>5, <2>6, SecondChainKeepsPromise
<1>5. ASSUME NEW n \in Notaries, NEW u \in Users, NEW a \in Users, NEW h \in Hash,
             onMCPrepareLockoutRequest(n, u, a, h)
      PROVE  Promised'
  BY <1>0, <1>5, RequestKeepsPromise
  DEF onMCPrepareLockoutRequest, LockoutRequested, Due, Starter, SideStatus
<1> QED
  BY <1>1, <1>2, <1>3, <1>4, <1>5, HashVocabulary DEF LockoutUserStep

-----------------------------------------------------------------------------
(* Transactions of the notaries.                                           *)
LEMMA NoticedGoesOn ==
    ASSUME Typed, Timed, NEW tx \in mempool, tx \in Prepared, NEW stage \in {"mined", "failed"},
           Settles(tx, stage)
    PROVE  /\ SessionsGoOn
           /\ \A n \in Notaries, h \in Hash :
                 /\ session'[n][h].stage = "done" => session[n][h].stage = "done"
                 /\ session[n][h].stage \in {"mined", "done"} => session'[n][h].stage \in {"mined", "done"}
<1>1. PICK n \in Notaries, h \in Hash : n = tx.from /\ h = tx.hash
  BY DEF Prepared
<1>2. session[n][h].stage = "sent"
  BY <1>1 DEF Timed, SentOnce
<1>3. SessionsGoOn
  <2> SUFFICES ASSUME NEW m \in Notaries, NEW k \in Hash
               PROVE  /\ Requested(m, k)' <=> Requested(m, k)
                      /\ session'[m][k].user = session[m][k].user
                      /\ session'[m][k].amount = session[m][k].amount
                      /\ session'[m][k].expiration = session[m][k].expiration
                      /\ session'[m][k].asked \subseteq session[m][k].asked
                      /\ session'[m][k].stage = "done" \/ session[m][k].stage # "done"
    BY DEF SessionsGoOn
  <2> QED
    BY <1>1, <1>2, SettledSession DEF Requested
<1>4. \A m \in Notaries, k \in Hash :
         /\ session'[m][k].stage = "done" => session[m][k].stage = "done"
         /\ session[m][k].stage \in {"mined", "done"} => session'[m][k].stage \in {"mined", "done"}
  BY <1>1, <1>2, SettledSession
<1> QED
  BY <1>3, <1>4

\* The lock that the notaries signed is set, or the transaction reverts.
LEMMA PrepareKeepsPromise ==
    ASSUME Typed, Typed', Timed, Promised, OnAChain,
           UNCHANGED <<Locks, Used, held, totalSupply, balances, scLockout>>, Outs' = Outs,
           NEW tx \in mempool, tx \in Prepared, mempool' = mempool \ {tx},
           NEW stage \in {"mined", "failed"},
           Settles(tx, stage),
           \A e \in Log(Second)' \ Log(Second) : e.name # RevealName,
           \/ SideLocks' = SideLocks
           \/ /\ stage = "mined"
              /\ \A a \in Users : SideLocks'[a] =
                    IF a = tx.account
                    THEN [SecretHash |-> tx.hash, Expiration |-> tx.expiration, value |-> tx.value]
                    ELSE SideLocks[a]
    PROVE  Promised'
<1>1. /\ SessionsGoOn
      /\ \A n \in Notaries, h \in Hash : session'[n][h].stage = "done" => session[n][h].stage = "done"
      /\ \A n \in Notaries, h \in Hash :
            session[n][h].stage \in {"mined", "done"} => session'[n][h].stage \in {"mined", "done"}
  BY NoticedGoesOn
<1>2. tx.from \in Notaries /\ tx.hash \in Hash /\ tx.account \in Users /\ tx.name # ClaimName
  BY DEF Prepared, Prepares, ClaimName
<1>3. SideLocksAgree'
  <2>1. CASE SideLocks' = SideLocks
    BY <1>1, <2>1, SideLocksAgreeOn
  <2>2. CASE SideLocks' # SideLocks
    <3>1. PICK lock : lock = [SecretHash |-> tx.hash, Expiration |-> tx.expiration, value |-> tx.value]
      OBVIOUS
    <3>2. /\ stage = "mined" /\ SideLocks'[tx.account] = lock
          /\ \A a \in Users \ {tx.account} : SideLocks'[a] = SideLocks[a]
      BY <1>2, <2>2, <3>1
    <3>3. lock.SecretHash = tx.hash /\ lock.Expiration = tx.expiration /\ lock.value = tx.value
      BY <3>1
    <3>4. /\ tx.expiration = session[tx.from][tx.hash].expiration
          /\ tx.value = session[tx.from][tx.hash].amount
      BY DEF Promised, PreparesAgree
    <3>5. /\ session'[tx.from][tx.hash].stage = "mined"
          /\ session'[tx.from][tx.hash].expiration = lock.Expiration
          /\ session'[tx.from][tx.hash].amount = lock.value
      BY <1>2, <3>2, <3>3, <3>4, SettledSession
    <3>6. \E n \in Notaries : LET s == session'[n][SideLocks'[tx.account].SecretHash] IN
             /\ s.stage \in {"mined", "done"}
             /\ s.expiration = SideLocks'[tx.account].Expiration
             /\ s.amount = SideLocks'[tx.account].value
      BY <1>2, <3>2, <3>3, <3>5
    <3> QED
      BY <1>1, <3>2, <3>6, SideLocksAgreeOn
  <2> QED
    BY <2>1, <2>2
<1> QED
  BY <1>1, <1>2, <1>3, SecondChainKeepsPromise

LEMMA LockinMiningKeepsPromise ==
    ASSUME Typed, Typed', Timed, Promised, OneAsked, Inward, UNCHANGED direction,
           NEW tx \in mempool, LockinMined(tx)
    PROVE  Promised'
<1> USE DEF mcVars, scVars, nodeVars, Timed
<1>0. /\ Locks = mcLockin /\ SideLocks = scLockin /\ UnusedLocks = mcLockout
      /\ Locks' = mcLockin' /\ SideLocks' = scLockin' /\ UnusedLocks' = mcLockout'
      /\ Height(First) = mcBlock /\ Log(Second) = scLog /\ Log(Second)' = scLog' /\ ~Outward
      /\ ClaimName = "Lockin" /\ RevealName = "LockinSecret"
      /\ {mcLockin, scLockin} \subseteq [AllAccounts -> LockTerms] /\ Users \subseteq AllAccounts
      /\ mcBlock \in Nat
  BY DEF Locks, SideLocks, UnusedLocks, Inward, Outward, First, Second, Height, Log, ClaimName,
         RevealName, Typed, OnChain, ChainTyped, LocksTyped, AllAccounts
<1>a. \A a \in Users : Locks[a].value \in Nat /\ Locks[a].Expiration \in Nat
  BY <1>0, HashVocabulary DEF Uint
<1>1. CASE MinedMCLockin(tx)
  <2>1. /\ tx \in Claims /\ tx.name = ClaimName /\ tx.account \in Users
        /\ MC!Sha256(tx.secret) \in Hash
        /\ UNCHANGED <<scVars, nonces, crashes, nodeVars>> /\ mempool' = mempool \ {tx}
    <3>1. tx.name = "Lockin"
      BY <1>1 DEF MinedMCLockin
    <3>2. tx \in Claims
      BY <3>1, TxKinds
    <3> QED
      BY <1>0, <1>1, <3>1, <3>2, HashVocabulary DEF MinedMCLockin, Claims
  <2>2. CASE ~MC!Opens(mcLockin[tx.account], tx.secret)
    <3>1. UNCHANGED mcVars
      BY <1>1, <2>2 DEF MinedMCLockin
    <3>2. \/ Locks[tx.account].SecretHash # MC!Sha256(tx.secret)
          \/ Locks[tx.account].value = 0
          \/ Height(First) >= Locks[tx.account].Expiration
      BY <1>0, <1>a, <2>1, <2>2 DEF MC!Opens, MC!Alive
    <3> QED
      BY <2>1, <3>1, <3>2, RevertKeepsPromise
  <2>3. CASE MC!Opens(mcLockin[tx.account], tx.secret)
    <3>1. /\ mcLockin' = [mcLockin EXCEPT ![tx.account] = MC!Unlocked]
          /\ mcLockin[tx.account].SecretHash = MC!Sha256(tx.secret)
          /\ mcLog' = mcLog \cup {MC!EmitLockin(tx.account)}
          /\ UNCHANGED <<mcLockout, mcBlock, held>> /\ Entered(MC!EmitLockin(tx.account))
      BY <1>1, <2>3 DEF MinedMCLockin, MC!lockin, MC!Opens, Entered
    <3>2. OnAChain /\ Outs' = Outs
      BY <1>0, <2>1, <3>1, EntryIsOnAChain DEF MC!EmitLockin
    <3>3. Used' = Used \cup {MC!Sha256(tx.secret)}
      BY <2>1, <3>1, SecretIsUsed DEF MC!EmitLockin
    <3>4. \A a \in Users : Locks'[a] = IF a = tx.account THEN MC!Unlocked ELSE Locks[a]
      BY <1>0, <3>1
    <3>5. /\ UNCHANGED <<session, SideLocks, held, totalSupply>>
          /\ Log(Second)' = Log(Second) /\ Locks[tx.account].SecretHash = MC!Sha256(tx.secret)
      BY <1>0, <2>1, <3>1
    <3> QED
      BY <1>0, <2>1, <3>2, <3>3, <3>4, <3>5, ClaimKeepsPromise
  <2> QED
    BY <2>2, <2>3
<1>2. CASE MinedSCCancelLockin(tx)
  <2>1. /\ UNCHANGED <<mcVars, nonces, crashes, nodeVars>> /\ mempool' = mempool \ {tx}
        /\ tx.name # ClaimName
    BY <1>0, <1>2 DEF MinedSCCancelLockin
  <2>2. CASE UNCHANGED scVars
    BY <2>1, <2>2, RevertKeepsPromise
  <2>3. CASE ~UNCHANGED scVars
    <3>1. /\ scLockin' = [scLockin EXCEPT ![tx.account] = MC!Unlocked]
          /\ UNCHANGED <<scBlock, balances, totalSupply, scLockout>>
          /\ scLog' = scLog \cup {SC!EmitCancelLockin(tx.account)}
          /\ Entered(SC!EmitCancelLockin(tx.account))
      BY <1>2, <2>3, HashVocabulary DEF MinedSCCancelLockin, SC!cancelLockin, SC!tokenVars, Entered
    <3>2. OnAChain /\ Outs' = Outs /\ Used' = Used
      BY <1>0, <2>1, <3>1, EntryIsOnAChain, NothingIsUsed DEF SC!EmitCancelLockin
    <3>3. \A e \in Log(Second)' \ Log(Second) : e.name # RevealName
      BY <1>0, <3>1 DEF SC!EmitCancelLockin
    <3>4. UNCHANGED <<Locks, Used, held, totalSupply, balances, scLockout, session>>
      BY <1>0, <2>1, <3>1, <3>2
    <3>5. SessionsGoOn
      BY <3>4 DEF SessionsGoOn, Requested
    <3>6. SideLocksAgree'
      BY <1>0, <3>1, <3>4, <3>5, SideLocksAgreeOn
    <3>7. \A ty \in mempool \ mempool' : ty.name # ClaimName
      BY <2>1
    <3> QED
      BY <3>2, <3>3, <3>4, <3>5, <3>6, <3>7, SecondChainKeepsPromise
  <2> QED
    BY <2>2, <2>3
<1>3. CASE MinedSCPrepareLockin(tx)
  <2>1. /\ tx \in Prepared /\ tx.account \in Users
        /\ UNCHANGED <<mcVars, nonces, crashes, status, db, dealing, saved, fresh, seen, inbox>>
        /\ mempool' = mempool \ {tx}
    <3>1. tx \in Prepared
      BY <1>3, TxKinds DEF MinedSCPrepareLockin, Prepares
    <3> QED
      BY <1>3, <3>1 DEF MinedSCPrepareLockin, Prepared
  <2>2. CASE scLockin[tx.account].value = 0
    <3> DEFINE lock == [SecretHash |-> tx.hash, Expiration |-> tx.expiration, value |-> tx.value]
    <3>1. /\ scLockin' = [scLockin EXCEPT ![tx.account] = lock]
          /\ UNCHANGED <<scBlock, balances, totalSupply, scLockout>>
          /\ scLog' = scLog \cup {SC!EmitPrepareLockin(tx.account)}
          /\ Entered(SC!EmitPrepareLockin(tx.account)) /\ Noticed(tx, TRUE, Second)
      BY <1>3, <2>2 DEF MinedSCPrepareLockin, SC!prepareLockin, SC!tokenVars, Entered, Second
    <3>2. OnAChain /\ Outs' = Outs /\ Used' = Used
      BY <1>0, <2>1, <3>1, EntryIsOnAChain, NothingIsUsed DEF SC!EmitPrepareLockin
    <3>3. Settles(tx, "mined")
      BY <2>1, <3>1, NoticedWhenSent
    <3>4. \A e \in Log(Second)' \ Log(Second) : e.name # RevealName
      BY <1>0, <3>1 DEF SC!EmitPrepareLockin
    <3>5. UNCHANGED <<Locks, Used, held, totalSupply, balances, scLockout>>
      BY <1>0, <2>1, <3>1, <3>2
    <3>6. \A a \in Users : SideLocks'[a] = IF a = tx.account THEN lock ELSE SideLocks[a]
      BY <1>0, <3>1
    <3> QED
      BY <2>1, <3>2, <3>3, <3>4, <3>5, <3>6, PrepareKeepsPromise
  <2>3. CASE scLockin[tx.account].value # 0
    <3>1. UNCHANGED scVars /\ Noticed(tx, FALSE, Second)
      BY <1>3, <2>3 DEF MinedSCPrepareLockin, Second
    <3>2. Settles(tx, "failed")
      BY <2>1, <3>1, NoticedWhenSent
    <3>3. OnAChain /\ Outs' = Outs
      BY <1>0, <2>1, <3>1, ChainsSame DEF OnAChain, LogsNamed, Log
    <3>4. UNCHANGED <<Locks, SideLocks, Used, held, totalSupply, balances, scLockout>> /\ scLog' = scLog
      BY <1>0, <2>1, <3>1 DEF Used, Claimed, Destroyed, Logged, Inward
    <3> QED
      BY <1>0, <2>1, <3>2, <3>3, <3>4, PrepareKeepsPromise
  <2> QED
    BY <2>2, <2>3
<1> QED
  BY <1>1, <1>2, <1>3 DEF LockinMined

LEMMA LockoutMiningKeepsPromise ==
    ASSUME Typed, Typed', Timed, Promised, OneAsked, Outward, UNCHANGED direction,
           NEW tx \in mempool, LockoutMined(tx)
    PROVE  Promised'
<1> USE DEF mcVars, scVars, nodeVars, Timed
<1>0. /\ Locks = scLockout /\ SideLocks = mcLockout /\ UnusedLocks = scLockin
      /\ Locks' = scLockout' /\ SideLocks' = mcLockout' /\ UnusedLocks' = scLockin'
      /\ Height(First) = scBlock /\ Log(Second) = mcLog /\ Log(Second)' = mcLog' /\ ~Inward
      /\ ClaimName = "Lockout" /\ RevealName = "LockoutSecret"
      /\ {scLockout, mcLockout} \subseteq [AllAccounts -> LockTerms] /\ Users \subseteq AllAccounts
      /\ scBlock \in Nat /\ totalSupply \in Uint /\ balances \in [AllAccounts -> Uint]
  BY DEF Locks, SideLocks, UnusedLocks, Inward, Outward, First, Second, Height, Log, ClaimName,
         RevealName, Typed, OnChain, ChainTyped, TokenTyped, LocksTyped, AllAccounts
<1>a. \A a \in Users : Locks[a].value \in Nat /\ Locks[a].Expiration \in Nat
  BY <1>0, HashVocabulary DEF Uint
<1>1. CASE MinedSCLockout(tx)
  <2>1. /\ tx \in Claims /\ tx.name = ClaimName /\ tx.account \in Users
        /\ MC!Sha256(tx.secret) \in Hash
        /\ UNCHANGED <<mcVars, nonces, crashes, nodeVars>> /\ mempool' = mempool \ {tx}
    <3>1. tx.name = "Lockout"
      BY <1>1 DEF MinedSCLockout
    <3>2. tx \in Claims
      BY <3>1, TxKinds
    <3> QED
      BY <1>0, <1>1, <3>1, <3>2, HashVocabulary DEF MinedSCLockout, Claims
  <2>2. CASE ~SC!Opens(scLockout[tx.account], tx.secret)
    <3>1. UNCHANGED scVars
      BY <1>1, <2>2 DEF MinedSCLockout
    <3>2. \/ Locks[tx.account].SecretHash # MC!Sha256(tx.secret)
          \/ Locks[tx.account].value = 0
          \/ Height(First) >= Locks[tx.account].Expiration
      BY <1>0, <1>a, <2>1, <2>2, HashVocabulary DEF SC!Opens, SC!Alive
    <3> QED
      BY <2>1, <3>1, <3>2, RevertKeepsPromise
  <2>3. CASE SC!Opens(scLockout[tx.account], tx.secret)
    <3>1. /\ scLockout' = [scLockout EXCEPT ![tx.account] = MC!Unlocked]
          /\ scLockout[tx.account].SecretHash = MC!Sha256(tx.secret)
          /\ scLog' = scLog \cup {SC!EmitLockout(tx.account)}
          /\ totalSupply' = (totalSupply + UintMax + 1 - scLockout[tx.account].value) % (UintMax + 1)
          /\ UNCHANGED <<scLockin, scBlock, balances>> /\ Entered(SC!EmitLockout(tx.account))
      BY <1>1, <2>3, HashVocabulary DEF MinedSCLockout, SC!lockout, SC!Opens, Entered
    <3>2. OnAChain /\ Outs' = Outs
      BY <1>0, <2>1, <3>1, EntryIsOnAChain DEF SC!EmitLockout
    <3>3. Used' = Used \cup {MC!Sha256(tx.secret)}
      BY <2>1, <3>1, SecretIsUsed DEF SC!EmitLockout
    <3>4. \A a \in Users : Locks'[a] = IF a = tx.account THEN MC!Unlocked ELSE Locks[a]
      BY <1>0, <3>1
    <3>5. /\ UNCHANGED <<session, SideLocks, held>>
          /\ Log(Second)' = Log(Second) /\ Locks[tx.account].SecretHash = MC!Sha256(tx.secret)
      BY <1>0, <2>1, <3>1
    <3>6. totalSupply' = totalSupply - Locks[tx.account].value
      <4>1. PICK v \in Nat, b \in Nat : v = Locks[tx.account].value /\ b = balances[tx.account]
        BY <1>0, <1>a, <2>1 DEF Uint
      <4>2. b + v = InHands[tx.account]
        BY <1>0, <2>1, <4>1 DEF InHands
      <4>3. 1 + b + v <= totalSupply
        <5>1. PICK f \in [Users -> Nat] : f = InHands
          BY ValuesAreNatural DEF ValuesTyped
        <5>2. SumFunction(f) \in Nat /\ f[tx.account] <= SumFunction(f)
          BY <2>1, SumsOverUsers
        <5>3. 1 + SumFunction(f) <= totalSupply
          BY <5>1 DEF Promised, Balanced
        <5>4. f[tx.account] = b + v /\ totalSupply \in Nat
          BY <1>0, <4>2, <5>1 DEF Uint
        <5> QED
          BY <4>1, <5>2, <5>3, <5>4
      <4>4. totalSupply - v \in 0 .. UintMax
        BY <1>0, <4>1, <4>3, CrossChainNumbers DEF Uint
      <4>5. \A x \in 0 .. UintMax : (x + UintMax + 1) % (UintMax + 1) = x
        BY CrossChainNumbers
      <4>6. totalSupply + UintMax + 1 - v = (totalSupply - v) + UintMax + 1
        BY <1>0, <4>1, CrossChainNumbers DEF Uint
      <4> QED
        BY <1>0, <3>1, <4>1, <4>4, <4>5, <4>6
    <3>7. /\ InHands'[tx.account] = InHands[tx.account] - Locks[tx.account].value
          /\ \A a \in Users \ {tx.account} : InHands'[a] = InHands[a]
      <4>1. ASSUME NEW a \in Users, a # tx.account PROVE InHands'[a] = InHands[a]
        BY <1>0, <3>1, <4>1 DEF InHands
      <4>2. /\ InHands'[tx.account] = balances[tx.account] + 0
            /\ InHands[tx.account] = balances[tx.account] + Locks[tx.account].value
            /\ balances[tx.account] \in Nat
        BY <1>0, <2>1, <3>1, HashVocabulary DEF InHands, Uint
      <4> QED
        BY <1>a, <2>1, <4>1, <4>2
    <3> QED
      BY <1>0, <2>1, <3>2, <3>3, <3>4, <3>5, <3>6, <3>7, ClaimKeepsPromise
  <2> QED
    BY <2>2, <2>3
<1>2. CASE MinedSCCancelLockOut(tx)
  <2>1. /\ UNCHANGED <<mcVars, nonces, crashes, nodeVars>> /\ mempool' = mempool \ {tx}
        /\ tx.name # ClaimName /\ tx.account \in Users
    BY <1>0, <1>2, TxKinds DEF MinedSCCancelLockOut, Cancels
  <2>2. CASE UNCHANGED scVars
    BY <2>1, <2>2, RevertKeepsPromise
  <2>3. CASE ~UNCHANGED scVars
    <3>1. SC!cancelLockOut(tx.account) /\ scLog' = scLog \cup {SC!EmitCancelLockout(tx.account)}
      BY <1>2, <2>3 DEF MinedSCCancelLockOut
    <3>2. mempool' \subseteq mempool /\ \A ty \in mempool \ mempool' : ty.name # ClaimName
      BY <2>1
    <3> QED
      BY <2>1, <3>1, <3>2, WithdrawalKeepsPromise
  <2> QED
    BY <2>2, <2>3
<1>3. CASE MinedMCPrepareLockout(tx)
  <2> DEFINE valid == /\ tx.value > 0 /\ mcLockout[tx.account].value = 0
                      /\ tx.expiration > mcBlock + MinLockoutBlocks
  <2>1. /\ tx \in Prepared /\ tx.account \in Users
        /\ UNCHANGED <<scVars, nonces, crashes, status, db, dealing, saved, fresh, seen, inbox>>
        /\ mempool' = mempool \ {tx}
    <3>1. tx \in Prepared
      BY <1>3, TxKinds DEF MinedMCPrepareLockout, Prepares
    <3> QED
      BY <1>3, <3>1 DEF MinedMCPrepareLockout, Prepared
  <2>2. CASE valid
    <3> DEFINE lock == [SecretHash |-> tx.hash, Expiration |-> tx.expiration, value |-> tx.value]
    <3>1. /\ mcLockout' = [mcLockout EXCEPT ![tx.account] = lock]
          /\ UNCHANGED <<mcBlock, held>>
          /\ mcLog' = mcLog \cup {MC!EmitPrepareLockout(tx.account)}
          /\ Entered(MC!EmitPrepareLockout(tx.account)) /\ Noticed(tx, TRUE, Second)
      BY <1>3, <2>2 DEF MinedMCPrepareLockout, MC!prepareLockoutHTLC, Entered, Second, Inward, Outward
    <3>2. OnAChain /\ Outs' = Outs /\ Used' = Used
      BY <1>0, <2>1, <3>1, EntryIsOnAChain, NothingIsUsed DEF MC!EmitPrepareLockout
    <3>3. Settles(tx, "mined")
      BY <2>1, <3>1, NoticedWhenSent
    <3>4. \A e \in Log(Second)' \ Log(Second) : e.name # RevealName
      BY <1>0, <3>1 DEF MC!EmitPrepareLockout
    <3>5. UNCHANGED <<Locks, Used, held, totalSupply, balances, scLockout>>
      BY <1>0, <2>1, <3>1, <3>2
    <3>6. \A a \in Users : SideLocks'[a] = IF a = tx.account THEN lock ELSE SideLocks[a]
      BY <1>0, <3>1
    <3> QED
      BY <2>1, <3>2, <3>3, <3>4, <3>5, <3>6, PrepareKeepsPromise
  <2>3. CASE ~valid
    <3>1. UNCHANGED mcVars /\ Noticed(tx, FALSE, Second)
      BY <1>3, <2>3 DEF MinedMCPrepareLockout, Second, Inward, Outward
    <3>2. Settles(tx, "failed")
      BY <2>1, <3>1, NoticedWhenSent
    <3>3. OnAChain /\ Outs' = Outs
      BY <1>0, <2>1, <3>1, ChainsSame DEF OnAChain, LogsNamed, Log
    <3>4. UNCHANGED <<Locks, SideLocks, Used, held, totalSupply, balances, scLockout>> /\ mcLog' = mcLog
      BY <1>0, <2>1, <3>1 DEF Used, Claimed, Destroyed, Logged, Inward
    <3> QED
      BY <1>0, <2>1, <3>2, <3>3, <3>4, PrepareKeepsPromise
  <2> QED
    BY <2>2, <2>3
<1> QED
  BY <1>1, <1>2, <1>3 DEF LockoutMined

-----------------------------------------------------------------------------
(* All steps.                                                              *)
LEMMA UsersAreCounted ==
    ASSUME NEW f \in [Users -> Nat], NEW k \in Nat, \A u \in Users : f[u] <= k
    PROVE  SumFunction(f) \in Nat /\ SumFunction(f) <= k * Cardinality(Users)
<1>1. SumFunction(f) = F!Total(f, Users) /\ F!Natural(f, Users) /\ F!IsFiniteSet(Users) /\ F!Adds
  BY EtherCanBeCounted, FiniteAndAdding, SumIsTotal
<1>2. F!Cardinality(Users) = Cardinality(Users)
  BY DEF Cardinality, F!Cardinality
<1>3. F!Total(f, Users) <= k * F!Cardinality(Users)
  BY <1>1, F!TotalIsBounded
<1>4. SumFunction(f) \in Nat
  <2>1. CASE Users = {}
    BY <1>1, <2>1, F!TotalOfNothing
  <2>2. CASE Users # {}
    BY <2>2, SumsOverUsers
  <2> QED
    BY <2>1, <2>2
<1> QED
  BY <1>1, <1>2, <1>3, <1>4

LEMMA InitIsPromised == Init => Promised
<1> SUFFICES ASSUME Init PROVE Promised
  OBVIOUS
<1>1. Typed /\ InitNotaries
  BY InitIsTyped DEF Init, LockinInit, LockoutInit
<1>2. \A a \in Users : Locks[a] = MC!Unlocked /\ SideLocks[a] = MC!Unlocked /\ scLockout[a] = MC!Unlocked
  BY HashVocabulary
  DEF Init, LockinInit, LockoutInit, MC!Init, SC!Init, Locks, SideLocks, Inward, Outward, AllAccounts
<1>3. MC!Unlocked.value = 0
  BY HashVocabulary
<1>4. Outs = {} /\ Used = {}
  BY <1>1 DEF Outs, Used, Minted, Released, Claimed, Destroyed, Logged, InitNotaries
<1>5. \A n \in Notaries, h \in Hash : session[n][h].stage = "idle" /\ ~Requested(n, h)
  BY <1>1, HashVocabulary DEF Requested, Idle, InitNotaries
<1>6. FreshAtZero /\ RecordsStand /\ SessionsStand
  <2>1. FreshAtZero
    BY <1>1 DEF FreshAtZero, InitNotaries
  <2>2. RecordsStand
    BY <1>1 DEF RecordsStand, InitNotaries
  <2> QED
    BY <1>5, <2>1, <2>2 DEF SessionsStand
<1>7. InCharge /\ InChargeFirst
  BY <1>5 DEF InCharge, InChargeFirst
<1>8. PreparesAgree /\ SideLocksAgree /\ ClaimsAgree
  BY <1>1, <1>2, <1>3 DEF PreparesAgree, SideLocksAgree, ClaimsAgree, InitNotaries
<1>9. UsedAreOut /\ Owed
  BY <1>4, <1>5 DEF UsedAreOut, Owed
<1>10. Balanced
  <2>1. /\ Bound = {} /\ \A u \in Users : Free[u] = 0 /\ Claimable[u] = 0
    BY <1>2, <1>3, <1>5 DEF Bound, Free, Claimable
  <2>2. PICK f \in [Users -> Nat], c \in [Users -> Nat], i \in [Users -> Nat] :
           f = Free /\ c = Claimable /\ i = InHands
    BY <1>1, ValuesAreNatural DEF ValuesTyped
  <2>3. Cardinality(Users) \in Nat /\ EtherSupply \in Nat
    BY EtherCanBeCounted, CrossChainNumbers, FS_CardinalityType
  <2>4. CASE Inward
    <3>1. totalSupply = 1 /\ held = 0 /\ ~Outward
      BY <2>4 DEF Init, LockinInit, LockoutInit, MC!Init, SC!Init, Inward, Outward
    <3>2. SumFunction(f) \in Nat /\ SumFunction(f) <= 0 * Cardinality(Users)
      BY <2>1, <2>2, UsersAreCounted
    <3> QED
      BY <2>2, <2>3, <2>4, <3>1, <3>2 DEF Balanced
  <2>5. CASE ~Inward
    <3>1. /\ held = EtherSupply * Cardinality(Users) /\ totalSupply = 1 + held
          /\ \A u \in Users : balances[u] = EtherSupply
      BY <2>5 DEF Init, LockoutInit, MintedBefore, AllAccounts
    <3>2. \A u \in Users : i[u] <= EtherSupply
      BY <1>2, <1>3, <2>2, <2>3, <3>1 DEF InHands
    <3>3. SumFunction(i) \in Nat /\ SumFunction(i) <= EtherSupply * Cardinality(Users)
      BY <2>3, <3>2, UsersAreCounted
    <3>4. SumFunction(c) \in Nat
      BY <2>1, <2>2, UsersAreCounted
    <3>5. EtherSupply * Cardinality(Users) \in Nat
      BY <2>3
    <3> QED
      BY <2>2, <2>5, <3>1, <3>3, <3>4, <3>5 DEF Balanced
  <2> QED
    BY <2>4, <2>5
<1> QED
  BY <1>6, <1>7, <1>8, <1>9, <1>10 DEF Promised

LEMMA StutterKeepsPromise ==
    ASSUME Typed, Typed', Timed, Promised, OffChain,
           UNCHANGED <<mempool, db, saved, fresh, inbox, session>>
    PROVE  Promised'
<1>1. RecordsGoOn
  BY SameContinues DEF RecordsGoOn
<1>2. SessionsGoOn
  BY DEF SessionsGoOn, Requested
<1>3. InCharge'
  BY DEF Promised, InCharge
<1> QED
  BY <1>1, <1>2, <1>3, SessionKeepsPromise

LEMMA NextKeepsPromise ==
    ASSUME Timely, ~CallsFail, Typed, Typed', TruthInv, Calm, Calm', Timed, Accounted, NoneHasty,
           Promised, [Next]_transferVars
    PROVE  Promised'
<1> USE DEF Calm
<1>1. CASE MCGrows \/ SCGrows
  BY <1>1, GrowthKeepsPromise
<1>2. CASE UserStep
  BY <1>2, LockinUserKeepsPromise, LockoutUserKeepsPromise DEF UserStep
<1>3. CASE Mining
  BY <1>3, LockinMiningKeepsPromise, LockoutMiningKeepsPromise DEF Mining
<1>4. ASSUME NEW n \in Notaries, NotaryStep(n) PROVE Promised'
  BY <1>4, NotaryKeepsPromise
<1>5. ASSUME NEW n \in Notaries PROVE ~StartStop(n)
  BY DEF StartStop, Crash, Restart, Stop, AllUp, Typed, InNotaries, PollingTyped
<1>6. CASE UNCHANGED transferVars
  <2>1. OffChain /\ UNCHANGED <<mempool, db, saved, fresh, inbox, session>>
    BY <1>6 DEF transferVars, vars, nodeVars, OffChain
  <2> QED
    BY <2>1, StutterKeepsPromise
<1> QED
  BY <1>1, <1>2, <1>3, <1>4, <1>5, <1>6 DEF Next

\* Nobody was hasty before, if nobody is now.
LEMMA HastyBefore ==
    ASSUME Typed, Typed', Calm', [Next]_transferVars, NoneHasty'
    PROVE  NoneHasty
<1>1. LogsGrow
  <2>1. CASE MCGrows \/ SCGrows \/ UserStep \/ Mining
    BY <2>1, ChainsKeepLogs DEF MCGrows, SCGrows, UserStep, Mining
  <2>2. ASSUME NEW n \in Notaries, NotaryStep(n) PROVE LogsGrow
    <3> USE DEF LogsGrow, mcVars, scVars
    <3>1. UNCHANGED direction
      BY <2>2 DEF NotaryStep
    <3>2. ASSUME NEW c, NEW e, HandleLockin(n, c, e) \/ HandleLockout(n, c, e) PROVE LogsGrow
      BY <3>1, <3>2, HandlerSendsNoPrepare DEF OffChain, Calm
    <3>3. ASSUME NEW h, NEW m, checkPrepareLockin(n, m, h) \/ checkPrepareLockout(n, m, h) PROVE LogsGrow
      BY <3>1, <3>3 DEF checkPrepareLockin, checkPrepareLockout, Answer
    <3>4. ASSUME NEW h, callSCPrepareLockin(n, h) \/ callMCPrepareLockout(n, h) \/ takeCharge(n, h)
          PROVE  LogsGrow
      BY <3>1, <3>4 DEF callSCPrepareLockin, callMCPrepareLockout, callPrepare, takeCharge
    <3>5. ASSUME NEW c, Poll(n, c) PROVE LogsGrow
      BY <3>1, <3>5 DEF Poll
    <3>6. CASE LockinNotaryStep(n)
      BY <3>2, <3>3, <3>4, <3>5, <3>6 DEF LockinNotaryStep, LockinSessionStep
    <3>7. CASE LockoutNotaryStep(n)
      BY <3>2, <3>3, <3>4, <3>5, <3>7 DEF LockoutNotaryStep, LockoutSessionStep
    <3> QED
      BY <2>2, <3>6, <3>7 DEF NotaryStep
  <2>3. ASSUME NEW n \in Notaries, StartStop(n) PROVE LogsGrow
    BY <2>3 DEF StartStop, Crash, Restart, LogsGrow, mcVars, scVars
  <2>4. CASE UNCHANGED transferVars
    BY <2>4 DEF transferVars, vars, mcVars, scVars, LogsGrow
  <2> QED
    BY <2>1, <2>2, <2>3, <2>4 DEF Next
<1>2. \A h : HastyLockin(h) => HastyLockin(h)'
  BY <1>1 DEF LogsGrow, HastyLockin, SameBlock
<1>3. \A h : HastyLockout(h) => HastyLockout(h)'
  BY <1>1 DEF LogsGrow, HastyLockout, SameBlock
<1> QED
  BY <1>1, <1>2, <1>3 DEF NoneHasty, LogsGrow, Inward, Outward

(* The third inductive invariant: unless a secret was published in the     *)
(* block of the lock it opens, whoever opens a side lock leaves the notary *)
(* that set it a claim it will still be in time for, and value is          *)
(* accounted for, what may be claimed included.                            *)
THEOREM AlwaysPromised ==
    ASSUME Timely, ~CallsFail PROVE Spec /\ []Calm => [](NoneHasty => Promised)
<1>1. ASSUME Typed, Typed', TruthInv, Calm, Calm', Timed, Accounted, NoneHasty => Promised,
             [Next]_transferVars
      PROVE  NoneHasty' => Promised'
  BY <1>1, NextKeepsPromise, HastyBefore
<1> QED
  BY <1>1, InitIsPromised, AlwaysTyped, AlwaysTold, AlwaysTimed, AlwaysAccounted, PTL DEF Spec

-----------------------------------------------------------------------------
(* What it is for.                                                         *)
LEMMA SumsCompare ==
    ASSUME NEW f \in [Users -> Nat], NEW g \in [Users -> Nat], \A u \in Users : g[u] <= f[u]
    PROVE  SumFunction(f) \in Nat /\ SumFunction(g) \in Nat /\ SumFunction(g) <= SumFunction(f)
<1>1. CASE Users = {}
  <2>1. F!Total(f, Users) = 0 /\ F!Total(g, Users) = 0
    BY <1>1, F!TotalOfNothing
  <2> QED
    BY <2>1, SumIsTotal
<1>2. CASE Users # {}
  <2>1. PICK u \in Users : TRUE
    BY <1>2
  <2> QED
    BY <2>1, SumsOverUsers
<1> QED
  BY <1>1, <1>2

LEMMA BalancedIsBacked == Typed /\ (NoneHasty => Promised) => Backed
<1> SUFFICES ASSUME Typed, Promised
             PROVE  (Inward => MintedIsBacked) /\ (Outward => ReleasedIsBacked)
  BY DEF Backed
<1>1. ValuesTyped
  BY ValuesAreNatural
<1>2. ASSUME Inward PROVE MintedIsBacked
  <2>1. PICK f \in [Users -> Nat] : f = Free
    BY <1>1 DEF ValuesTyped
  <2>2. SumFunction(f) \in Nat
    BY SumsCompare
  <2>3. totalSupply - 1 + SumFunction(f) <= held
    BY <1>2, <2>1 DEF Promised, Balanced
  <2> QED
    BY <1>1, <2>2, <2>3 DEF ValuesTyped, MintedIsBacked
<1>3. ASSUME Outward PROVE ReleasedIsBacked
  <2>1. \A u \in Users : scLockout[u].value \in Nat /\ Locks[u] = scLockout[u]
    <3>1. Locks = scLockout
      BY <1>3 DEF Locks, Inward, Outward
    <3>2. \A u \in Users : scLockout[u] \in LockTerms
      BY DEF Typed, OnChain, LocksTyped, AllAccounts
    <3> QED
      BY <3>1, <3>2, HashVocabulary DEF Uint
  <2>2. \A u \in Bound : \E h \in Hash : Released(h) /\ scLockout[u].SecretHash = h
    <3> SUFFICES ASSUME NEW u \in Bound
                 PROVE  \E h \in Hash : Released(h) /\ scLockout[u].SecretHash = h
      OBVIOUS
    <3>1. Locks[u].SecretHash \in Unclaimed /\ u \in Users
      BY BoundAreOpen DEF Bound
    <3> QED
      BY <1>3, <2>1, <3>1 DEF Unclaimed, Outs, Inward, Outward
  <2>3. PICK f : f = [a \in Users |-> ToDestroy(a)]
    OBVIOUS
  <2>4. f \in [Users -> Nat] /\ \A u \in Bound : f[u] = scLockout[u].value
    BY <2>1, <2>2, <2>3 DEF ToDestroy, Bound
  <2>5. PICK g \in [Users -> Nat] : g = Claimable
    BY <1>1 DEF ValuesTyped
  <2>6. \A u \in Users : g[u] <= f[u]
    BY <2>1, <2>4, <2>5 DEF Claimable
  <2>7. SumFunction(f) \in Nat /\ SumFunction(g) \in Nat /\ SumFunction(g) <= SumFunction(f)
    BY <2>4, <2>6, SumsCompare
  <2>8. totalSupply - 1 <= held + SumFunction(g)
    BY <1>3, <2>5 DEF Promised, Balanced
  <2>9. ReleasedIsBacked <=> totalSupply - 1 - SumFunction(f) <= held
    BY <2>3 DEF ReleasedIsBacked
  <2> QED
    BY <1>1, <2>7, <2>8, <2>9 DEF ValuesTyped
<1> QED
  BY <1>2, <1>3

(* Backed: nobody gets value on both chains.  In a lockin every token in   *)
(* circulation stands for ether that the main-chain contract holds and     *)
(* that nobody may take back; in a lockout ether has left the contract     *)
(* only for tokens that were destroyed, or that are locked with a hash     *)
(* whose secret is out.  It needs the notary to learn of the secret and to *)
(* get its claim out (onSCLockinSecret, onMCLockoutSecret4Ethereum) before *)
(* the user may take the lock back; Backed itself excepts the secret that  *)
(* came in the block of the lock (NoneHasty), with which the notary may    *)
(* not be in charge yet when it learns of it.                              *)
THEOREM ValueIsBacked == ASSUME Timely, ~CallsFail PROVE Spec /\ []Calm => []Backed
BY AlwaysPromised, AlwaysTyped, BalancedIsBacked, PTL

LEMMA PromisedIsActedOn ==
    ASSUME Typed, Timed, Promised, Notaries # {}, NoSecret \notin Secrets
    PROVE  SecretIsActedOn
<1>1. ASSUME NEW s \in Secrets, \A n \in Notaries : Known(n, MC!Sha256(s)) /\ db[n][MC!Sha256(s)].Secret = s
      PROVE  MC!Sha256(s) \in Used \/ \E tx \in mempool : tx.name = ClaimName /\ tx.secret = s
  <2>1. PICK h \in Hash : h = MC!Sha256(s)
    BY HashVocabulary
  <2>2. h \in Outs
    BY <1>1, <2>1 DEF Promised, RecordsStand, RecordStands, Known
  <2>3. PICK m \in Notaries : Requested(m, h)
    BY <2>2 DEF Timed, SetOnce, Requested
  <2>4. ASSUME h \notin Used PROVE Sent(h)
    <3>1. Pending(m, h, Locks[session[m][h].user].Expiration)
      BY <2>2, <2>3, <2>4 DEF Promised, Owed, Unclaimed
    <3>2. db[m][h].Secret # NoSecret
      BY <1>1, <2>1
    <3> QED
      BY <3>1, <3>2 DEF Pending
  <2>5. \A k : MC!Sha256(k) = h => k = s
    BY <2>1 DEF MC!Sha256
  <2> QED
    BY <2>1, <2>4, <2>5 DEF Sent
<1>2. \A s : SC!Sha256(s) = MC!Sha256(s)
  BY HashVocabulary
<1>3. ASSUME Inward PROVE LockinSecretIsActedOn
  <2>1. ClaimName = "Lockin" /\ \A h \in Used : Claimed(h)
    BY <1>3 DEF ClaimName, Used
  <2> QED
    BY <1>1, <2>1 DEF LockinSecretIsActedOn
<1>4. ASSUME Outward PROVE LockoutSecretIsActedOn
  <2>1. ClaimName = "Lockout" /\ \A h \in Used : Destroyed(h)
    BY <1>4 DEF ClaimName, Used, Inward, Outward
  <2> QED
    BY <1>1, <1>2, <2>1 DEF LockoutSecretIsActedOn
<1> QED
  BY <1>3, <1>4 DEF SecretIsActedOn

(* SecretIsActedOn: once all notaries have recorded the secret of a        *)
(* transfer, the one in charge has sent the transaction that uses it       *)
(* (onSCLockinSecret, onMCLockoutSecret4Ethereum), as long as no secret    *)
(* came in the block of the lock it opens: a later one is not recorded by  *)
(* a notary that has not got its receipt (onrequest.go, after WaitMined).  *)
THEOREM SecretLeadsToClaim ==
    ASSUME Timely, ~CallsFail, Notaries # {}, NoSecret \notin Secrets
    PROVE  Spec /\ []Calm => [](NoneHasty => SecretIsActedOn)
BY AlwaysPromised, AlwaysTimed, AlwaysTyped, PromisedIsActedOn, PTL

\* Without it the lock of the user stands, so nothing of that hash was taken back.
LEMMA NotTakenBack ==
    ASSUME Typed, Timed, Promised, NewHashes, NEW h \in Hash, h \in Unclaimed
    PROVE  ~TakenBack(First, h)
<1>1. PICK m \in Notaries : Requested(m, h)
  BY DEF Timed, SetOnce, Requested, Unclaimed
<1>2. PICK u : u = session[m][h].user
  OBVIOUS
<1>3. Locks[u].SecretHash = h
  BY <1>1, <1>2 DEF Promised, Owed, Open
<1>4. u \in Users
  <2>1. Known(m, h) /\ u = Starter(db[m][h])
    BY <1>1, <1>2 DEF Promised, SessionsStand, SessionStands
  <2> QED
    BY <2>1, KnownIsTyped DEF RecordOK, Starter, Inward, Outward, Typed
<1>5. First \in Chains /\ Locks[u] \in LocksOn(First, u)
  BY DEF First, Chains, Locks, LocksOn
<1> QED
  BY <1>3, <1>4, <1>5 DEF NewHashes

LEMMA PromisedIsSettled ==
    ASSUME Typed, Timed, Promised, RecordsAreTrue, EndInv, NewHashes
    PROVE  EndedIsSettled
<1>1. \A c \in Chains, h \in Hash : ~(Opened(c, h) /\ TakenBack(c, h))
  BY DEF EndInv, OneEnd
<1>2. ASSUME NEW n \in Notaries, NEW h \in DOMAIN db[n] PROVE h \in Hash
  BY DEF Typed, InNotaries, RecordsTyped
<1>3. ASSUME Inward PROVE LockinEndedIsSettled
  <2> SUFFICES ASSUME NEW n \in Notaries, NEW h \in DOMAIN db[n], IsEnd(db[n][h])
               PROVE  (Claimed(h) <=> Minted(h)) /\ (Refunded(h) <=> ~Claimed(h))
    BY DEF LockinEndedIsSettled
  <2>1. /\ db[n][h].MCLockStatus = "Unlock" => Claimed(h)
        /\ db[n][h].MCLockStatus = "Cancel" => Refunded(h)
        /\ db[n][h].SCLockStatus = "Unlock" => Minted(h)
    BY <1>3 DEF RecordsAreTrue, LockinRecordsAreTrue
  <2>2. /\ Claimed(h) => Opened("mc", h)
        /\ Refunded(h) => TakenBack("mc", h)
    BY DEF Claimed, Refunded, Logged, Opened, TakenBack, IsOpening, IsReturn, Log
  <2>3. ~(Claimed(h) /\ Refunded(h))
    BY <1>1, <1>2, <2>2 DEF Chains
  <2>4. Refunded(h) => Claimed(h) \/ ~Minted(h)
    BY <1>2, <1>3, <2>2, NotTakenBack DEF First, Unclaimed, Outs, Used
  <2> QED
    BY <2>1, <2>3, <2>4 DEF IsEnd
<1>4. ASSUME Outward PROVE LockoutEndedIsSettled
  <2> SUFFICES ASSUME NEW n \in Notaries, NEW h \in DOMAIN db[n], IsEnd(db[n][h])
               PROVE  (Destroyed(h) <=> Released(h)) /\ (Returned(h) <=> ~Destroyed(h))
    BY DEF LockoutEndedIsSettled
  <2>0. ~Inward
    BY <1>4 DEF Inward, Outward
  <2>1. /\ db[n][h].MCLockStatus = "Unlock" => Released(h)
        /\ db[n][h].SCLockStatus = "Unlock" => Destroyed(h)
        /\ db[n][h].SCLockStatus = "Cancel" => Returned(h)
        /\ db[n][h].SCLockStatus # "None"
    BY <1>4, <2>0 DEF RecordsAreTrue, LockoutRecordsAreTrue, Promised, RecordsStand, RecordStands, StartStatus
  <2>2. /\ Destroyed(h) => Opened("sc", h)
        /\ Returned(h) => TakenBack("sc", h)
    BY DEF Destroyed, Returned, Logged, Opened, TakenBack, IsOpening, IsReturn, Log
  <2>3. ~(Destroyed(h) /\ Returned(h))
    BY <1>1, <1>2, <2>2 DEF Chains
  <2>4. Returned(h) => Destroyed(h) \/ ~Released(h)
    BY <1>2, <2>0, <2>2, NotTakenBack DEF First, Unclaimed, Outs, Used
  <2> QED
    BY <2>1, <2>3, <2>4 DEF IsEnd
<1> QED
  BY <1>3, <1>4 DEF EndedIsSettled

(* EndedIsSettled: what a notary drops as over (IsEnd) has one outcome on  *)
(* both chains, whatever the order its last events were handled in: the    *)
(* lock of the user was claimed if and only if the side lock was opened,   *)
(* and taken back otherwise.  No hash is used again where its lock ended,  *)
(* and no secret came in the block of the lock it opens.                   *)
THEOREM EndsAreSettled ==
    ASSUME Timely, ~CallsFail
    PROVE  Spec /\ []Calm /\ []NewHashes => [](NoneHasty => EndedIsSettled)
<1>1. Prompt
  BY DEF Timely
<1> QED
  BY <1>1, AlwaysPromised, AlwaysTimed, AlwaysTyped, RecordsTellTheTruth, AlwaysOneEnd,
     PromisedIsSettled, PTL

-----------------------------------------------------------------------------
(* Who is in charge.  A notary records the lock on the Second chain when   *)
(* it has polled the event; by then whoever signed for the lock has        *)
(* recorded who asked, and the notary that sent it is in charge once it    *)
(* has the receipt.  Everybody has signed if the threshold asks for all    *)
(* others; and what an event tells is about that transfer if no other one  *)
(* was asked to go to the same account.                                    *)
AllSign     == IsFiniteSet(Notaries) /\ Cardinality(Notaries) = Threshold + 1
OwnAccounts == \A n, m \in Notaries, h, k \in Hash :
    Requested(n, h) /\ Requested(m, k) /\ session[n][h].account = session[m][k].account => h = k

\* Who agreed to sign has recorded for whom, and only who was asked is recorded.
Signed == \A n \in Notaries, h \in Hash :
    /\ n \notin session[n][h].asked \cup session[n][h].agreed
    /\ \A m \in session[n][h].agreed : Known(m, h) /\ db[m][h].NotaryIDInCharge # Nobody
    /\ session[n][h].stage \in {"sent", "mined", "done"} => Notaries \ {n} \subseteq session[n][h].agreed
InChargeOf(h) == {Nobody} \cup {n \in Notaries : Requested(n, h)}
Named == \A n \in Notaries : \A h \in DOMAIN db[n] : db[n][h].NotaryIDInCharge \in InChargeOf(h)
TookCharge == \A n \in Notaries, h \in Hash :
    session[n][h].stage = "done" => Known(n, h) /\ db[n][h].NotaryIDInCharge = n

\* What is known of the lock is known once it is set.
LockSet(h)     == \E n \in Notaries : session[n][h].stage \in Mined
TellsOfLock(e) == /\ e.name \in Prepares => \E h \in Hash : SetFor(e.account, h)
                  /\ e.name = "Queried" /\ e.lock.SecretHash \in Hash => LockSet(e.lock.SecretHash)
MailOfLocks == \A n \in Notaries : \A e \in inbox[n][Second] : TellsOfLock(e)
RecordedLocks == \A n \in Notaries : \A h \in DOMAIN db[n] : SideStatus(db[n][h]) = "Lock" => LockSet(h)

Shared == Signed /\ Named /\ TookCharge /\ MailOfLocks /\ RecordedLocks

-----------------------------------------------------------------------------
LEMMA SharedGoesOn ==
    ASSUME Typed, Typed', Shared, UNCHANGED direction, MinedStay, Signed', Named', TookCharge',
           \A n \in Notaries : \A e \in inbox'[n][Second] : e \in inbox[n][Second] \/ TellsOfLock(e),
           \A n \in Notaries : \A h \in DOMAIN db'[n] : SideStatus(db'[n][h]) = "Lock" =>
              LockSet(h) \/ (h \in DOMAIN db[n] /\ SideStatus(db[n][h]) = "Lock")
    PROVE  Shared'
<1>0. \A h \in Hash : LockSet(h) => LockSet(h)'
  BY DEF MinedStay, LockSet
<1>1. MailOfLocks'
  <2> SUFFICES ASSUME NEW n \in Notaries, NEW e \in inbox'[n][Second] PROVE TellsOfLock(e)'
    BY SidesStay DEF MailOfLocks
  <2>1. TellsOfLock(e)
    BY DEF Shared, MailOfLocks
  <2>2. ASSUME e.name \in Prepares PROVE \E h \in Hash : SetFor(e.account, h)'
    <3>1. PICK h \in Hash : SetFor(e.account, h)
      BY <2>1, <2>2 DEF TellsOfLock
    <3> QED
      BY <3>1, SettledStays
  <2>3. ASSUME e.name = "Queried", e.lock.SecretHash \in Hash PROVE LockSet(e.lock.SecretHash)'
    BY <1>0, <2>1, <2>3 DEF TellsOfLock
  <2> QED
    BY <2>2, <2>3 DEF TellsOfLock
<1>2. RecordedLocks'
  <2> SUFFICES ASSUME NEW n \in Notaries, NEW h \in DOMAIN db'[n], SideStatus(db'[n][h]) = "Lock"
               PROVE  LockSet(h)'
    BY SidesStay DEF RecordedLocks
  <2>1. h \in Hash
    BY DEF Typed, InNotaries, RecordsTyped
  <2>2. LockSet(h)
    BY DEF Shared, RecordedLocks
  <2> QED
    BY <1>0, <2>1, <2>2
<1> QED
  BY <1>1, <1>2 DEF Shared

-----------------------------------------------------------------------------
\* What a handler may make of a record: who is in charge stays.
StaysInCharge(h, old, new) == /\ new.NotaryIDInCharge = old.NotaryIDInCharge
                              /\ SideStatus(new) = "Lock" => SideStatus(old) = "Lock" \/ LockSet(h)

LEMMA HandledKeepsShared ==
    ASSUME Typed, Typed', Shared, UNCHANGED <<direction, session>>,
           \A m \in Notaries :
              /\ DOMAIN db[m] \subseteq DOMAIN db'[m]
              /\ \A h \in DOMAIN db'[m] : IF h \in DOMAIN db[m] THEN StaysInCharge(h, db[m][h], db'[m][h])
                                          ELSE /\ SideStatus(db'[m][h]) # "Lock"
                                               /\ db'[m][h].NotaryIDInCharge = Nobody,
           \A m \in Notaries : \A x \in inbox'[m][Second] : x \in inbox[m][Second] \/ TellsOfLock(x)
    PROVE  Shared'
<1>1. MinedStay
  BY DEF MinedStay
<1>2. Signed'
  <2> SUFFICES ASSUME NEW n \in Notaries, NEW h \in Hash
               PROVE  /\ n \notin session[n][h].asked \cup session[n][h].agreed
                      /\ \A m \in session[n][h].agreed : Known(m, h)' /\ db'[m][h].NotaryIDInCharge # Nobody
                      /\ session[n][h].stage \in {"sent", "mined", "done"} =>
                            Notaries \ {n} \subseteq session[n][h].agreed
    BY DEF Signed
  <2>1. session[n][h].agreed \subseteq Notaries
    BY HashVocabulary DEF Typed, InNotaries, SessionsTyped, SessionOK, SessionRecord
  <2> QED
    BY <2>1 DEF Shared, Signed, Known, StaysInCharge
<1>3. Named'
  <2> SUFFICES ASSUME NEW n \in Notaries, NEW h \in DOMAIN db'[n]
               PROVE  db'[n][h].NotaryIDInCharge \in InChargeOf(h)
    BY DEF Named, InChargeOf, Requested
  <2>1. CASE h \in DOMAIN db[n]
    BY <2>1 DEF Shared, Named, StaysInCharge
  <2>2. CASE h \notin DOMAIN db[n]
    BY <2>2 DEF InChargeOf
  <2> QED
    BY <2>1, <2>2
<1>4. TookCharge'
  BY DEF Shared, TookCharge, Known, StaysInCharge
<1>5. \A n \in Notaries : \A h \in DOMAIN db'[n] : SideStatus(db'[n][h]) = "Lock" =>
         LockSet(h) \/ (h \in DOMAIN db[n] /\ SideStatus(db[n][h]) = "Lock")
  BY DEF StaysInCharge
<1> QED
  BY <1>1, <1>2, <1>3, <1>4, <1>5, SharedGoesOn

LEMMA RefusedKeepsShared ==
    ASSUME Typed, Typed', Shared, UNCHANGED direction,
           NEW n \in Notaries, NEW c \in Chains, NEW e \in inbox[n][c], Refuse(n, c, e)
    PROVE  Shared'
<1>1. UNCHANGED <<session, db>>
  BY DEF Refuse
<1>2. \A m \in Notaries : inbox'[m][Second] \subseteq inbox[m][Second]
  BY DEF Refuse, Handled, Typed, InNotaries, MailTyped, Second, Chains
<1> QED
  BY <1>1, <1>2, HandledKeepsShared DEF StaysInCharge

LEMMA RecordedKeepsShared ==
    ASSUME Typed, Typed', Shared, UNCHANGED direction, AllUp',
           NEW n \in Notaries, NEW c \in Chains, NEW e \in inbox[n][c],
           NEW hash, Known(n, hash), NEW info, NEW txs, Record(n, c, e, hash, info, txs),
           StaysInCharge(hash, db[n][hash], info)
    PROVE  Shared'
<1>1. hash \in dealing[n]
  BY DEF Record, Panic, Stop, AllUp, Typed, InNotaries, PollingTyped
<1>2. update(n, hash, info) /\ Handled(n, c, e) /\ UNCHANGED session
  BY <1>1 DEF Record
<1>3. \A m \in Notaries : inbox'[m][Second] \subseteq inbox[m][Second]
  BY <1>2 DEF Handled, Typed, InNotaries, MailTyped, Second, Chains
<1>4. \A m \in Notaries :
         /\ DOMAIN db'[m] = DOMAIN db[m]
         /\ \A h \in DOMAIN db[m] : db'[m][h] = IF m = n /\ h = hash THEN info ELSE db[m][h]
  BY <1>2, OneRecordGoesOn
<1>5. \A m \in Notaries : \A h \in DOMAIN db'[m] : StaysInCharge(h, db[m][h], db'[m][h])
  BY <1>4 DEF StaysInCharge
<1> QED
  BY <1>2, <1>3, <1>4, <1>5, HandledKeepsShared

LEMMA RegisteredKeepsShared ==
    ASSUME Typed, Typed', Shared, UNCHANGED <<direction, session>>,
           NEW n \in Notaries, NEW c \in Chains, NEW e \in inbox[n][c], Handled(n, c, e),
           NEW hash, ~Known(n, hash), NEW info, register(n, hash, info), SideStatus(info) # "Lock",
           info.NotaryIDInCharge = Nobody
    PROVE  Shared'
<1>1. \A m \in Notaries : inbox'[m][Second] \subseteq inbox[m][Second]
  BY DEF Handled, Typed, InNotaries, MailTyped, Second, Chains
<1>2. \A m \in Notaries :
         /\ DOMAIN db[m] \subseteq DOMAIN db'[m]
         /\ \A h \in DOMAIN db[m] : db'[m][h] = db[m][h]
         /\ \A h \in DOMAIN db'[m] : h \in DOMAIN db[m] \/ (h = hash /\ db'[m][h] = info)
  BY DEF register, Typed, InNotaries, RecordsTyped, Known
<1> QED
  BY <1>1, <1>2, HandledKeepsShared DEF StaysInCharge

LEMMA NewBlockKeepsShared ==
    ASSUME Typed, Typed', Shared, UNCHANGED <<direction, session>>,
           NEW n \in Notaries, NEW c \in Chains, NEW e \in inbox[n][c], Handled(n, c, e),
           NEW expired,
           \/ db' = [db EXCEPT ![n] = [h \in DOMAIN db[n] |->
                       IF h \in expired THEN [db[n][h] EXCEPT !.MCLockStatus = "Expiration"] ELSE db[n][h]]]
           \/ db' = [db EXCEPT ![n] = [h \in DOMAIN db[n] |->
                       IF h \in expired THEN [db[n][h] EXCEPT !.SCLockStatus = "Expiration"] ELSE db[n][h]]]
    PROVE  Shared'
<1>1. \A m \in Notaries : inbox'[m][Second] \subseteq inbox[m][Second]
  BY DEF Handled, Typed, InNotaries, MailTyped, Second, Chains
<1>2. ASSUME NEW h, NEW info \in LockInfo
      PROVE  /\ StaysInCharge(h, info, [info EXCEPT !.MCLockStatus = "Expiration"])
             /\ StaysInCharge(h, info, [info EXCEPT !.SCLockStatus = "Expiration"])
             /\ StaysInCharge(h, info, info)
  BY DEF LockInfo, StaysInCharge, SideStatus
<1>3. ASSUME NEW m \in Notaries, NEW h \in DOMAIN db'[m]
      PROVE  h \in DOMAIN db[m] /\ StaysInCharge(h, db[m][h], db'[m][h])
  <2>1. /\ h \in DOMAIN db[m]
        /\ db'[m][h] \in {db[m][h], [db[m][h] EXCEPT !.MCLockStatus = "Expiration"],
                          [db[m][h] EXCEPT !.SCLockStatus = "Expiration"]}
    BY DEF Typed, InNotaries, RecordsTyped
  <2>2. PICK info \in LockInfo : info = db[m][h]
    BY <2>1 DEF Typed, InNotaries, RecordsTyped, RecordOK
  <2>3. PICK new : new = db'[m][h]
    OBVIOUS
  <2>4. /\ StaysInCharge(h, info, [info EXCEPT !.MCLockStatus = "Expiration"])
        /\ StaysInCharge(h, info, [info EXCEPT !.SCLockStatus = "Expiration"])
        /\ StaysInCharge(h, info, info)
    BY <1>2
  <2>5. new \in {info, [info EXCEPT !.MCLockStatus = "Expiration"], [info EXCEPT !.SCLockStatus = "Expiration"]}
    BY <2>1, <2>2, <2>3
  <2>6. StaysInCharge(h, info, new)
    BY <2>4, <2>5
  <2> QED
    BY <2>1, <2>2, <2>3, <2>6
<1>4. \A m \in Notaries : DOMAIN db[m] \subseteq DOMAIN db'[m]
  BY DEF Typed, InNotaries, RecordsTyped
<1> QED
  BY <1>1, <1>3, <1>4, HandledKeepsShared

\* The lock found at an account is of the transfer that the event is about.
LEMMA AskedKeepsShared ==
    ASSUME Typed, Typed', Accounted, Shared, OwnAccounts, UNCHANGED direction,
           NEW n \in Notaries, NEW c \in Chains, NEW e \in inbox[n][c], e.name \in Prepares,
           NEW lock, c = Second => lock = SideLocks[e.account], Query(n, c, e, lock)
    PROVE  Shared'
<1> DEFINE new == [name |-> "Queried", account |-> e.account, block |-> e.block, lock |-> lock]
<1>1. UNCHANGED <<db, session>>
  BY DEF Query
<1>2. \A m \in Notaries, d \in Chains :
         inbox'[m][d] = IF m = n /\ d = c THEN (inbox[n][c] \ {e}) \cup {new} ELSE inbox[m][d]
  BY DEF Query, Typed, InNotaries, MailTyped
<1>3. Second \in Chains /\ e.account \in Users
  BY MailIsTyped DEF Second, Chains, EventOK, Prepares
<1>4. ASSUME c = Second PROVE TellsOfLock(new)
  <2> SUFFICES ASSUME NEW h \in Hash, lock.SecretHash = h PROVE LockSet(h)
    BY DEF TellsOfLock, Prepares
  <2>1. PICK k \in Hash : SetFor(e.account, k)
    BY <1>4 DEF Shared, MailOfLocks, TellsOfLock
  <2>2. SetFor(e.account, h)
    BY <1>3, <1>4 DEF Accounted, SideAccounts
  <2>3. h = k
    BY <2>1, <2>2 DEF SetFor, OwnAccounts, Requested, Mined
  <2> QED
    BY <2>1, <2>3 DEF SetFor, LockSet
<1> HIDE DEF new
<1>5. \A m \in Notaries : \A x \in inbox'[m][Second] : x \in inbox[m][Second] \/ TellsOfLock(x)
  BY <1>2, <1>3, <1>4
<1> QED
  BY <1>1, <1>5, HandledKeepsShared DEF StaysInCharge

\* What is polled is of locks that are set.
LEMMA PollKeepsShared ==
    ASSUME Typed, Typed', Timed, Accounted, Shared, UNCHANGED direction,
           NEW n \in Notaries, NEW c \in Chains, Poll(n, c)
    PROVE  Shared'
<1>1. UNCHANGED <<db, session>>
  BY DEF Poll
<1>2. \A m \in Notaries, d \in Chains : \A x \in inbox'[m][d] :
         x \in inbox[m][d] \/ x.name = "NewBlock" \/ (x \in Log(d) /\ x.block <= Newest(d))
  BY DEF Poll, Typed, InNotaries, MailTyped
<1>3. \A m \in Notaries : \A x \in inbox'[m][Second] : x \in inbox[m][Second] \/ TellsOfLock(x)
  <2> SUFFICES ASSUME NEW m \in Notaries, NEW x \in inbox'[m][Second], x \notin inbox[m][Second]
               PROVE  TellsOfLock(x)
    OBVIOUS
  <2>1. Second \in Chains
    BY DEF Second, Chains
  <2>2. x.name = "NewBlock" \/ (x \in Log(Second) /\ x.block <= Newest(Second))
    BY <1>2, <2>1
  <2>3. x.name # "Queried"
    BY <2>1, <2>2 DEF Timed, LogsNamed
  <2>4. x.name \in Prepares => \E h \in Hash : SetFor(x.account, h)
    BY <2>2 DEF Accounted, LoggedPrepares, Prepares
  <2> QED
    BY <2>3, <2>4 DEF TellsOfLock
<1> QED
  BY <1>1, <1>3, HandledKeepsShared DEF StaysInCharge

LEMMA LockinHandlerKeepsShared ==
    ASSUME Typed, Typed', OwnAccounts, Accounted, Shared, AllUp', Inward, UNCHANGED direction,
           NEW n \in Notaries, NEW c \in Chains, NEW e \in inbox[n][c], HandleLockin(n, c, e)
    PROVE  Shared'
<1>0. /\ Second = "sc" /\ SideLocks = scLockin /\ \A info : SideStatus(info) = info.SCLockStatus
  BY DEF Second, SideLocks, SideStatus, Inward
<1>a. ASSUME NEW hash, NEW info, NEW txs, Record(n, c, e, hash, info, txs), Known(n, hash),
             StaysInCharge(hash, db[n][hash], info)
      PROVE  Shared'
  BY <1>0, <1>a, RecordedKeepsShared
<1>b. ASSUME Refuse(n, c, e) PROVE Shared'
  BY <1>0, <1>b, RefusedKeepsShared
<1>c. \A h : Known(n, h) => db[n][h] \in LockInfo
  BY KnownIsTyped DEF RecordOK
<1> USE DEF Handling
<1>1. CASE QueryLockin(n, c, e)
  BY <1>0, <1>1, AskedKeepsShared DEF QueryLockin, Prepares
<1>2. CASE onMCNewBlockLockin(n, e) /\ c = "mc"
  <2> DEFINE expired == {h \in dealing[n] : db[n][h].MCLockStatus = "Lock" /\ e.block >= db[n][h].MCExpiration}
  <2>1. db' = [db EXCEPT ![n] = [h \in DOMAIN db[n] |->
                 IF h \in expired THEN [db[n][h] EXCEPT !.MCLockStatus = "Expiration"] ELSE db[n][h]]]
    BY <1>2 DEF onMCNewBlockLockin, LockinMCExpired
  <2> HIDE DEF expired
  <2> QED
    BY <1>0, <1>2, <2>1, NewBlockKeepsShared DEF onMCNewBlockLockin
<1>3. CASE onSCNewBlockLockin(n, e) /\ c = "sc"
  <2> DEFINE expired == {h \in dealing[n] : LockinSCExpires(db[n][h], e.block)}
  <2>1. db' = [db EXCEPT ![n] = [h \in DOMAIN db[n] |->
                 IF h \in expired THEN [db[n][h] EXCEPT !.SCLockStatus = "Expiration"] ELSE db[n][h]]]
    BY <1>3 DEF onSCNewBlockLockin
  <2> HIDE DEF expired
  <2> QED
    BY <1>0, <1>3, <2>1, NewBlockKeepsShared DEF onSCNewBlockLockin
<1>4. CASE onMCPrepareLockin4Ethereum(n, e) /\ c = "mc"
  <2>1. CASE Refuse(n, "mc", e)
    BY <1>4, <1>b, <2>1 DEF onMCPrepareLockin4Ethereum
  <2>2. CASE ~Refuse(n, "mc", e)
    BY <1>0, <1>4, <2>2, RegisteredKeepsShared DEF onMCPrepareLockin4Ethereum
  <2> QED
    BY <2>1, <2>2
<1>5. CASE onSCPrepareLockin(n, e) /\ c = "sc"
  <2> DEFINE hash == e.lock.SecretHash
             info == [db[n][hash] EXCEPT !.SCExpiration = e.lock.Expiration,
                                         !.SCLockStatus = "Lock", !.SCUserAddress = e.account]
  <2>1. CASE Refuse(n, "sc", e)
    BY <1>5, <1>b, <2>1 DEF onSCPrepareLockin
  <2>2. CASE ~Refuse(n, "sc", e)
    <3>1. /\ Record(n, c, e, hash, info, {}) /\ Known(n, hash) /\ e.name = "Queried"
      BY <1>5, <2>2 DEF onSCPrepareLockin
    <3>2. LockSet(hash)
      BY <1>0, <1>5, <3>1, KnownIsTyped DEF Shared, MailOfLocks, TellsOfLock
    <3>3. StaysInCharge(hash, db[n][hash], info)
      BY <1>c, <3>1, <3>2 DEF StaysInCharge, LockInfo
    <3> HIDE DEF info
    <3> QED
      BY <1>a, <3>1, <3>3
  <2> QED
    BY <2>1, <2>2
<1>6. CASE onSCLockinSecret(n, e) /\ c = "sc"
  <2>1. CASE Refuse(n, "sc", e)
    BY <1>6, <1>b, <2>1 DEF onSCLockinSecret
  <2>2. CASE ~Refuse(n, "sc", e)
    <3> DEFINE hash == SC!Sha256(e.secret)
               info == [db[n][hash] EXCEPT !.Secret = e.secret, !.SCLockStatus = "Unlock"]
               txs == IF ClaimsEther(n, db[n][hash])
                      THEN {[name |-> "Lockin", from |-> n, secret |-> e.secret,
                             account |-> db[n][hash].MCUserAddressHex]}
                      ELSE {}
    <3>1. Record(n, c, e, hash, info, txs) /\ Known(n, hash)
      BY <1>6, <2>2 DEF onSCLockinSecret
    <3>2. StaysInCharge(hash, db[n][hash], info)
      BY <1>0, <1>c, <3>1 DEF StaysInCharge, LockInfo
    <3> HIDE DEF hash, info, txs
    <3> QED
      BY <1>a, <3>1, <3>2
  <2> QED
    BY <2>1, <2>2
<1>7. CASE \/ onMCLockin4Ethereum(n, e) /\ c = "mc"
           \/ onMCCancelLockin4Ethereum(n, e) /\ c = "mc"
           \/ onSCCancelLockin(n, e) /\ c = "sc"
  <2>1. CASE Refuse(n, c, e)
    BY <1>7, <1>b, <2>1 DEF onMCLockin4Ethereum, onMCCancelLockin4Ethereum, onSCCancelLockin
  <2>2. CASE ~Refuse(n, c, e)
    <3>1. PICK info : /\ Record(n, c, e, e.SecretHash, info, {}) /\ Known(n, e.SecretHash)
                      /\ info \in {[db[n][e.SecretHash] EXCEPT !.MCLockStatus = "Unlock"],
                                   [db[n][e.SecretHash] EXCEPT !.MCLockStatus = "Cancel"],
                                   [db[n][e.SecretHash] EXCEPT !.SCLockStatus = "Cancel"]}
      BY <1>7, <2>2 DEF onMCLockin4Ethereum, onMCCancelLockin4Ethereum, onSCCancelLockin
    <3>2. StaysInCharge(e.SecretHash, db[n][e.SecretHash], info)
      BY <1>0, <1>c, <3>1 DEF StaysInCharge, LockInfo
    <3> QED
      BY <1>a, <3>1, <3>2
  <2> QED
    BY <2>1, <2>2
<1> QED
  BY <1>1, <1>2, <1>3, <1>4, <1>5, <1>6, <1>7 DEF HandleLockin

LEMMA LockoutHandlerKeepsShared ==
    ASSUME Typed, Typed', OwnAccounts, Accounted, Shared, AllUp', Outward, UNCHANGED direction,
           NEW n \in Notaries, NEW c \in Chains, NEW e \in inbox[n][c], HandleLockout(n, c, e)
    PROVE  Shared'
<1>0. /\ Second = "mc" /\ SideLocks = mcLockout /\ \A info : SideStatus(info) = info.MCLockStatus
  BY DEF Second, SideLocks, SideStatus, Inward, Outward
<1>a. ASSUME NEW hash, NEW info, NEW txs, Record(n, c, e, hash, info, txs), Known(n, hash),
             StaysInCharge(hash, db[n][hash], info)
      PROVE  Shared'
  BY <1>0, <1>a, RecordedKeepsShared
<1>b. ASSUME Refuse(n, c, e) PROVE Shared'
  BY <1>0, <1>b, RefusedKeepsShared
<1>c. \A h : Known(n, h) => db[n][h] \in LockInfo
  BY KnownIsTyped DEF RecordOK
<1> USE DEF Handling
<1>1. CASE QueryLockout(n, c, e)
  BY <1>0, <1>1, AskedKeepsShared DEF QueryLockout, Prepares
<1>2. CASE onMCNewBlockLockout(n, e) /\ c = "mc"
  <2> DEFINE expired == {h \in dealing[n] :
                            LockoutExpires(db[n][h].MCLockStatus, db[n][h].MCExpiration, e.block)}
  <2>1. db' = [db EXCEPT ![n] = [h \in DOMAIN db[n] |->
                 IF h \in expired THEN [db[n][h] EXCEPT !.MCLockStatus = "Expiration"] ELSE db[n][h]]]
    BY <1>2 DEF onMCNewBlockLockout
  <2> HIDE DEF expired
  <2> QED
    BY <1>0, <1>2, <2>1, NewBlockKeepsShared DEF onMCNewBlockLockout
<1>3. CASE onSCNewBlockLockout(n, e) /\ c = "sc"
  <2> DEFINE expired == {h \in dealing[n] :
                            LockoutExpires(db[n][h].SCLockStatus, db[n][h].SCExpiration, e.block)}
  <2>1. db' = [db EXCEPT ![n] = [h \in DOMAIN db[n] |->
                 IF h \in expired THEN [db[n][h] EXCEPT !.SCLockStatus = "Expiration"] ELSE db[n][h]]]
    BY <1>3 DEF onSCNewBlockLockout
  <2> HIDE DEF expired
  <2> QED
    BY <1>0, <1>3, <2>1, NewBlockKeepsShared DEF onSCNewBlockLockout
<1>4. CASE onSCPrepareLockout(n, e) /\ c = "sc"
  <2>1. CASE Refuse(n, "sc", e)
    BY <1>4, <1>b, <2>1 DEF onSCPrepareLockout
  <2>2. CASE Panic(n)
    BY <2>2 DEF Panic, Stop, AllUp, Typed, InNotaries, PollingTyped
  <2>3. CASE ~Refuse(n, "sc", e) /\ ~Panic(n)
    BY <1>0, <1>4, <2>3, RegisteredKeepsShared DEF onSCPrepareLockout
  <2> QED
    BY <2>1, <2>2, <2>3
<1>5. CASE onMCPrepareLockout4Ethereum(n, e) /\ c = "mc"
  <2> DEFINE hash == e.lock.SecretHash
             info == [db[n][hash] EXCEPT !.MCExpiration = e.lock.Expiration,
                                         !.MCLockStatus = "Lock", !.MCUserAddressHex = e.account]
  <2>1. CASE Refuse(n, "mc", e)
    BY <1>5, <1>b, <2>1 DEF onMCPrepareLockout4Ethereum
  <2>2. CASE ~Refuse(n, "mc", e)
    <3>1. /\ Record(n, c, e, hash, info, {}) /\ Known(n, hash) /\ e.name = "Queried"
      BY <1>5, <2>2 DEF onMCPrepareLockout4Ethereum
    <3>2. LockSet(hash)
      BY <1>0, <1>5, <3>1, KnownIsTyped DEF Shared, MailOfLocks, TellsOfLock
    <3>3. StaysInCharge(hash, db[n][hash], info)
      BY <1>c, <3>1, <3>2 DEF StaysInCharge, LockInfo
    <3> HIDE DEF info
    <3> QED
      BY <1>a, <3>1, <3>3
  <2> QED
    BY <2>1, <2>2
<1>6. CASE onMCLockoutSecret4Ethereum(n, e) /\ c = "mc"
  <2>1. CASE Refuse(n, "mc", e)
    BY <1>6, <1>b, <2>1 DEF onMCLockoutSecret4Ethereum
  <2>2. CASE ~Refuse(n, "mc", e)
    <3> DEFINE hash == MC!Sha256(e.secret)
               info == [db[n][hash] EXCEPT !.Secret = e.secret, !.MCLockStatus = "Unlock"]
               txs == IF ClaimsTokens(n, db[n][hash])
                      THEN {[name |-> "Lockout", from |-> n, secret |-> e.secret,
                             account |-> db[n][hash].SCUserAddress]}
                      ELSE {}
    <3>1. Record(n, c, e, hash, info, txs) /\ Known(n, hash)
      BY <1>6, <2>2 DEF onMCLockoutSecret4Ethereum
    <3>2. StaysInCharge(hash, db[n][hash], info)
      BY <1>0, <1>c, <3>1 DEF StaysInCharge, LockInfo
    <3> HIDE DEF hash, info, txs
    <3> QED
      BY <1>a, <3>1, <3>2
  <2> QED
    BY <2>1, <2>2
<1>7. CASE \/ onSCLockout(n, e) /\ c = "sc"
           \/ onSCCancelLockout(n, e) /\ c = "sc"
           \/ onMCCancelLockout4Ethereum(n, e) /\ c = "mc"
  <2>1. CASE Refuse(n, c, e)
    BY <1>7, <1>b, <2>1 DEF onSCLockout, onSCCancelLockout, onMCCancelLockout4Ethereum
  <2>2. CASE ~Refuse(n, c, e)
    <3>1. PICK info : /\ Record(n, c, e, e.SecretHash, info, {}) /\ Known(n, e.SecretHash)
                      /\ info \in {[db[n][e.SecretHash] EXCEPT !.SCLockStatus = "Unlock"],
                                   [db[n][e.SecretHash] EXCEPT !.MCLockStatus = "Cancel"],
                                   [db[n][e.SecretHash] EXCEPT !.SCLockStatus = "Cancel"]}
      BY <1>7, <2>2 DEF onSCLockout, onSCCancelLockout, onMCCancelLockout4Ethereum
    <3>2. StaysInCharge(e.SecretHash, db[n][e.SecretHash], info)
      BY <1>0, <1>c, <3>1 DEF StaysInCharge, LockInfo
    <3> QED
      BY <1>a, <3>1, <3>2
  <2> QED
    BY <2>1, <2>2
<1> QED
  BY <1>1, <1>2, <1>3, <1>4, <1>5, <1>6, <1>7 DEF HandleLockout

\* A step of one session; whoever is put in charge was asked.
LEMMA SessionKeepsShared ==
    ASSUME Typed, Typed', Shared, UNCHANGED <<direction, inbox>>,
           NEW n \in Notaries, NEW h \in Hash, NEW s, session' = [session EXCEPT ![n][h] = s],
           s.stage # "idle", n \notin s.asked \cup s.agreed,
           session[n][h].stage \in Mined => s.stage \in Mined /\ s.account = session[n][h].account,
           s.stage \in {"sent", "mined", "done"} => Notaries \ {n} \subseteq s.agreed,
           \A m \in s.agreed : m \in session[n][h].agreed
                               \/ (Known(m, h) /\ db'[m][h].NotaryIDInCharge = n),
           s.stage = "done" => Known(n, h) /\ db'[n][h].NotaryIDInCharge = n,
           \A m \in Notaries :
              /\ DOMAIN db'[m] = DOMAIN db[m]
              /\ \A k \in DOMAIN db[m] :
                    /\ SideStatus(db'[m][k]) = SideStatus(db[m][k])
                    /\ \/ db'[m][k].NotaryIDInCharge = db[m][k].NotaryIDInCharge
                       \/ k = h /\ db'[m][k].NotaryIDInCharge = n /\ OneAsked'
    PROVE  Shared'
<1>1. /\ session'[n][h] = s
      /\ \A m \in Notaries, k \in Hash : m # n \/ k # h => session'[m][k] = session[m][k]
      /\ DOMAIN db'[n] \subseteq Hash /\ n # Nobody
  BY HashVocabulary, NobodyIsNoAccount DEF Typed, InNotaries, SessionsTyped, RecordsTyped
<1>2. MinedStay
  BY <1>1 DEF MinedStay
<1>3. Signed'
  <2> SUFFICES ASSUME NEW a \in Notaries, NEW k \in Hash
               PROVE  /\ a \notin session'[a][k].asked \cup session'[a][k].agreed
                      /\ \A m \in session'[a][k].agreed : Known(m, k)' /\ db'[m][k].NotaryIDInCharge # Nobody
                      /\ session'[a][k].stage \in {"sent", "mined", "done"} =>
                            Notaries \ {a} \subseteq session'[a][k].agreed
    BY DEF Signed
  <2>1. session[a][k].agreed \subseteq Notaries /\ session'[a][k].agreed \subseteq Notaries
    BY HashVocabulary DEF Typed, InNotaries, SessionsTyped, SessionOK, SessionRecord
  <2>2. ASSUME NEW m \in session'[a][k].agreed
        PROVE  Known(m, k)' /\ db'[m][k].NotaryIDInCharge # Nobody
    <3>1. CASE m \in session[a][k].agreed
      BY <1>1, <2>1, <3>1 DEF Shared, Signed, Known
    <3>2. CASE m \notin session[a][k].agreed
      <4>1. a = n /\ k = h
        BY <1>1, <2>2, <3>2
      <4> QED
        BY <1>1, <2>1, <2>2, <3>2, <4>1 DEF Known
    <3> QED
      BY <3>1, <3>2
  <2>3. CASE a = n /\ k = h
    BY <1>1, <2>2, <2>3
  <2>4. CASE ~(a = n /\ k = h)
    BY <1>1, <2>2, <2>4 DEF Shared, Signed
  <2> QED
    BY <2>3, <2>4
<1>4. Named'
  <2> SUFFICES ASSUME NEW m \in Notaries, NEW k \in DOMAIN db'[m]
               PROVE  db'[m][k].NotaryIDInCharge \in InChargeOf(k)'
    BY DEF Named
  <2>1. k \in Hash /\ k \in DOMAIN db[m]
    BY DEF Typed, InNotaries, RecordsTyped
  <2>2. InChargeOf(k) \subseteq InChargeOf(k)'
    BY <1>1, <2>1 DEF InChargeOf, Requested
  <2>3. n \in InChargeOf(h)'
    BY <1>1 DEF InChargeOf, Requested
  <2> QED
    BY <2>1, <2>2, <2>3 DEF Shared, Named
<1>5. TookCharge'
  <2> SUFFICES ASSUME NEW m \in Notaries, NEW k \in Hash, session'[m][k].stage = "done"
               PROVE  Known(m, k)' /\ db'[m][k].NotaryIDInCharge = m
    BY DEF TookCharge
  <2>1. CASE m = n /\ k = h
    BY <1>1, <2>1 DEF Known
  <2>2. CASE ~(m = n /\ k = h)
    <3>1. Known(m, k) /\ db[m][k].NotaryIDInCharge = m
      BY <1>1, <2>2 DEF Shared, TookCharge
    <3>2. k = h => ~OneAsked'
      BY <1>1, <2>2 DEF OneAsked, Requested
    <3> QED
      BY <3>1, <3>2 DEF Known
  <2> QED
    BY <2>1, <2>2
<1>6. /\ \A m \in Notaries : \A x \in inbox'[m][Second] : x \in inbox[m][Second] \/ TellsOfLock(x)
      /\ \A m \in Notaries : \A k \in DOMAIN db'[m] : SideStatus(db'[m][k]) = "Lock" =>
            LockSet(k) \/ (k \in DOMAIN db[m] /\ SideStatus(db[m][k]) = "Lock")
  OBVIOUS
<1> QED
  BY <1>2, <1>3, <1>4, <1>5, <1>6, SharedGoesOn

LEMMA AnswerKeepsShared ==
    ASSUME Typed, Typed', OneAsked', Timed, Shared, UNCHANGED direction,
           NEW n \in Notaries, NEW m \in Notaries, NEW h \in Hash, NEW agrees, NEW info,
           Answer(n, m, h, agrees, info),
           agrees => /\ Known(m, h) /\ SideStatus(info) = SideStatus(db[m][h])
                     /\ info.NotaryIDInCharge = n
    PROVE  Shared'
<1>1. m \in session[n][h].asked /\ SessionOK(session[n][h]) /\ h \in MC!Hashes
  BY HashVocabulary DEF Answer, Typed, InNotaries, SessionsTyped
<1>2. m # n /\ session[n][h].stage # "idle"
  BY <1>1 DEF Timed, SessionsTimed, Requested, Shared, Signed
<1>3. PICK s : /\ session' = [session EXCEPT ![n][h] = s]
               /\ s.stage = session[n][h].stage /\ s.account = session[n][h].account
               /\ s.asked \subseteq session[n][h].asked
               /\ s.agreed = IF agrees THEN session[n][h].agreed \cup {m} ELSE session[n][h].agreed
  <2>1. CASE agrees
    <3> DEFINE t == [session[n][h] EXCEPT !.asked = @ \ {m}, !.agreed = @ \cup {m}]
    <3>1. session' = [session EXCEPT ![n][h] = t]
      BY <1>1, <2>1 DEF Answer, Typed, InNotaries, SessionsTyped
    <3>2. /\ t.stage = session[n][h].stage /\ t.account = session[n][h].account
          /\ t.asked \subseteq session[n][h].asked
          /\ t.agreed = session[n][h].agreed \cup {m}
      BY <1>1 DEF SessionOK, SessionRecord
    <3> HIDE DEF t
    <3> QED
      BY <2>1, <3>1, <3>2
  <2>2. CASE ~agrees
    <3> DEFINE t == [session[n][h] EXCEPT !.asked = @ \ {m}]
    <3>1. session' = [session EXCEPT ![n][h] = t]
      BY <2>2 DEF Answer
    <3>2. /\ t.stage = session[n][h].stage /\ t.account = session[n][h].account
          /\ t.asked \subseteq session[n][h].asked
          /\ t.agreed = session[n][h].agreed
      BY <1>1 DEF SessionOK, SessionRecord
    <3> HIDE DEF t
    <3> QED
      BY <2>2, <3>1, <3>2
  <2> QED
    BY <2>1, <2>2
<1>4. \A a \in Notaries :
         /\ DOMAIN db'[a] = DOMAIN db[a]
         /\ \A k \in DOMAIN db[a] : db'[a][k] = IF agrees /\ a = m /\ k = h THEN info ELSE db[a][k]
  <2>1. CASE agrees
    BY <2>1, OneRecordGoesOn DEF Answer
  <2>2. CASE ~agrees
    BY <2>2 DEF Answer
  <2> QED
    BY <2>1, <2>2
<1>5. \A a \in Notaries :
         /\ DOMAIN db'[a] = DOMAIN db[a]
         /\ \A k \in DOMAIN db[a] :
               /\ SideStatus(db'[a][k]) = SideStatus(db[a][k])
               /\ \/ db'[a][k].NotaryIDInCharge = db[a][k].NotaryIDInCharge
                  \/ k = h /\ db'[a][k].NotaryIDInCharge = n /\ OneAsked'
  BY <1>4
<1>6. \A a \in s.agreed : a \in session[n][h].agreed
                          \/ (Known(a, h) /\ db'[a][h].NotaryIDInCharge = n)
  BY <1>3, <1>4 DEF Known
<1>7. /\ n \notin s.asked \cup s.agreed
      /\ s.stage \in {"sent", "mined", "done"} => Notaries \ {n} \subseteq s.agreed
      /\ s.stage = "done" => Known(n, h) /\ db'[n][h].NotaryIDInCharge = n
  BY <1>2, <1>3, <1>4 DEF Shared, Signed, TookCharge, Known
<1>8. UNCHANGED inbox
  BY DEF Answer
<1> QED
  BY <1>2, <1>3, <1>5, <1>6, <1>7, <1>8, SessionKeepsShared

\* With the threshold everybody else has signed.
LEMMA AllHaveSigned ==
    ASSUME AllSign, NEW n \in Notaries, NEW agreed, agreed \subseteq Notaries \ {n},
           Cardinality(agreed) >= Threshold
    PROVE  agreed = Notaries \ {n}
<1>1. IsFiniteSet(Notaries \ {n}) /\ Cardinality(Notaries \ {n}) = Threshold
  <2>1. IsFiniteSet(Notaries) /\ Cardinality(Notaries) = Threshold + 1
    BY DEF AllSign
  <2>2. IsFiniteSet(Notaries \ {n}) /\ Cardinality(Notaries \ {n}) = Cardinality(Notaries) - 1
    BY <2>1, FS_RemoveElement
  <2> QED
    BY <2>1, <2>2, CrossChainNumbers
<1>2. IsFiniteSet(agreed) /\ Cardinality(agreed) <= Cardinality(Notaries \ {n})
  BY <1>1, FS_Subset
<1>3. Cardinality(agreed) \in Nat
  BY <1>2, FS_CardinalityType
<1> QED
  BY <1>1, <1>2, <1>3, FS_Subset, CrossChainNumbers

LEMMA CallKeepsShared ==
    ASSUME AllSign, Typed, Typed', Shared, UNCHANGED direction, NEW n \in Notaries, NEW h \in Hash,
           NEW name \in Prepares, callPrepare(n, h, name)
    PROVE  Shared'
<1>1. PICK old \in SessionRecord : old = session[n][h] /\ old.stage = "signing"
  BY HashVocabulary DEF callPrepare, Typed, InNotaries, SessionsTyped, SessionOK
<1>2. PICK sent \in BOOLEAN :
         /\ session' = [session EXCEPT ![n][h] = [old EXCEPT !.stage = IF sent THEN "sent" ELSE "failed"]]
         /\ sent => Cardinality(old.agreed) >= Threshold
  BY <1>1, CrossChainNumbers DEF callPrepare
<1>3. PICK s : /\ s = [old EXCEPT !.stage = IF sent THEN "sent" ELSE "failed"]
               /\ session' = [session EXCEPT ![n][h] = s]
  BY <1>2
<1>4. /\ s.stage = IF sent THEN "sent" ELSE "failed"
      /\ s.asked = old.asked /\ s.agreed = old.agreed
  BY <1>3 DEF SessionRecord
<1>5. n \notin s.asked \cup s.agreed /\ s.agreed \subseteq Notaries \ {n}
  BY <1>1, <1>4 DEF Shared, Signed, SessionRecord
<1>6. s.stage \in {"sent", "mined", "done"} => Notaries \ {n} \subseteq s.agreed
  BY <1>2, <1>4, <1>5, AllHaveSigned
<1>7. UNCHANGED <<inbox, db>>
  BY DEF callPrepare
<1>8. /\ s.stage \in {"sent", "failed"} /\ session[n][h].stage \notin Mined
      /\ \A m \in s.agreed : m \in session[n][h].agreed
      /\ \A m \in Notaries : /\ DOMAIN db'[m] = DOMAIN db[m]
                             /\ \A k \in DOMAIN db[m] : db'[m][k] = db[m][k]
  BY <1>1, <1>4, <1>7 DEF Mined
<1> QED
  BY <1>3, <1>5, <1>6, <1>7, <1>8, SessionKeepsShared

LEMMA ChargeKeepsShared ==
    ASSUME Typed, Typed', OneAsked', Shared, AllUp', UNCHANGED direction,
           NEW n \in Notaries, NEW h \in Hash, takeCharge(n, h)
    PROVE  Shared'
<1>1. PICK old \in SessionRecord : old = session[n][h] /\ old.stage = "mined"
  BY HashVocabulary DEF takeCharge, Receipted, Typed, InNotaries, SessionsTyped, SessionOK
<1>2. h \in dealing[n] /\ Known(n, h)
  BY DEF takeCharge, Stop, AllUp, Typed, InNotaries, PollingTyped, DealingTyped, Known
<1>3. PICK s : s = [old EXCEPT !.stage = "done"] /\ session' = [session EXCEPT ![n][h] = s]
  BY <1>1, <1>2 DEF takeCharge
<1>4. s.stage = "done" /\ s.account = old.account /\ s.asked = old.asked /\ s.agreed = old.agreed
  BY <1>3 DEF SessionRecord
<1>5. n \notin s.asked \cup s.agreed /\ Notaries \ {n} \subseteq s.agreed
  BY <1>1, <1>4 DEF Shared, Signed
<1> DEFINE info == [db[n][h] EXCEPT !.NotaryIDInCharge = n]
<1>6. info.NotaryIDInCharge = n /\ SideStatus(info) = SideStatus(db[n][h])
  BY <1>2, KnownIsTyped DEF RecordOK, LockInfo, SideStatus
<1>7. \A m \in Notaries : /\ DOMAIN db'[m] = DOMAIN db[m]
                          /\ \A k \in DOMAIN db[m] :
                               db'[m][k] = IF m = n /\ k = h THEN info ELSE db[m][k]
  BY <1>2, OneRecordGoesOn DEF takeCharge
<1> HIDE DEF info
<1>8. UNCHANGED inbox /\ db'[n][h].NotaryIDInCharge = n
  BY <1>2, <1>6, <1>7 DEF takeCharge, Known
<1>9. \A m \in Notaries :
         /\ DOMAIN db'[m] = DOMAIN db[m]
         /\ \A k \in DOMAIN db[m] :
               /\ SideStatus(db'[m][k]) = SideStatus(db[m][k])
               /\ \/ db'[m][k].NotaryIDInCharge = db[m][k].NotaryIDInCharge
                  \/ k = h /\ db'[m][k].NotaryIDInCharge = n /\ OneAsked'
  BY <1>6, <1>7
<1>10. /\ s.stage = "done" /\ s.stage \in Mined /\ s.account = session[n][h].account
       /\ \A m \in s.agreed : m \in session[n][h].agreed
       /\ session' = [session EXCEPT ![n][h] = s]
  BY <1>1, <1>3, <1>4 DEF Mined
<1> QED
  BY <1>2, <1>5, <1>8, <1>9, <1>10, SessionKeepsShared

LEMMA RequestKeepsShared ==
    ASSUME Typed, Typed', Shared, UNCHANGED direction, NEW n \in Notaries, NEW h \in Hash,
           NEW user, NEW account, NEW expiration, OpenSession(n, h, user, account, expiration)
    PROVE  Shared'
<1>1. PICK s : /\ session' = [session EXCEPT ![n][h] = s]
               /\ s.stage = "signing" /\ s.agreed = {} /\ s.asked = Notaries \ {n}
  <2> DEFINE t == [stage |-> "signing", asked |-> Notaries \ {n}, agreed |-> {},
                   user |-> user, account |-> account, expiration |-> expiration,
                   amount |-> db[n][h].Amount - calculateCrossFee(db[n][h].Amount),
                   receipt |-> Idle.receipt]
  <2>1. session' = [session EXCEPT ![n][h] = t]
    BY DEF OpenSession
  <2>2. t.stage = "signing" /\ t.agreed = {} /\ t.asked = Notaries \ {n}
    OBVIOUS
  <2> HIDE DEF t
  <2> QED
    BY <2>1, <2>2
<1>2. UNCHANGED <<inbox, db>> /\ session[n][h].stage = "idle"
  BY DEF OpenSession
<1> QED
  BY <1>1, <1>2, SessionKeepsShared DEF Mined

LEMMA NotaryKeepsShared ==
    ASSUME AllSign, Typed, Typed', OwnAccounts, OneAsked', Timed, Accounted, Shared, AllUp',
           NEW n \in Notaries, NotaryStep(n)
    PROVE  Shared'
<1>0. UNCHANGED direction
  BY DEF NotaryStep
<1>1. ASSUME NEW c \in Chains, Poll(n, c) PROVE Shared'
  BY <1>0, <1>1, PollKeepsShared
<1>2. ASSUME NEW h \in Hash, callSCPrepareLockin(n, h) \/ callMCPrepareLockout(n, h) \/ takeCharge(n, h)
      PROVE  Shared'
  BY <1>0, <1>2, CallKeepsShared, ChargeKeepsShared
  DEF callSCPrepareLockin, callMCPrepareLockout, Prepares
<1>3. ASSUME Inward, NEW m \in Notaries, NEW h \in Hash, checkPrepareLockin(n, m, h) PROVE Shared'
  <2> DEFINE info == LockinEndorsed(db[m][h], n, session[n][h].expiration)
             agrees == LockinSignable(m, h, session[n][h])
  <2>1. agrees => /\ Known(m, h) /\ SideStatus(info) = SideStatus(db[m][h])
                  /\ info.NotaryIDInCharge = n
    BY <1>3, KnownIsTyped
    DEF LockinSignable, LockinRequested, RecordOK, LockinEndorsed, LockInfo, SideStatus
  <2>2. Answer(n, m, h, agrees, info)
    BY <1>3 DEF checkPrepareLockin
  <2> HIDE DEF info, agrees
  <2> QED
    BY <1>0, <2>1, <2>2, AnswerKeepsShared
<1>4. ASSUME Outward, NEW m \in Notaries, NEW h \in Hash, checkPrepareLockout(n, m, h) PROVE Shared'
  <2> DEFINE info == LockoutEndorsed(db[m][h], n, session[n][h].expiration)
             agrees == LockoutSignable(m, h, session[n][h])
  <2>1. agrees => /\ Known(m, h) /\ SideStatus(info) = SideStatus(db[m][h])
                  /\ info.NotaryIDInCharge = n
    BY <1>4, KnownIsTyped
    DEF LockoutSignable, LockoutRequested, RecordOK, LockoutEndorsed, LockInfo, SideStatus
  <2>2. Answer(n, m, h, agrees, info)
    BY <1>4 DEF checkPrepareLockout
  <2> HIDE DEF info, agrees
  <2> QED
    BY <1>0, <2>1, <2>2, AnswerKeepsShared
<1>5. CASE Inward /\ LockinNotaryStep(n)
  <2>1. ASSUME NEW c \in Chains, NEW e \in inbox[n][c], HandleLockin(n, c, e) PROVE Shared'
    BY <1>0, <1>5, <2>1, LockinHandlerKeepsShared
  <2>2. CASE LockinSessionStep(n)
    BY <1>2, <1>3, <1>5, <2>2 DEF LockinSessionStep, Hash
  <2> QED
    BY <1>1, <1>5, <2>1, <2>2 DEF LockinNotaryStep
<1>6. CASE Outward /\ LockoutNotaryStep(n)
  <2>1. ASSUME NEW c \in Chains, NEW e \in inbox[n][c], HandleLockout(n, c, e) PROVE Shared'
    BY <1>0, <1>6, <2>1, LockoutHandlerKeepsShared
  <2>2. CASE LockoutSessionStep(n)
    BY <1>2, <1>4, <1>6, <2>2, HashVocabulary DEF LockoutSessionStep
  <2> QED
    BY <1>1, <1>6, <2>1, <2>2 DEF LockoutNotaryStep
<1> QED
  BY <1>5, <1>6 DEF NotaryStep

\* Steps on the chains: sessions find out how their transactions ended.
LEMMA ChainKeepsShared ==
    ASSUME Typed, Typed', Shared, UNCHANGED <<direction, db, inbox>>,
           \A n \in Notaries, h \in Hash :
              /\ session'[n][h].asked = session[n][h].asked
              /\ session'[n][h].agreed = session[n][h].agreed
              /\ session'[n][h].account = session[n][h].account
              /\ \/ session'[n][h].stage = session[n][h].stage
                 \/ session[n][h].stage = "sent" /\ session'[n][h].stage \in {"mined", "failed"}
    PROVE  Shared'
<1>1. MinedStay
  BY DEF MinedStay, Mined
<1>2. Signed'
  BY DEF Shared, Signed, Known
<1>3. Named'
  <2> SUFFICES ASSUME NEW n \in Notaries, NEW h \in DOMAIN db[n]
               PROVE  db[n][h].NotaryIDInCharge \in InChargeOf(h)'
    BY DEF Named
  <2>1. h \in Hash
    BY DEF Typed, InNotaries, RecordsTyped
  <2>2. InChargeOf(h) \subseteq InChargeOf(h)'
    BY <2>1 DEF InChargeOf, Requested
  <2> QED
    BY <2>2 DEF Shared, Named
<1>4. TookCharge'
  BY DEF Shared, TookCharge, Known
<1> QED
  BY <1>1, <1>2, <1>3, <1>4, SharedGoesOn

LEMMA UnchangedKeepsShared ==
    ASSUME Typed, Typed', Shared, UNCHANGED <<direction, db, inbox, session>>
    PROVE  Shared'
BY ChainKeepsShared

LEMMA NoticedKeepsShared ==
    ASSUME Typed, Typed', Shared, UNCHANGED <<direction, db, inbox>>,
           NEW tx \in Prepared, NEW mined \in BOOLEAN, NEW c, Noticed(tx, mined, c)
    PROVE  Shared'
<1>1. CASE session[tx.from][tx.hash].stage # "sent"
  BY <1>1, UnchangedKeepsShared DEF Noticed
<1>2. CASE session[tx.from][tx.hash].stage = "sent"
  <2>1. tx.from \in Notaries /\ tx.hash \in MC!Hashes
    BY HashVocabulary DEF Prepared
  <2>2. PICK old \in SessionRecord : old = session[tx.from][tx.hash]
    BY <2>1 DEF Typed, InNotaries, SessionsTyped, SessionOK
  <2>3. PICK r : r = [chain |-> c, block |-> Height(c)]
    OBVIOUS
  <2>4. PICK stage : stage = IF mined THEN "mined" ELSE "failed"
    OBVIOUS
  <2>5. PICK s : s = [old EXCEPT !.stage = stage, !.receipt = r]
    OBVIOUS
  <2>6. s.stage = stage /\ s.asked = old.asked /\ s.agreed = old.agreed /\ s.account = old.account
    BY <2>5 DEF SessionRecord
  <2>7. session'[tx.from][tx.hash] = s /\ \A n \in Notaries, h \in Hash :
           n # tx.from \/ h # tx.hash => session'[n][h] = session[n][h]
    <3>1. session' = [session EXCEPT ![tx.from][tx.hash].stage = stage, ![tx.from][tx.hash].receipt = r]
      BY <1>2, <2>3, <2>4 DEF Noticed
    <3>2. session'[tx.from][tx.hash] = [[old EXCEPT !.stage = stage] EXCEPT !.receipt = r]
      BY <2>1, <2>2, <3>1 DEF Typed, InNotaries, SessionsTyped
    <3>3. [[old EXCEPT !.stage = stage] EXCEPT !.receipt = r] = s
      BY <2>5 DEF SessionRecord
    <3> QED
      BY <2>1, <3>1, <3>2, <3>3, HashVocabulary DEF Typed, InNotaries, SessionsTyped
  <2> QED
    BY <1>2, <2>2, <2>4, <2>6, <2>7, ChainKeepsShared
<1> QED
  BY <1>1, <1>2

LEMMA UserKeepsShared ==
    ASSUME Typed, Typed', Shared, UserStep
    PROVE  Shared'
<1>0. UNCHANGED direction
  BY DEF UserStep
<1>a. ASSUME UNCHANGED nodeVars PROVE Shared'
  BY <1>0, <1>a, UnchangedKeepsShared DEF nodeVars
<1>1. CASE LockinUserStep
  <2>1. ASSUME NEW n \in Notaries, NEW u \in Users, NEW a \in Users, NEW h \in Hash,
               onSCPrepareLockinRequest(n, u, a, h)
        PROVE  Shared'
    BY <1>0, <2>1, RequestKeepsShared DEF onSCPrepareLockinRequest
  <2> QED
    BY <1>1, <1>a, <2>1, HashVocabulary
    DEF LockinUserStep, UserPrepareLockin, UserCancelLockin, UserLockin, OnMC, OnSC
<1>2. CASE LockoutUserStep
  <2>1. ASSUME NEW n \in Notaries, NEW u \in Users, NEW a \in Users, NEW h \in Hash,
               onMCPrepareLockoutRequest(n, u, a, h)
        PROVE  Shared'
    BY <1>0, <2>1, RequestKeepsShared DEF onMCPrepareLockoutRequest
  <2> QED
    BY <1>2, <1>a, <2>1, HashVocabulary
    DEF LockoutUserStep, UserPrepareLockout, UserCancelLockOut, CancleLockOut, UserLockout, OnMC, OnSC
<1> QED
  BY <1>1, <1>2 DEF UserStep

LEMMA MiningKeepsShared ==
    ASSUME Typed, Typed', Shared, Mining
    PROVE  Shared'
<1>0. UNCHANGED direction
  BY DEF Mining
<1>1. ASSUME NEW tx \in mempool, LockinMined(tx) PROVE Shared'
  <2>1. CASE MinedMCLockin(tx) \/ MinedSCCancelLockin(tx)
    BY <1>0, <2>1, UnchangedKeepsShared DEF MinedMCLockin, MinedSCCancelLockin, nodeVars
  <2>2. CASE MinedSCPrepareLockin(tx)
    BY <1>0, <2>2, TxKinds, NoticedKeepsShared DEF MinedSCPrepareLockin, Prepares, Prepared
  <2> QED
    BY <1>1, <2>1, <2>2 DEF LockinMined
<1>2. ASSUME NEW tx \in mempool, LockoutMined(tx) PROVE Shared'
  <2>1. CASE MinedSCLockout(tx) \/ MinedSCCancelLockOut(tx)
    BY <1>0, <2>1, UnchangedKeepsShared DEF MinedSCLockout, MinedSCCancelLockOut, nodeVars
  <2>2. CASE MinedMCPrepareLockout(tx)
    BY <1>0, <2>2, TxKinds, NoticedKeepsShared DEF MinedMCPrepareLockout, Prepares, Prepared
  <2> QED
    BY <1>2, <2>1, <2>2 DEF LockoutMined
<1> QED
  BY <1>1, <1>2 DEF Mining

LEMMA InitIsShared == Init => Shared
<1> SUFFICES ASSUME Init PROVE Shared
  OBVIOUS
<1>1. InitNotaries
  BY DEF Init, LockinInit, LockoutInit
<1>2. \A n \in Notaries, h \in Hash :
         session[n][h].stage = "idle" /\ session[n][h].asked = {} /\ session[n][h].agreed = {}
  BY <1>1, HashVocabulary DEF Idle, InitNotaries
<1>3. Signed /\ TookCharge
  BY <1>2 DEF Signed, TookCharge
<1>4. Named /\ MailOfLocks /\ RecordedLocks
  BY <1>1 DEF Named, MailOfLocks, RecordedLocks, InitNotaries, Second, Chains
<1> QED
  BY <1>3, <1>4 DEF Shared

LEMMA NextKeepsShared ==
    ASSUME AllSign, Typed, Typed', Calm, Calm', OwnAccounts, Timed, Accounted, Shared,
           [Next]_transferVars
    PROVE  Shared'
<1> USE DEF Calm
<1>1. CASE MCGrows \/ SCGrows
  BY <1>1, UnchangedKeepsShared
  DEF MCGrows, SCGrows, MCNewBlock, SCNewBlock, MC!newBlock, SC!newBlock, mcVars, scVars, nodeVars
<1>2. CASE UserStep
  BY <1>2, UserKeepsShared
<1>3. CASE Mining
  BY <1>3, MiningKeepsShared
<1>4. ASSUME NEW n \in Notaries, NotaryStep(n) PROVE Shared'
  BY <1>4, NotaryKeepsShared
<1>5. ASSUME NEW n \in Notaries PROVE ~StartStop(n)
  BY DEF StartStop, Crash, Restart, Stop, AllUp, Typed, InNotaries, PollingTyped
<1>6. CASE UNCHANGED transferVars
  BY <1>6, UnchangedKeepsShared DEF transferVars, vars, nodeVars
<1> QED
  BY <1>1, <1>2, <1>3, <1>4, <1>5, <1>6 DEF Next

(* The fourth inductive invariant: a record shows the lock of the notaries *)
(* only when a session has set it, and then whoever signed for it has      *)
(* recorded the notary that asked, and no record names another             *)
(* (NotaryIDInCharge).                                                     *)
THEOREM AlwaysShared ==
    ASSUME Timely, AllSign PROVE Spec /\ []Calm /\ []OwnAccounts => []Shared
<1>1. ASSUME Typed, Typed', Calm, Calm', OwnAccounts, Timed, Accounted, Shared, [Next]_transferVars
      PROVE  Shared'
  BY <1>1, NextKeepsShared
<1> QED
  BY <1>1, InitIsShared, AlwaysTyped, AlwaysTimed, AlwaysAccounted, PTL DEF Spec

LEMMA SharedIsAgreed ==
    ASSUME AllSign, Typed, OneAsked, Shared
    PROVE  InChargeAgreed
<1>1. PICK p \in Notaries : TRUE
  <2>1. Cardinality(Notaries) # 0
    BY CrossChainNumbers DEF AllSign
  <2> QED
    BY <2>1, FS_EmptySet
<1>2. ASSUME NEW h \in Hash, \A n \in Notaries : Known(n, h) /\ SideStatus(db[n][h]) = "Lock"
      PROVE  \E m \in Notaries : AgreedOn(m, h)
  <2>1. PICK m \in Notaries : session[m][h].stage \in Mined
    BY <1>1, <1>2 DEF Shared, RecordedLocks, LockSet, Known
  <2>2. ASSUME NEW n \in Notaries PROVE db[n][h].NotaryIDInCharge \in {Nobody, m}
    <3>1. db[n][h].NotaryIDInCharge \in {Nobody} \cup {k \in Notaries : Requested(k, h)}
      BY <1>2 DEF Shared, Named, InChargeOf, Known
    <3> QED
      BY <2>1, <3>1 DEF OneAsked, Requested, Mined
  <2>3. ASSUME NEW n \in Notaries, n # m PROVE db[n][h].NotaryIDInCharge # Nobody
    BY <2>1, <2>3 DEF Shared, Signed, Mined
  <2>4. session[m][h].stage = "done" => db[m][h].NotaryIDInCharge = m
    BY DEF Shared, TookCharge
  <2> QED
    BY <2>2, <2>3, <2>4 DEF AgreedOn
<1> QED
  BY <1>2 DEF InChargeAgreed, LockinInChargeAgreed, LockoutInChargeAgreed, SideStatus, Inward, Outward

(* InChargeAgreed: once every notary has recorded the lock set by the      *)
(* notaries, all others name the one that set it as being in charge, and   *)
(* so does its own record once it has the receipt, if one notary is asked  *)
(* per transfer, the threshold asks for the signature of every other, and  *)
(* no two transfers go to one account of the Second chain                  *)
(* (NotaryIDInCharge in service/lockin_handler.go,                         *)
(* service/lockout_handler.go).                                            *)
THEOREM InChargeIsAgreed ==
    ASSUME Timely, AllSign PROVE Spec /\ []Calm /\ []OwnAccounts => []InChargeAgreed
<1>1. Typed /\ Calm /\ Shared => InChargeAgreed
  BY SharedIsAgreed DEF Calm
<1> QED
  BY <1>1, AlwaysShared, AlwaysTyped, PTL
=============================================================================
