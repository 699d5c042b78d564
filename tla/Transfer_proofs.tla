-------------------------- MODULE Transfer_proofs --------------------------
(***************************************************************************)
(* Transfers over the bridge for any number of users, notaries, secrets,   *)
(* locks, crashes and lost transactions, and whatever the order in which   *)
(* notaries handle their events.  First types (TypeCorrectness), then what *)
(* records tell (RecordsTellTheTruth): nothing is assumed of the speed of  *)
(* notaries.  Last, that outcomes stay recorded (OutcomesAreKept), which   *)
(* needs notaries that keep up with the chains.                            *)
(***************************************************************************)
EXTENDS Transfer, FiniteSetTheorems, TLAPS

-----------------------------------------------------------------------------
(* Types.  TypeOK leaves open what inboxes hold, and for whom a record is; *)
(* both are needed to know what handlers write and send.                   *)
Uint == 0 .. UintMax

\* A lock as the bridge sets it, or none.
LockTerms == [SecretHash : Hash, Expiration : Nat, value : Uint] \cup {MC!Unlocked}

\* What a log entry or a message of the dispatcher says.
EventOK(e) == /\ e.block \in Nat
              /\ e.name # "NewBlock" => e.account \in Users
              /\ e.name = "Queried" => e.lock \in LockTerms
              /\ e.name \in {"LockinSecret", "LockoutSecret"} => e.secret \in Secrets

\* The one who started a transfer is known from the start, and the account on
\* the other chain once the notaries' lock is.
RecordOK(info) == /\ info \in LockInfo
                  /\ info.Amount \in Uint
                  /\ Inward => /\ info.MCUserAddressHex \in Users
                               /\ info.SCLockStatus = "Lock" => info.SCUserAddress \in Users
                  /\ Outward => /\ info.SCUserAddress \in Users
                                /\ info.MCLockStatus = "Lock" => info.MCUserAddressHex \in Users

SessionRecord == [stage : {"idle", "signing", "sent", "failed", "mined", "done"},
                  asked : SUBSET Notaries, agreed : SUBSET Notaries,
                  user : Users \cup {Nobody}, account : Users \cup {Nobody},
                  expiration : Nat, amount : Uint,
                  receipt : [chain : Chains, block : Nat]]
SessionOK(s) == s \in SessionRecord /\ (s.stage = "signing" => s.account \in Users)

Claims   == [name : {"Lockin", "Lockout"}, from : Notaries, account : Users, secret : Secrets]
Cancels  == [name : {"CancelLockin", "CancelLockOut"}, from : Notaries, account : Users]
Prepared == [name : Prepares, from : Notaries, account : Users, hash : Hash, expiration : Nat,
             value : Uint]

\* The two contracts, and their logs.
LocksTyped  == {mcLockin, mcLockout, scLockin, scLockout} \subseteq [AllAccounts -> LockTerms]
ChainTyped  == /\ {mcBlock, scBlock, held} \subseteq Nat
               /\ mcRevealed \subseteq Secrets /\ scRevealed \subseteq Secrets
               /\ owner \in AllAccounts /\ newOwner \in AllAccounts \cup {Nobody}
TokenTyped  == /\ balances \in [AllAccounts -> Uint]
               /\ allowed \in [AllAccounts -> [AllAccounts -> Uint]]
               /\ totalSupply \in Uint
LogsTyped   == \A c \in Chains : \A e \in Log(c) : EventOK(e)
TxsTyped    == mempool \subseteq Claims \cup Cancels \cup Prepared
BoundsKept  == nonces \in 0 .. MaxNonces /\ crashes \in 0 .. MaxCrashes
OnChain == LocksTyped /\ ChainTyped /\ TokenTyped /\ LogsTyped /\ BoundsKept

\* The notaries.
RecordsTyped == /\ DOMAIN db = Notaries
                /\ \A n \in Notaries : /\ DOMAIN db[n] \subseteq Hash
                                       /\ \A h \in DOMAIN db[n] : RecordOK(db[n][h])
DealingTyped == /\ DOMAIN dealing = Notaries
                /\ \A n \in Notaries : dealing[n] \subseteq DOMAIN db[n]
PollingTyped == /\ status \in [Notaries -> {"up", "down", "panicked"}]
                /\ {saved, seen} \subseteq [Notaries -> [Chains -> Nat]]
                /\ fresh \in [Notaries -> [Chains -> BOOLEAN]]
MailTyped    == /\ DOMAIN inbox = Notaries
                /\ \A n \in Notaries : /\ DOMAIN inbox[n] = Chains
                                       /\ \A c \in Chains : \A e \in inbox[n][c] : EventOK(e)
SessionsTyped == /\ DOMAIN session = Notaries
                 /\ \A n \in Notaries : /\ DOMAIN session[n] = MC!Hashes
                                        /\ \A h \in MC!Hashes : SessionOK(session[n][h])
InNotaries == RecordsTyped /\ DealingTyped /\ PollingTyped /\ MailTyped /\ SessionsTyped

Typed == direction \in {"lockin", "lockout"} /\ OnChain /\ TxsTyped /\ InNotaries

-----------------------------------------------------------------------------
(* Vocabulary.                                                             *)
LEMMA HashVocabulary ==
    /\ MC!Hashes = Hash \cup {MC!EmptyHash} /\ MC!EmptyHash = {} /\ {} \notin Hash
    /\ \A s : MC!Sha256(s) = SC!Sha256(s)
    /\ \A s \in Secrets : MC!Sha256(s) \in Hash
    /\ SC!Hashes = MC!Hashes /\ SC!Unlocked = MC!Unlocked
    /\ MC!Unlocked = [SecretHash |-> {}, Expiration |-> 0, value |-> 0]
    /\ MC!LockRecord = SC!LockRecord
    /\ LockTerms \subseteq MC!LockRecord
    /\ \A l \in LockTerms : l.value \in Uint /\ l.Expiration \in Nat
<1> USE DEF MC!Hashes, SC!Hashes, Hash, MC!Sha256, SC!Sha256, MC!EmptyHash, SC!EmptyHash,
            MC!Unlocked, SC!Unlocked
<1>1. MC!Hashes = Hash \cup {MC!EmptyHash} /\ {} \notin Hash
  OBVIOUS
<1>2. MC!LockRecord = SC!LockRecord
  BY DEF MC!LockRecord, SC!LockRecord
<1>3. LockTerms \subseteq MC!LockRecord
  BY <1>1, CrossChainNumbers DEF LockTerms, MC!LockRecord, Uint
<1>4. \A l \in LockTerms : l.value \in Uint /\ l.Expiration \in Nat
  BY CrossChainNumbers DEF LockTerms, Uint
<1> QED
  BY <1>1, <1>2, <1>3, <1>4

LEMMA UintArithmetic ==
    /\ \A x, y \in Uint : (x + y) % (UintMax + 1) \in Uint
    /\ \A x, y \in Uint : (x + UintMax + 1 - y) % (UintMax + 1) \in Uint
    /\ \A x \in Int : Uint64(x) \in Nat
    /\ \A x \in Nat : Uint64(x) <= x
BY CrossChainNumbers DEF Uint, Uint64

LEMMA FeeIsTakenOff ==
    ASSUME NEW x \in Uint
    PROVE  x - calculateCrossFee(x) \in Uint
<1>1. \A y \in Nat, r \in Nat \ {0} : y \div r \in 0 .. y
  OBVIOUS
<1> QED
  BY <1>1, CrossChainNumbers DEF Uint, calculateCrossFee

-----------------------------------------------------------------------------
(* The chains.                                                             *)
LEMMA NewTerms ==
    ASSUME NEW h \in Hash, NEW e \in Nat, NEW v \in Uint
    PROVE  [SecretHash |-> h, Expiration |-> e, value |-> v] \in LockTerms
BY DEF LockTerms

LEMMA LogsGrown ==
    ASSUME LogsTyped, NEW e,
           \/ mcLog' = mcLog \cup {e} /\ scLog' = scLog
           \/ scLog' = scLog \cup {e} /\ mcLog' = mcLog,
           EventOK(e)
    PROVE  LogsTyped'
BY DEF LogsTyped, Log, Chains, EventOK

LEMMA LogsSame ==
    ASSUME LogsTyped, UNCHANGED <<mcLog, scLog>>
    PROVE  LogsTyped'
BY DEF LogsTyped, Log, Chains, EventOK

\* What a user sends to the main chain, and a transaction of the notaries.
LEMMA MainChainStep ==
    ASSUME OnChain, UNCHANGED <<scVars, nonces, crashes>>,
           \/ \E u \in Users, h \in Hash, e \in Expirations, v \in Amounts :
                 MC!prepareLockin(u, h, e, v) /\ mcLog' = mcLog \cup {MC!EmitPrepareLockin(u)}
           \/ \E u \in Users :
                 MC!cancelLockin(u) /\ mcLog' = mcLog \cup {MC!EmitCancelLockin(u)}
           \/ \E u \in Users, s \in Secrets :
                 MC!lockin(u, s) /\ mcLog' = mcLog \cup {MC!EmitLockin(u)}
           \/ \E u \in Users, h \in Hash, e \in Nat, v \in Uint :
                 /\ MC!prepareLockoutHTLC(Federation, u, h, e, v)
                 /\ mcLog' = mcLog \cup {MC!EmitPrepareLockout(u)}
           \/ \E u \in Users :
                 MC!cancleLockOut(u) /\ mcLog' = mcLog \cup {MC!EmitCancelLockout(u)}
           \/ \E u \in Users, s \in Secrets :
                 MC!lockout(u, s) /\ mcLog' = mcLog \cup {MC!EmitLockoutSecret(u, s)}
    PROVE  OnChain'
<1> USE HashVocabulary, CrossChainNumbers
    DEF OnChain, LocksTyped, ChainTyped, TokenTyped, BoundsKept, scVars, MC!ownedVars, AllAccounts
<1>a. BoundsKept' /\ scLog' = scLog
  OBVIOUS
<1>1. ASSUME NEW u \in Users, NEW h \in Hash, NEW e \in Expirations, NEW v \in Amounts,
             MC!prepareLockin(u, h, e, v), mcLog' = mcLog \cup {MC!EmitPrepareLockin(u)}
      PROVE  OnChain'
  <2>1. EventOK(MC!EmitPrepareLockin(u))
    BY DEF EventOK, MC!EmitPrepareLockin
  <2>2. LogsTyped'
    BY <1>a, <1>1, <2>1, LogsGrown
  <2>3. [SecretHash |-> h, Expiration |-> e, value |-> v] \in LockTerms
    BY NewTerms DEF Uint
  <2> QED
    BY <1>1, <2>2, <2>3 DEF MC!prepareLockin, Uint
<1>2. ASSUME NEW u \in Users, MC!cancelLockin(u), mcLog' = mcLog \cup {MC!EmitCancelLockin(u)}
      PROVE  OnChain'
  <2>1. EventOK(MC!EmitCancelLockin(u))
    BY DEF EventOK, MC!EmitCancelLockin
  <2>2. LogsTyped'
    BY <1>a, <1>2, <2>1, LogsGrown
  <2> QED
    BY <1>2, <2>2 DEF MC!cancelLockin, MC!transferEther, LockTerms, Uint
<1>3. ASSUME NEW u \in Users, NEW s \in Secrets,
             MC!lockin(u, s), mcLog' = mcLog \cup {MC!EmitLockin(u)}
      PROVE  OnChain'
  <2>1. EventOK(MC!EmitLockin(u))
    BY DEF EventOK, MC!EmitLockin
  <2>2. LogsTyped'
    BY <1>a, <1>3, <2>1, LogsGrown
  <2> QED
    BY <1>3, <2>2 DEF MC!lockin, LockTerms
<1>4. ASSUME NEW u \in Users, NEW h \in Hash, NEW e \in Nat, NEW v \in Uint,
             MC!prepareLockoutHTLC(Federation, u, h, e, v),
             mcLog' = mcLog \cup {MC!EmitPrepareLockout(u)}
      PROVE  OnChain'
  <2>1. EventOK(MC!EmitPrepareLockout(u))
    BY DEF EventOK, MC!EmitPrepareLockout
  <2>2. LogsTyped'
    BY <1>a, <1>4, <2>1, LogsGrown
  <2>3. [SecretHash |-> h, Expiration |-> e, value |-> v] \in LockTerms
    BY NewTerms
  <2> QED
    BY <1>4, <2>2, <2>3 DEF MC!prepareLockoutHTLC
<1>5. ASSUME NEW u \in Users, MC!cancleLockOut(u), mcLog' = mcLog \cup {MC!EmitCancelLockout(u)}
      PROVE  OnChain'
  <2>1. EventOK(MC!EmitCancelLockout(u))
    BY DEF EventOK, MC!EmitCancelLockout
  <2>2. LogsTyped'
    BY <1>a, <1>5, <2>1, LogsGrown
  <2> QED
    BY <1>5, <2>2 DEF MC!cancleLockOut, LockTerms
<1>6. ASSUME NEW u \in Users, NEW s \in Secrets,
             MC!lockout(u, s), mcLog' = mcLog \cup {MC!EmitLockoutSecret(u, s)}
      PROVE  OnChain'
  <2>1. EventOK(MC!EmitLockoutSecret(u, s))
    BY DEF EventOK, MC!EmitLockoutSecret
  <2>2. LogsTyped'
    BY <1>a, <1>6, <2>1, LogsGrown
  <2> QED
    BY <1>6, <2>2 DEF MC!lockout, MC!transferEther, LockTerms, Uint
<1> QED
  BY <1>1, <1>2, <1>3, <1>4, <1>5, <1>6

LEMMA SideChainStep ==
    ASSUME OnChain, UNCHANGED <<mcVars, nonces, crashes>>,
           \/ \E u \in Users, h \in Hash, e \in Nat, v \in Uint :
                 /\ SC!prepareLockin(Federation, u, h, e, v)
                 /\ scLog' = scLog \cup {SC!EmitPrepareLockin(u)}
           \/ \E u \in Users :
                 SC!cancelLockin(u) /\ scLog' = scLog \cup {SC!EmitCancelLockin(u)}
           \/ \E u \in Users, s \in Secrets :
                 SC!lockin(u, s) /\ scLog' = scLog \cup {SC!EmitLockinSecret(u, s)}
           \/ \E u \in Users, h \in Hash, e \in Expirations, v \in Amounts :
                 SC!prepareLockout(u, h, e, v) /\ scLog' = scLog \cup {SC!EmitPrepareLockout(u)}
           \/ \E u \in Users :
                 SC!cancelLockOut(u) /\ scLog' = scLog \cup {SC!EmitCancelLockout(u)}
           \/ \E u \in Users, s \in Secrets :
                 SC!lockout(u, s) /\ scLog' = scLog \cup {SC!EmitLockout(u)}
    PROVE  OnChain'
<1> USE HashVocabulary, CrossChainNumbers
    DEF OnChain, LocksTyped, ChainTyped, TokenTyped, BoundsKept, mcVars, SC!ownedVars,
        SC!tokenVars, AllAccounts
<1>a. BoundsKept' /\ mcLog' = mcLog
  OBVIOUS
<1>1. ASSUME NEW u \in Users, NEW h \in Hash, NEW e \in Nat, NEW v \in Uint,
             SC!prepareLockin(Federation, u, h, e, v),
             scLog' = scLog \cup {SC!EmitPrepareLockin(u)}
      PROVE  OnChain'
  <2>1. EventOK(SC!EmitPrepareLockin(u))
    BY DEF EventOK, SC!EmitPrepareLockin
  <2>2. LogsTyped'
    BY <1>a, <1>1, <2>1, LogsGrown
  <2>3. [SecretHash |-> h, Expiration |-> e, value |-> v] \in LockTerms
    BY NewTerms
  <2> QED
    BY <1>1, <2>2, <2>3 DEF SC!prepareLockin
<1>2. ASSUME NEW u \in Users, SC!cancelLockin(u), scLog' = scLog \cup {SC!EmitCancelLockin(u)}
      PROVE  OnChain'
  <2>1. EventOK(SC!EmitCancelLockin(u))
    BY DEF EventOK, SC!EmitCancelLockin
  <2>2. LogsTyped'
    BY <1>a, <1>2, <2>1, LogsGrown
  <2> QED
    BY <1>2, <2>2 DEF SC!cancelLockin, LockTerms
<1>3. ASSUME NEW u \in Users, NEW s \in Secrets,
             SC!lockin(u, s), scLog' = scLog \cup {SC!EmitLockinSecret(u, s)}
      PROVE  OnChain'
  <2>1. EventOK(SC!EmitLockinSecret(u, s))
    BY DEF EventOK, SC!EmitLockinSecret
  <2>2. LogsTyped'
    BY <1>a, <1>3, <2>1, LogsGrown
  <2>3. scLockin[u].value \in Uint
    OBVIOUS
  <2>4. SC!Plus(balances[u], scLockin[u].value) \in Uint /\ SC!Plus(totalSupply, scLockin[u].value) \in Uint
    BY <2>3, UintArithmetic DEF SC!Plus
  <2> QED
    BY <1>3, <2>2, <2>4 DEF SC!lockin, LockTerms
<1>4. ASSUME NEW u \in Users, NEW h \in Hash, NEW e \in Expirations, NEW v \in Amounts,
             SC!prepareLockout(u, h, e, v), scLog' = scLog \cup {SC!EmitPrepareLockout(u)}
      PROVE  OnChain'
  <2>1. EventOK(SC!EmitPrepareLockout(u))
    BY DEF EventOK, SC!EmitPrepareLockout
  <2>2. LogsTyped'
    BY <1>a, <1>4, <2>1, LogsGrown
  <2>3. [SecretHash |-> h, Expiration |-> e, value |-> v] \in LockTerms
    BY NewTerms DEF Uint
  <2>4. balances[u] - v \in Uint
    <3>1. v \in Uint /\ balances[u] \in Uint /\ balances[u] >= v
      BY <1>4 DEF SC!prepareLockout, Uint
    <3> QED
      BY <3>1, CrossChainNumbers DEF Uint
  <2> QED
    BY <1>4, <2>2, <2>3, <2>4 DEF SC!prepareLockout
<1>5. ASSUME NEW u \in Users, SC!cancelLockOut(u), scLog' = scLog \cup {SC!EmitCancelLockout(u)}
      PROVE  OnChain'
  <2>1. EventOK(SC!EmitCancelLockout(u))
    BY DEF EventOK, SC!EmitCancelLockout
  <2>2. LogsTyped'
    BY <1>a, <1>5, <2>1, LogsGrown
  <2>3. scLockout[u].value \in Uint
    OBVIOUS
  <2>4. SC!Plus(balances[u], scLockout[u].value) \in Uint
    BY <2>3, UintArithmetic DEF SC!Plus
  <2> QED
    BY <1>5, <2>2, <2>4 DEF SC!cancelLockOut, LockTerms
<1>6. ASSUME NEW u \in Users, NEW s \in Secrets,
             SC!lockout(u, s), scLog' = scLog \cup {SC!EmitLockout(u)}
      PROVE  OnChain'
  <2>1. EventOK(SC!EmitLockout(u))
    BY DEF EventOK, SC!EmitLockout
  <2>2. LogsTyped'
    BY <1>a, <1>6, <2>1, LogsGrown
  <2>3. scLockout[u].value \in Uint
    OBVIOUS
  <2>4. (totalSupply + UintMax + 1 - scLockout[u].value) % (UintMax + 1) \in Uint
    BY <2>3, UintArithmetic
  <2> QED
    BY <1>6, <2>2, <2>4 DEF SC!lockout, LockTerms
<1> QED
  BY <1>1, <1>2, <1>3, <1>4, <1>5, <1>6

-----------------------------------------------------------------------------
(* What neither the chains nor the notaries lose.                          *)
LEMMA OnChainSame ==
    ASSUME OnChain, UNCHANGED <<mcVars, scVars, nonces, crashes>>
    PROVE  OnChain'
BY LogsSame DEF OnChain, LocksTyped, ChainTyped, TokenTyped, BoundsKept, mcVars, scVars

LEMMA TxsSame ==
    ASSUME TxsTyped, mempool' \subseteq mempool
    PROVE  TxsTyped'
BY DEF TxsTyped, Claims, Cancels, Prepared

LEMMA RecordsSame ==
    ASSUME RecordsTyped, UNCHANGED <<db, direction>>
    PROVE  RecordsTyped'
BY DEF RecordsTyped, RecordOK, Inward, Outward

LEMMA InNotariesSame ==
    ASSUME InNotaries, UNCHANGED <<nodeVars, direction>>
    PROVE  InNotaries'
BY RecordsSame DEF InNotaries, nodeVars, DealingTyped, PollingTyped, MailTyped, SessionsTyped,
    EventOK, SessionOK

\* Only sessions change.
LEMMA OnlySession ==
    ASSUME InNotaries, UNCHANGED <<status, db, dealing, saved, fresh, seen, inbox, direction>>,
           SessionsTyped'
    PROVE  InNotaries'
BY RecordsSame DEF InNotaries, DealingTyped, PollingTyped, MailTyped, EventOK

LEMMA SessionGoesOn ==
    ASSUME NEW s, SessionOK(s)
    PROVE  /\ \A stage \in {"idle", "sent", "failed", "mined", "done"} :
                 SessionOK([s EXCEPT !.stage = stage])
           /\ \A m \in Notaries : /\ SessionOK([s EXCEPT !.asked = @ \ {m}])
                                  /\ SessionOK([s EXCEPT !.asked = @ \ {m}, !.agreed = @ \cup {m}])
BY DEF SessionOK, SessionRecord

LEMMA StageKept ==
    ASSUME SessionsTyped, NEW n \in Notaries, NEW h \in MC!Hashes,
           NEW stage \in {"idle", "sent", "failed", "mined", "done"},
           session' = [session EXCEPT ![n][h].stage = stage]
    PROVE  SessionsTyped'
<1> DEFINE s == [session[n][h] EXCEPT !.stage = stage]
<1>1. SessionOK(s)
  BY SessionGoesOn DEF SessionsTyped
<1>2. session' = [session EXCEPT ![n][h] = s]
  OBVIOUS
<1> HIDE DEF s
<1> QED
  BY <1>1, <1>2 DEF SessionsTyped, SessionOK

LEMMA NoticedIsTyped ==
    ASSUME Typed, NEW tx \in Prepared, NEW mined, NEW c \in Chains, Noticed(tx, mined, c)
    PROVE  SessionsTyped'
<1> USE DEF Typed, InNotaries
<1>1. tx.from \in Notaries /\ tx.hash \in MC!Hashes
  BY HashVocabulary DEF Prepared
<1>2. CASE session' = session
  BY <1>2 DEF SessionsTyped, SessionOK
<1>3. CASE session[tx.from][tx.hash].stage = "sent"
  <2> DEFINE s == [session[tx.from][tx.hash] EXCEPT !.stage = IF mined THEN "mined" ELSE "failed",
                                                    !.receipt = [chain |-> c, block |-> Height(c)]]
  <2>1. session' = [session EXCEPT ![tx.from][tx.hash] = s]
    BY <1>1, <1>3 DEF Noticed, SessionsTyped
  <2>2. [chain |-> c, block |-> Height(c)] \in [chain : Chains, block : Nat]
    BY DEF OnChain, ChainTyped, Height
  <2>3. SessionOK(s)
    <3>1. SessionOK(session[tx.from][tx.hash])
      BY <1>1 DEF SessionsTyped
    <3>2. PICK r \in [chain : Chains, block : Nat] : r = [chain |-> c, block |-> Height(c)]
      BY <2>2
    <3>3. SessionOK([session[tx.from][tx.hash] EXCEPT !.stage = IF mined THEN "mined" ELSE "failed",
                                                      !.receipt = r])
      BY <3>1 DEF SessionOK, SessionRecord
    <3> QED
      BY <3>2, <3>3
  <2> HIDE DEF s
  <2> QED
    BY <1>1, <2>1, <2>3 DEF SessionsTyped, SessionOK
<1> QED
  BY <1>2, <1>3 DEF Noticed

LEMMA OpenSessionIsTyped ==
    ASSUME Typed, direction' = direction,
           NEW n \in Notaries, NEW h \in Hash, NEW u \in Users, NEW a \in Users, NEW e \in Nat,
           Known(n, h), OpenSession(n, h, u, a, e)
    PROVE  Typed'
<1> DEFINE s == [stage |-> "signing", asked |-> Notaries \ {n}, agreed |-> {},
                 user |-> u, account |-> a, expiration |-> e,
                 amount |-> db[n][h].Amount - calculateCrossFee(db[n][h].Amount),
                 receipt |-> Idle.receipt]
<1>1. db[n][h].Amount \in Uint
  BY DEF Typed, InNotaries, RecordsTyped, RecordOK, Known
<1>2. SessionOK(s)
  BY <1>1, FeeIsTakenOff DEF SessionOK, SessionRecord, Idle, Chains
<1>3. session' = [session EXCEPT ![n][h] = s]
  BY DEF OpenSession
<1> HIDE DEF s
<1>4. SessionsTyped'
  BY <1>2, <1>3, HashVocabulary DEF Typed, InNotaries, SessionsTyped, SessionOK
<1>5. OnChain'
  <2>1. nonces' \in 0 .. MaxNonces
    BY CrossChainNumbers DEF Typed, OnChain, BoundsKept, OpenSession
  <2> QED
    BY <2>1, LogsSame
    DEF Typed, OnChain, LocksTyped, ChainTyped, TokenTyped, BoundsKept, mcVars, scVars, OpenSession
<1>6. InNotaries'
  BY <1>4, OnlySession DEF Typed, OpenSession
<1>7. TxsTyped'
  BY TxsSame DEF Typed, OpenSession
<1> QED
  BY <1>5, <1>6, <1>7 DEF Typed

LEMMA GrowthIsTyped ==
    ASSUME Typed, MCGrows \/ SCGrows
    PROVE  Typed'
<1>1. /\ UNCHANGED <<mempool, nodeVars, nonces, crashes, direction, mcLog, scLog>>
      /\ UNCHANGED <<mcLockin, mcLockout, held, mcRevealed, scLockin, scLockout, scRevealed>>
      /\ UNCHANGED <<balances, allowed, totalSupply, owner, newOwner>>
      /\ mcBlock' \in Nat /\ scBlock' \in Nat
  BY DEF MCGrows, SCGrows, MCNewBlock, SCNewBlock, MC!newBlock, SC!newBlock, mcVars, scVars,
         MC!ownedVars, SC!ownedVars, SC!tokenVars, Typed, OnChain, ChainTyped
<1>2. OnChain'
  BY <1>1, LogsSame DEF Typed, OnChain, LocksTyped, ChainTyped, TokenTyped, BoundsKept
<1> QED
  BY <1>1, <1>2, InNotariesSame, TxsSame DEF Typed

LEMMA UserIsTyped ==
    ASSUME Typed, UserStep
    PROVE  Typed'
<1>0. direction' = direction
  BY DEF UserStep
<1>a. ASSUME UNCHANGED <<mempool, nodeVars>>, OnChain'
      PROVE  Typed'
  BY <1>0, <1>a, InNotariesSame, TxsSame DEF Typed
<1>b. \A s \in Secrets : MC!Sha256(s) \in Hash /\ SC!Sha256(s) \in Hash
  BY HashVocabulary
<1>1. ASSUME NEW u \in Users,
             \/ \E s \in Secrets, e \in Expirations, v \in Amounts :
                   UserPrepareLockin(u, MC!Sha256(s), e, v)
             \/ UserCancelLockin(u)
             \/ CancleLockOut(u)
             \/ \E s \in Secrets : UserLockout(u, s)
      PROVE  Typed'
  <2>1. OnChain /\ UNCHANGED <<scVars, nonces, crashes, mempool, nodeVars>>
    BY <1>1 DEF Typed, UserPrepareLockin, UserCancelLockin, CancleLockOut, UserLockout, OnMC
  <2>2. OnChain'
    BY <1>1, <1>b, <2>1, MainChainStep
    DEF UserPrepareLockin, UserCancelLockin, CancleLockOut, UserLockout, OnMC
  <2> QED
    BY <1>a, <2>1, <2>2
<1>2. ASSUME NEW u \in Users,
             \/ \E s \in Secrets, e \in Expirations, v \in Amounts :
                   UserPrepareLockout(u, SC!Sha256(s), e, v)
             \/ UserCancelLockOut(u)
             \/ \E s \in Secrets : UserLockin(u, s)
      PROVE  Typed'
  <2>1. OnChain /\ UNCHANGED <<mcVars, nonces, crashes, mempool, nodeVars>>
    BY <1>2 DEF Typed, UserPrepareLockout, UserCancelLockOut, UserLockin, OnSC
  <2>2. OnChain'
    BY <1>2, <1>b, <2>1, SideChainStep
    DEF UserPrepareLockout, UserCancelLockOut, UserLockin, OnSC
  <2> QED
    BY <1>a, <2>1, <2>2
<1>3. ASSUME NEW n \in Notaries, NEW u \in Users, NEW a \in Users, NEW s \in Secrets,
             \/ onSCPrepareLockinRequest(n, u, a, MC!Sha256(s))
             \/ onMCPrepareLockoutRequest(n, u, a, SC!Sha256(s))
      PROVE  Typed'
  <2>0. PICK h \in Hash : \E e : /\ Known(n, h) /\ OpenSession(n, h, u, a, e)
                                /\ e \in {db[n][h].SCExpiration, db[n][h].MCExpiration}
    BY <1>3, <1>b DEF onSCPrepareLockinRequest, onMCPrepareLockoutRequest, LockinRequested,
                      LockoutRequested
  <2>1. PICK e : /\ Known(n, h) /\ OpenSession(n, h, u, a, e)
                 /\ e \in {db[n][h].SCExpiration, db[n][h].MCExpiration}
    BY <2>0
  <2>2. e \in Nat
    BY <2>1 DEF Typed, InNotaries, RecordsTyped, RecordOK, LockInfo, Known
  <2> QED
    BY <1>0, <2>1, <2>2, OpenSessionIsTyped
<1> QED
  BY <1>1, <1>2, <1>3 DEF UserStep, LockinUserStep, LockoutUserStep

LEMMA MiningIsTyped ==
    ASSUME Typed, Mining
    PROVE  Typed'
<1>0. direction' = direction
  BY DEF Mining
<1>a. ASSUME OnChain', mempool' \subseteq mempool, SessionsTyped',
             UNCHANGED <<status, db, dealing, saved, fresh, seen, inbox>>
      PROVE  Typed'
  BY <1>0, <1>a, OnlySession, TxsSame DEF Typed
<1>b. ASSUME UNCHANGED session PROVE SessionsTyped'
  BY <1>b DEF Typed, InNotaries, SessionsTyped, SessionOK
<1> USE DEF Typed, nodeVars
<1>1. ASSUME NEW tx \in mempool, MinedMCLockin(tx) PROVE Typed'
  <2>1. tx.account \in Users /\ tx.secret \in Secrets
    BY <1>1 DEF TxsTyped, Claims, Cancels, Prepared, MinedMCLockin, Prepares
  <2>2. OnChain'
    <3>1. CASE UNCHANGED mcVars
      BY <1>1, <3>1, OnChainSame DEF MinedMCLockin
    <3>2. CASE MC!lockin(tx.account, tx.secret) /\ mcLog' = mcLog \cup {MC!EmitLockin(tx.account)}
      BY <1>1, <2>1, <3>2, MainChainStep DEF MinedMCLockin
    <3> QED
      BY <1>1, <3>1, <3>2 DEF MinedMCLockin
  <2> QED
    BY <1>1, <1>a, <1>b, <2>2 DEF MinedMCLockin
<1>2. ASSUME NEW tx \in mempool, MinedSCCancelLockin(tx) PROVE Typed'
  <2>1. tx.account \in Users
    BY <1>2 DEF TxsTyped, Claims, Cancels, Prepared, MinedSCCancelLockin, Prepares
  <2>2. OnChain'
    <3>1. CASE UNCHANGED scVars
      BY <1>2, <3>1, OnChainSame DEF MinedSCCancelLockin
    <3>2. CASE SC!cancelLockin(tx.account) /\ scLog' = scLog \cup {SC!EmitCancelLockin(tx.account)}
      BY <1>2, <2>1, <3>2, SideChainStep DEF MinedSCCancelLockin
    <3> QED
      BY <1>2, <3>1, <3>2 DEF MinedSCCancelLockin
  <2> QED
    BY <1>2, <1>a, <1>b, <2>2 DEF MinedSCCancelLockin
<1>3. ASSUME NEW tx \in mempool, MinedSCPrepareLockin(tx) PROVE Typed'
  <2>1. tx \in Prepared
    BY <1>3 DEF TxsTyped, Claims, Cancels, Prepared, MinedSCPrepareLockin, Prepares
  <2>2. OnChain'
    <3>1. CASE UNCHANGED scVars
      BY <1>3, <3>1, OnChainSame DEF MinedSCPrepareLockin
    <3>2. CASE /\ SC!prepareLockin(Federation, tx.account, tx.hash, tx.expiration, tx.value)
               /\ scLog' = scLog \cup {SC!EmitPrepareLockin(tx.account)}
      BY <1>3, <2>1, <3>2, SideChainStep DEF MinedSCPrepareLockin, Prepared
    <3> QED
      BY <1>3, <3>1, <3>2 DEF MinedSCPrepareLockin
  <2>3. SessionsTyped'
    BY <1>3, <2>1, NoticedIsTyped DEF MinedSCPrepareLockin, Chains
  <2> QED
    BY <1>3, <1>a, <2>2, <2>3 DEF MinedSCPrepareLockin
<1>4. ASSUME NEW tx \in mempool, MinedSCLockout(tx) PROVE Typed'
  <2>1. tx.account \in Users /\ tx.secret \in Secrets
    BY <1>4 DEF TxsTyped, Claims, Cancels, Prepared, MinedSCLockout, Prepares
  <2>2. OnChain'
    <3>1. CASE UNCHANGED scVars
      BY <1>4, <3>1, OnChainSame DEF MinedSCLockout
    <3>2. CASE SC!lockout(tx.account, tx.secret) /\ scLog' = scLog \cup {SC!EmitLockout(tx.account)}
      BY <1>4, <2>1, <3>2, SideChainStep DEF MinedSCLockout
    <3> QED
      BY <1>4, <3>1, <3>2 DEF MinedSCLockout
  <2> QED
    BY <1>4, <1>a, <1>b, <2>2 DEF MinedSCLockout
<1>5. ASSUME NEW tx \in mempool, MinedSCCancelLockOut(tx) PROVE Typed'
  <2>1. tx.account \in Users
    BY <1>5 DEF TxsTyped, Claims, Cancels, Prepared, MinedSCCancelLockOut, Prepares
  <2>2. OnChain'
    <3>1. CASE UNCHANGED scVars
      BY <1>5, <3>1, OnChainSame DEF MinedSCCancelLockOut
    <3>2. CASE SC!cancelLockOut(tx.account) /\ scLog' = scLog \cup {SC!EmitCancelLockout(tx.account)}
      BY <1>5, <2>1, <3>2, SideChainStep DEF MinedSCCancelLockOut
    <3> QED
      BY <1>5, <3>1, <3>2 DEF MinedSCCancelLockOut
  <2> QED
    BY <1>5, <1>a, <1>b, <2>2 DEF MinedSCCancelLockOut
<1>6. ASSUME NEW tx \in mempool, MinedMCPrepareLockout(tx) PROVE Typed'
  <2>1. tx \in Prepared
    BY <1>6 DEF TxsTyped, Claims, Cancels, Prepared, MinedMCPrepareLockout, Prepares
  <2>2. OnChain'
    <3>1. CASE UNCHANGED mcVars
      BY <1>6, <3>1, OnChainSame DEF MinedMCPrepareLockout
    <3>2. CASE /\ MC!prepareLockoutHTLC(Federation, tx.account, tx.hash, tx.expiration, tx.value)
               /\ mcLog' = mcLog \cup {MC!EmitPrepareLockout(tx.account)}
      BY <1>6, <2>1, <3>2, MainChainStep DEF MinedMCPrepareLockout, Prepared
    <3> QED
      BY <1>6, <3>1, <3>2 DEF MinedMCPrepareLockout
  <2>3. SessionsTyped'
    BY <1>6, <2>1, NoticedIsTyped DEF MinedMCPrepareLockout, Chains
  <2> QED
    BY <1>6, <1>a, <2>2, <2>3 DEF MinedMCPrepareLockout
<1> QED
  BY <1>1, <1>2, <1>3, <1>4, <1>5, <1>6 DEF Mining, LockinMined, LockoutMined

-----------------------------------------------------------------------------
(* What the handlers are built from.                                       *)
LEMMA MailHandled ==
    ASSUME MailTyped, NEW n, NEW c, NEW e, Handled(n, c, e)
    PROVE  MailTyped'
BY DEF MailTyped, Handled, EventOK

LEMMA PollingSame ==
    ASSUME PollingTyped, UNCHANGED <<status, saved, fresh, seen>>
    PROVE  PollingTyped'
BY DEF PollingTyped

LEMMA SessionsSame ==
    ASSUME SessionsTyped, UNCHANGED session
    PROVE  SessionsTyped'
BY DEF SessionsTyped, SessionOK

LEMMA RefusedIsTyped ==
    ASSUME Typed, UNCHANGED direction, NEW n, NEW c, NEW e, Refuse(n, c, e)
    PROVE  TxsTyped' /\ InNotaries'
BY MailHandled, PollingSame, SessionsSame, RecordsSame, TxsSame
DEF Typed, InNotaries, Refuse, DealingTyped

LEMMA StoppedIsTyped ==
    ASSUME InNotaries, UNCHANGED direction, NEW n \in Notaries, NEW how \in {"down", "panicked"},
           Stop(n, how)
    PROVE  InNotaries'
<1> USE DEF InNotaries, Stop
<1>1. RecordsTyped'
  BY RecordsSame
<1>2. DealingTyped'
  BY DEF DealingTyped
<1>3. PollingTyped'
  BY DEF PollingTyped
<1>4. MailTyped'
  BY DEF MailTyped, EventOK
<1>5. SessionsTyped'
  <2>1. session' = [session EXCEPT ![n] = [h \in MC!Hashes |-> [session[n][h] EXCEPT !.stage = "idle"]]]
    BY DEF SessionsTyped
  <2>2. \A h \in MC!Hashes : SessionOK([session[n][h] EXCEPT !.stage = "idle"])
    BY SessionGoesOn DEF SessionsTyped
  <2> QED
    BY <2>1, <2>2 DEF SessionsTyped, SessionOK
<1> QED
  BY <1>1, <1>2, <1>3, <1>4, <1>5

LEMMA UpdatedIsTyped ==
    ASSUME RecordsTyped, DealingTyped, UNCHANGED direction,
           NEW n \in Notaries, NEW hash, NEW info, update(n, hash, info),
           Known(n, hash) => RecordOK(info)
    PROVE  RecordsTyped' /\ DealingTyped'
<1>1. RecordsTyped'
  BY DEF RecordsTyped, update, Known, RecordOK, Inward, Outward
<1>2. DealingTyped'
  BY DEF RecordsTyped, DealingTyped, update
<1> QED
  BY <1>1, <1>2

LEMMA RegisteredIsTyped ==
    ASSUME RecordsTyped, DealingTyped, UNCHANGED direction,
           NEW n \in Notaries, NEW hash \in Hash, NEW info, register(n, hash, info),
           RecordOK(info)
    PROVE  RecordsTyped' /\ DealingTyped'
<1>1. RecordsTyped'
  BY DEF RecordsTyped, register, RecordOK, Inward, Outward
<1>2. DealingTyped'
  BY DEF RecordsTyped, DealingTyped, register
<1> QED
  BY <1>1, <1>2

LEMMA SentIsTyped ==
    ASSUME TxsTyped, NEW txs, txs \subseteq Claims \cup Cancels, Send(txs)
    PROVE  TxsTyped'
BY DEF TxsTyped, Send, Claims, Cancels, Prepared

LEMMA RecordedIsTyped ==
    ASSUME Typed, UNCHANGED direction, NEW n \in Notaries, NEW c, NEW e,
           NEW hash, NEW info, NEW txs, Known(n, hash) => RecordOK(info),
           txs \subseteq Claims \cup Cancels,
           Record(n, c, e, hash, info, txs)
    PROVE  TxsTyped' /\ InNotaries'
<1>1. CASE hash \in dealing[n]
  BY <1>1, UpdatedIsTyped, SentIsTyped, MailHandled, PollingSame, SessionsSame
  DEF Record, Typed, InNotaries
<1>2. CASE hash \notin dealing[n]
  BY <1>2, StoppedIsTyped, TxsSame DEF Record, Panic, Typed
<1> QED
  BY <1>1, <1>2

LEMMA AskedIsTyped ==
    ASSUME Typed, UNCHANGED direction, NEW n \in Notaries, NEW c \in Chains, NEW e \in inbox[n][c],
           e.name # "NewBlock", NEW lock \in LockTerms, Query(n, c, e, lock)
    PROVE  TxsTyped' /\ InNotaries'
<1>1. MailTyped'
  BY DEF Typed, InNotaries, MailTyped, Query, EventOK
<1> QED
  BY <1>1, PollingSame, SessionsSame, RecordsSame, TxsSame
  DEF Typed, InNotaries, Query, DealingTyped

\* A new block, seen by a handler that may set the status of records to Expiration.
LEMMA BlockSeenIsTyped ==
    ASSUME Typed, UNCHANGED direction, NEW n \in Notaries, NEW c \in Chains, NEW e \in inbox[n][c],
           seen' = [seen EXCEPT ![n][c] = e.block],
           DOMAIN db' = DOMAIN db, \A m \in Notaries : DOMAIN db'[m] = DOMAIN db[m],
           \A m \in Notaries : \A h \in DOMAIN db[m] : RecordOK(db'[m][h]),
           Handled(n, c, e), UNCHANGED <<status, dealing, fresh, session, saved>>
    PROVE  InNotaries'
<1>1. RecordsTyped'
  BY DEF Typed, InNotaries, RecordsTyped, RecordOK, Inward, Outward
<1>2. DealingTyped'
  BY DEF Typed, InNotaries, DealingTyped
<1>3. PollingTyped'
  <2>1. e.block \in Nat
    BY DEF Typed, InNotaries, MailTyped, EventOK
  <2> QED
    BY <2>1 DEF Typed, InNotaries, PollingTyped
<1> QED
  BY <1>1, <1>2, <1>3, MailHandled, SessionsSame DEF Typed, InNotaries

LEMMA PollIsTyped ==
    ASSUME Typed, UNCHANGED direction, NEW n \in Notaries, NEW c \in Chains, Poll(n, c)
    PROVE  Typed'
<1>1. Newest(c) \in Nat
  BY DEF Newest, Height, Typed, OnChain, ChainTyped, Poll, InNotaries, PollingTyped, Chains
<1>2. MailTyped'
  <2>1. EventOK([name |-> "NewBlock", block |-> Newest(c)])
    BY <1>1 DEF EventOK
  <2>2. \A e \in Log(c) : EventOK(e)
    BY DEF Typed, OnChain, LogsTyped
  <2>3. \A e \in inbox'[n][c] : EventOK(e)
    BY <2>1, <2>2 DEF Typed, InNotaries, MailTyped, Poll
  <2> QED
    BY <2>3 DEF Typed, InNotaries, MailTyped, Poll, EventOK
<1>3. PollingTyped'
  BY <1>1 DEF Typed, InNotaries, PollingTyped, Poll
<1>4. InNotaries'
  BY <1>2, <1>3, SessionsSame, RecordsSame DEF Typed, InNotaries, Poll, DealingTyped
<1> QED
  BY <1>4, OnChainSame, TxsSame DEF Typed, Poll

LEMMA AnswerIsTyped ==
    ASSUME Typed, UNCHANGED direction, NEW n \in Notaries, NEW m \in Notaries, NEW h \in Hash,
           NEW agrees, NEW info, agrees /\ Known(m, h) => RecordOK(info),
           Answer(n, m, h, agrees, info)
    PROVE  Typed'
<1> USE DEF Typed, InNotaries
<1>1. SessionsTyped'
  <2>1. h \in MC!Hashes /\ SessionOK(session[n][h])
    BY HashVocabulary DEF SessionsTyped
  <2>2. PICK s : SessionOK(s) /\ session' = [session EXCEPT ![n][h] = s]
    <3>1. CASE session' = [session EXCEPT ![n][h].asked = @ \ {m}]
      <4>1. session' = [session EXCEPT ![n][h] = [session[n][h] EXCEPT !.asked = @ \ {m}]]
        BY <3>1
      <4> QED
        BY <2>1, <4>1, SessionGoesOn
    <3>2. CASE session' = [session EXCEPT ![n][h].asked = @ \ {m}, ![n][h].agreed = @ \cup {m}]
      <4>1. session' = [session EXCEPT ![n][h] =
                            [session[n][h] EXCEPT !.asked = @ \ {m}, !.agreed = @ \cup {m}]]
        BY <2>1, <3>2 DEF SessionsTyped
      <4> QED
        BY <2>1, <4>1, SessionGoesOn
    <3> QED
      BY <3>1, <3>2 DEF Answer
  <2> QED
    BY <2>2 DEF SessionsTyped, SessionOK
<1>2. RecordsTyped' /\ DealingTyped'
  <2>1. CASE agrees
    BY <2>1, UpdatedIsTyped DEF Answer
  <2>2. CASE ~agrees
    BY <2>2, RecordsSame DEF Answer, DealingTyped
  <2> QED
    BY <2>1, <2>2
<1>3. InNotaries'
  BY <1>1, <1>2, PollingSame DEF Answer, MailTyped, EventOK
<1> QED
  BY <1>3, OnChainSame, TxsSame DEF Answer

LEMMA CallIsTyped ==
    ASSUME Typed, UNCHANGED direction, NEW n \in Notaries, NEW h \in Hash, NEW name \in Prepares,
           callPrepare(n, h, name)
    PROVE  Typed'
<1> USE DEF Typed, InNotaries
<1>1. h \in MC!Hashes /\ SessionOK(session[n][h])
  BY HashVocabulary DEF SessionsTyped
<1>2. SessionsTyped'
  <2>1. PICK stage \in {"sent", "failed"} : session' = [session EXCEPT ![n][h].stage = stage]
    BY DEF callPrepare
  <2> QED
    BY <1>1, <2>1, StageKept
<1>3. TxsTyped'
  <2>1. [name |-> name, from |-> n, account |-> session[n][h].account, hash |-> h,
         expiration |-> session[n][h].expiration, value |-> session[n][h].amount] \in Prepared
    BY <1>1 DEF SessionOK, SessionRecord, Prepared, callPrepare
  <2> QED
    BY <2>1 DEF callPrepare, TxsTyped, Claims, Cancels, Prepared
<1> QED
  BY <1>2, <1>3, OnChainSame, OnlySession DEF callPrepare

LEMMA ChargeIsTyped ==
    ASSUME Typed, UNCHANGED direction, NEW n \in Notaries, NEW h \in Hash, takeCharge(n, h)
    PROVE  Typed'
<1> USE DEF Typed, InNotaries
<1>0. h \in MC!Hashes
  BY HashVocabulary
<1>1. CASE h \in dealing[n]
  <2>1. Known(n, h) => RecordOK([db[n][h] EXCEPT !.NotaryIDInCharge = n])
    BY DEF Known, RecordsTyped, RecordOK, LockInfo, Inward, Outward
  <2>2. RecordsTyped' /\ DealingTyped'
    BY <1>1, <2>1, UpdatedIsTyped DEF takeCharge
  <2>3. SessionsTyped'
    BY <1>0, <1>1, StageKept DEF takeCharge
  <2>4. InNotaries'
    BY <1>1, <2>2, <2>3, PollingSame DEF takeCharge, MailTyped, EventOK
  <2> QED
    BY <1>1, <2>4, OnChainSame, TxsSame DEF takeCharge
<1>2. CASE h \notin dealing[n]
  BY <1>2, StoppedIsTyped, OnChainSame, TxsSame DEF takeCharge
<1> QED
  BY <1>1, <1>2

-----------------------------------------------------------------------------
(* The handlers.                                                           *)
LEMMA HandlingIsOffChain ==
    ASSUME Typed, UNCHANGED direction, NEW n, NEW c, NEW e, NEW name, Handling(n, c, e, name),
           TxsTyped' /\ InNotaries'
    PROVE  Typed'
BY OnChainSame DEF Handling, Typed

LEMMA KnownIsTyped ==
    ASSUME Typed, NEW n \in Notaries, NEW h, Known(n, h)
    PROVE  RecordOK(db[n][h]) /\ h \in Hash
BY DEF Typed, InNotaries, RecordsTyped, Known

LEMMA MailIsTyped ==
    ASSUME Typed, NEW n \in Notaries, NEW c \in Chains, NEW e \in inbox[n][c]
    PROVE  EventOK(e)
BY DEF Typed, InNotaries, MailTyped

LEMMA WrittenIsTyped ==
    ASSUME NEW info, RecordOK(info), direction \in {"lockin", "lockout"}
    PROVE  /\ \A u \in Users, x \in Nat :
                 /\ RecordOK([info EXCEPT !.SCExpiration = x, !.SCLockStatus = "Lock",
                                          !.SCUserAddress = u])
                 /\ RecordOK([info EXCEPT !.MCExpiration = x, !.MCLockStatus = "Lock",
                                          !.MCUserAddressHex = u])
           /\ \A s \in Secrets :
                 /\ RecordOK([info EXCEPT !.Secret = s, !.SCLockStatus = "Unlock"])
                 /\ RecordOK([info EXCEPT !.Secret = s, !.MCLockStatus = "Unlock"])
<1>1. ASSUME NEW u \in Users, NEW x \in Nat
      PROVE  RecordOK([info EXCEPT !.SCExpiration = x, !.SCLockStatus = "Lock", !.SCUserAddress = u])
  BY DEF RecordOK, LockInfo, LockStatus
<1>2. ASSUME NEW u \in Users, NEW x \in Nat
      PROVE  RecordOK([info EXCEPT !.MCExpiration = x, !.MCLockStatus = "Lock", !.MCUserAddressHex = u])
  BY DEF RecordOK, LockInfo, LockStatus
<1>3. ASSUME NEW s \in Secrets
      PROVE  RecordOK([info EXCEPT !.Secret = s, !.SCLockStatus = "Unlock"])
  BY DEF RecordOK, LockInfo, LockStatus
<1>4. ASSUME NEW s \in Secrets
      PROVE  RecordOK([info EXCEPT !.Secret = s, !.MCLockStatus = "Unlock"])
  BY DEF RecordOK, LockInfo, LockStatus
<1> QED
  BY <1>1, <1>2, <1>3, <1>4

LEMMA LockinHandlerIsTyped ==
    ASSUME Typed, UNCHANGED direction, Inward,
           NEW n \in Notaries, NEW c \in Chains, NEW e \in inbox[n][c], HandleLockin(n, c, e)
    PROVE  Typed'
<1> USE KnownIsTyped, MailIsTyped, HandlingIsOffChain DEF Inward, Outward
<1>a. ASSUME NEW hash, NEW info, NEW txs, Record(n, c, e, hash, info, txs),
             Known(n, hash) => RecordOK(info), txs \subseteq Claims \cup Cancels
      PROVE  TxsTyped' /\ InNotaries'
  BY <1>a, RecordedIsTyped
<1>b. ASSUME Refuse(n, c, e) PROVE TxsTyped' /\ InNotaries'
  BY <1>b, RefusedIsTyped
<1>1. CASE QueryLockin(n, c, e)
  <2> DEFINE lock == IF c = "mc" THEN mcLockin[e.account] ELSE scLockin[e.account]
  <2>1. lock \in LockTerms
    BY <1>1 DEF QueryLockin, Handling, EventOK, Typed, OnChain, LocksTyped, AllAccounts
  <2>2. Query(n, c, e, lock) /\ e.name # "NewBlock"
    BY <1>1 DEF QueryLockin, Handling
  <2> HIDE DEF lock
  <2> QED
    BY <1>1, <2>1, <2>2, AskedIsTyped DEF QueryLockin
<1>2. CASE onMCNewBlockLockin(n, e) /\ c = "mc"
  <2>1. \A h \in DOMAIN db[n] : RecordOK(LockinMCExpired(db[n][h], e.block))
    BY DEF Typed, InNotaries, RecordsTyped, LockinMCExpired, RecordOK, LockInfo, LockStatus
  <2>2. InNotaries'
    BY <1>2, <2>1, BlockSeenIsTyped DEF onMCNewBlockLockin, Typed, InNotaries, RecordsTyped
  <2> QED
    BY <1>2, <2>2, TxsSame DEF onMCNewBlockLockin, Typed
<1>3. CASE onSCNewBlockLockin(n, e) /\ c = "sc"
  <2>1. \A h \in DOMAIN db[n] : RecordOK([db[n][h] EXCEPT !.SCLockStatus = "Expiration"])
    BY DEF Typed, InNotaries, RecordsTyped, RecordOK, LockInfo, LockStatus
  <2>2. InNotaries'
    BY <1>3, <2>1, BlockSeenIsTyped DEF onSCNewBlockLockin, Typed, InNotaries, RecordsTyped
  <2>3. \A h \in dealing[n] : LockinSCExpires(db[n][h], e.block) =>
           [name |-> "CancelLockin", from |-> n, account |-> db[n][h].SCUserAddress] \in Cancels
    BY DEF Typed, InNotaries, RecordsTyped, DealingTyped, RecordOK, LockinSCExpires, Cancels
  <2>4. TxsTyped'
    BY <1>3, <2>3, SentIsTyped DEF onSCNewBlockLockin, Typed
  <2> QED
    BY <1>3, <2>2, <2>4 DEF onSCNewBlockLockin
<1>4. CASE onMCPrepareLockin4Ethereum(n, e) /\ c = "mc"
  <2>1. CASE Refuse(n, "mc", e)
    BY <1>4, <1>b, <2>1 DEF onMCPrepareLockin4Ethereum
  <2>2. CASE ~Refuse(n, "mc", e)
    <3> DEFINE info == [MCUserAddressHex |-> e.account, SCUserAddress |-> Nobody,
                        Secret |-> NoSecret, Amount |-> e.lock.value,
                        MCExpiration |-> e.lock.Expiration,
                        SCExpiration |-> calculateSCExpiration(n, e.lock.Expiration),
                        MCLockStatus |-> "Lock", SCLockStatus |-> "None",
                        NotaryIDInCharge |-> Nobody]
    <3>1. /\ register(n, e.lock.SecretHash, info) /\ Handled(n, "mc", e)
          /\ ~(e.lock.Expiration <= MinExpiration + e.block)
          /\ UNCHANGED <<mempool, status, fresh, seen, session, saved>>
          /\ e.name = "Queried"
      BY <1>4, <2>2 DEF onMCPrepareLockin4Ethereum, Handling
    <3>2. e.lock \in LockTerms /\ e.block \in Nat /\ e.account \in Users
      BY <1>4, <3>1 DEF EventOK
    <3>3. e.lock.SecretHash \in Hash /\ e.lock.value \in Uint /\ e.lock.Expiration \in Nat
      BY <3>1, <3>2, HashVocabulary, CrossChainNumbers DEF LockTerms
    <3>4. seen[n]["sc"] \in Nat /\ seen[n]["mc"] \in Nat
      BY DEF Typed, InNotaries, PollingTyped, Chains
    <3>5. calculateSCExpiration(n, e.lock.Expiration) \in Nat
      BY <3>3, <3>4, UintArithmetic DEF calculateSCExpiration, HalfTheTime
    <3>6. RecordOK(info)
      BY <3>2, <3>3, <3>5, CrossChainNumbers DEF RecordOK, LockInfo, LockStatus, Uint
    <3> HIDE DEF info
    <3>7. RecordsTyped' /\ DealingTyped'
      BY <3>1, <3>3, <3>6, RegisteredIsTyped DEF Typed, InNotaries
    <3>8. TxsTyped' /\ InNotaries'
      BY <3>1, <3>7, MailHandled, PollingSame, SessionsSame, TxsSame DEF Typed, InNotaries
    <3> QED
      BY <1>4, <3>8 DEF onMCPrepareLockin4Ethereum
  <2> QED
    BY <2>1, <2>2
<1>5. CASE onSCPrepareLockin(n, e) /\ c = "sc"
  <2> DEFINE hash == e.lock.SecretHash
             info == [db[n][hash] EXCEPT !.SCExpiration = e.lock.Expiration,
                                         !.SCLockStatus = "Lock", !.SCUserAddress = e.account]
  <2>1. e.lock \in LockTerms /\ e.account \in Users
    BY <1>5 DEF onSCPrepareLockin, Handling, EventOK
  <2>2. Known(n, hash) => RecordOK(info)
    BY <2>1, HashVocabulary, WrittenIsTyped DEF Typed
  <2>3. CASE Refuse(n, "sc", e)
    BY <1>5, <1>b, <2>3 DEF onSCPrepareLockin
  <2>4. CASE ~Refuse(n, "sc", e)
    <3>1. Record(n, c, e, hash, info, {})
      BY <1>5, <2>4 DEF onSCPrepareLockin
    <3> HIDE DEF info, hash
    <3>2. TxsTyped' /\ InNotaries'
      BY <1>a, <2>2, <3>1
    <3> QED
      BY <1>5, <3>2 DEF onSCPrepareLockin
  <2> QED
    BY <2>3, <2>4
<1>6. CASE onSCLockinSecret(n, e) /\ c = "sc"
  <2> DEFINE hash == SC!Sha256(e.secret)
             info == [db[n][hash] EXCEPT !.Secret = e.secret, !.SCLockStatus = "Unlock"]
             txs == IF ClaimsEther(n, db[n][hash])
                    THEN {[name |-> "Lockin", from |-> n, secret |-> e.secret,
                           account |-> db[n][hash].MCUserAddressHex]}
                    ELSE {}
  <2>1. e.secret \in Secrets
    BY <1>6 DEF onSCLockinSecret, Handling, EventOK
  <2>2. Known(n, hash) => RecordOK(info)
    BY <2>1, WrittenIsTyped DEF Typed
  <2>2a. Known(n, hash) => txs \subseteq Claims
    BY <2>1 DEF RecordOK, Claims
  <2>3. CASE Refuse(n, "sc", e)
    BY <1>6, <1>b, <2>3 DEF onSCLockinSecret
  <2>4. CASE ~Refuse(n, "sc", e)
    <3>1. Record(n, c, e, hash, info, txs) /\ Known(n, hash)
      BY <1>6, <2>4 DEF onSCLockinSecret
    <3> HIDE DEF info, hash, txs
    <3>2. TxsTyped' /\ InNotaries'
      BY <1>a, <2>2, <2>2a, <3>1
    <3> QED
      BY <1>6, <3>2 DEF onSCLockinSecret
  <2> QED
    BY <2>3, <2>4
<1>7. CASE onMCLockin4Ethereum(n, e) /\ c = "mc"
  <2> DEFINE info == [db[n][e.SecretHash] EXCEPT !.MCLockStatus = "Unlock"]
  <2>1. Known(n, e.SecretHash) => RecordOK(info)
    BY DEF RecordOK, LockInfo, LockStatus
  <2>2. CASE Refuse(n, "mc", e)
    BY <1>7, <1>b, <2>2 DEF onMCLockin4Ethereum
  <2>3. CASE ~Refuse(n, "mc", e)
    <3>1. Record(n, c, e, e.SecretHash, info, {})
      BY <1>7, <2>3 DEF onMCLockin4Ethereum
    <3> HIDE DEF info
    <3>2. TxsTyped' /\ InNotaries'
      BY <1>a, <2>1, <3>1
    <3> QED
      BY <1>7, <3>2 DEF onMCLockin4Ethereum
  <2> QED
    BY <2>2, <2>3
<1>8. CASE onMCCancelLockin4Ethereum(n, e) /\ c = "mc"
  <2> DEFINE info == [db[n][e.SecretHash] EXCEPT !.MCLockStatus = "Cancel"]
  <2>1. Known(n, e.SecretHash) => RecordOK(info)
    BY DEF RecordOK, LockInfo, LockStatus
  <2>2. CASE Refuse(n, "mc", e)
    BY <1>8, <1>b, <2>2 DEF onMCCancelLockin4Ethereum
  <2>3. CASE ~Refuse(n, "mc", e)
    <3>1. Record(n, c, e, e.SecretHash, info, {})
      BY <1>8, <2>3 DEF onMCCancelLockin4Ethereum
    <3> HIDE DEF info
    <3>2. TxsTyped' /\ InNotaries'
      BY <1>a, <2>1, <3>1
    <3> QED
      BY <1>8, <3>2 DEF onMCCancelLockin4Ethereum
  <2> QED
    BY <2>2, <2>3
<1>9. CASE onSCCancelLockin(n, e) /\ c = "sc"
  <2> DEFINE info == [db[n][e.SecretHash] EXCEPT !.SCLockStatus = "Cancel"]
  <2>1. Known(n, e.SecretHash) => RecordOK(info)
    BY DEF RecordOK, LockInfo, LockStatus
  <2>2. CASE Refuse(n, "sc", e)
    BY <1>9, <1>b, <2>2 DEF onSCCancelLockin
  <2>3. CASE ~Refuse(n, "sc", e)
    <3>1. Record(n, c, e, e.SecretHash, info, {})
      BY <1>9, <2>3 DEF onSCCancelLockin
    <3> HIDE DEF info
    <3>2. TxsTyped' /\ InNotaries'
      BY <1>a, <2>1, <3>1
    <3> QED
      BY <1>9, <3>2 DEF onSCCancelLockin
  <2> QED
    BY <2>2, <2>3
<1> QED
  BY <1>1, <1>2, <1>3, <1>4, <1>5, <1>6, <1>7, <1>8, <1>9 DEF HandleLockin

LEMMA LockoutHandlerIsTyped ==
    ASSUME Typed, UNCHANGED direction, Outward,
           NEW n \in Notaries, NEW c \in Chains, NEW e \in inbox[n][c], HandleLockout(n, c, e)
    PROVE  Typed'
<1> USE KnownIsTyped, MailIsTyped, HandlingIsOffChain DEF Inward, Outward
<1>a. ASSUME NEW hash, NEW info, NEW txs, Record(n, c, e, hash, info, txs),
             Known(n, hash) => RecordOK(info), txs \subseteq Claims \cup Cancels
      PROVE  TxsTyped' /\ InNotaries'
  BY <1>a, RecordedIsTyped
<1>b. ASSUME Refuse(n, c, e) PROVE TxsTyped' /\ InNotaries'
  BY <1>b, RefusedIsTyped
<1>1. CASE QueryLockout(n, c, e)
  <2> DEFINE lock == IF c = "mc" THEN mcLockout[e.account] ELSE scLockout[e.account]
  <2>1. lock \in LockTerms
    BY <1>1 DEF QueryLockout, Handling, EventOK, Typed, OnChain, LocksTyped, AllAccounts
  <2>2. Query(n, c, e, lock) /\ e.name # "NewBlock"
    BY <1>1 DEF QueryLockout, Handling
  <2> HIDE DEF lock
  <2> QED
    BY <1>1, <2>1, <2>2, AskedIsTyped DEF QueryLockout
<1>2. CASE onMCNewBlockLockout(n, e) /\ c = "mc"
  <2>1. \A h \in DOMAIN db[n] : RecordOK([db[n][h] EXCEPT !.MCLockStatus = "Expiration"])
    BY DEF Typed, InNotaries, RecordsTyped, RecordOK, LockInfo, LockStatus
  <2>2. InNotaries'
    BY <1>2, <2>1, BlockSeenIsTyped DEF onMCNewBlockLockout, Typed, InNotaries, RecordsTyped
  <2>3. \A h \in dealing[n] : LockoutExpires(db[n][h].MCLockStatus, db[n][h].MCExpiration, e.block) =>
           [name |-> "CancelLockOut", from |-> n, account |-> db[n][h].MCUserAddressHex] \in Cancels
    BY DEF Typed, InNotaries, RecordsTyped, DealingTyped, RecordOK, LockoutExpires, Cancels
  <2>4. TxsTyped'
    BY <1>2, <2>3, SentIsTyped DEF onMCNewBlockLockout, Typed
  <2> QED
    BY <1>2, <2>2, <2>4 DEF onMCNewBlockLockout
<1>3. CASE onSCNewBlockLockout(n, e) /\ c = "sc"
  <2>1. \A h \in DOMAIN db[n] : RecordOK([db[n][h] EXCEPT !.SCLockStatus = "Expiration"])
    BY DEF Typed, InNotaries, RecordsTyped, RecordOK, LockInfo, LockStatus
  <2>2. InNotaries'
    BY <1>3, <2>1, BlockSeenIsTyped DEF onSCNewBlockLockout, Typed, InNotaries, RecordsTyped
  <2> QED
    BY <1>3, <2>2, TxsSame DEF onSCNewBlockLockout, Typed
<1>4. CASE onSCPrepareLockout(n, e) /\ c = "sc"
  <2>1. CASE Refuse(n, "sc", e)
    BY <1>4, <1>b, <2>1 DEF onSCPrepareLockout
  <2>2. CASE Panic(n)
    <3>1. TxsTyped' /\ InNotaries'
      BY <2>2, StoppedIsTyped, TxsSame DEF Panic, Typed
    <3> QED
      BY <1>4, <3>1 DEF onSCPrepareLockout
  <2>3. CASE ~Refuse(n, "sc", e) /\ ~Panic(n)
    <3> DEFINE info == [MCUserAddressHex |-> Nobody, SCUserAddress |-> e.account,
                        Secret |-> NoSecret, Amount |-> e.lock.value,
                        MCExpiration |-> calculateMCExpiration(n, e.lock.Expiration),
                        SCExpiration |-> e.lock.Expiration,
                        MCLockStatus |-> "None", SCLockStatus |-> "Lock",
                        NotaryIDInCharge |-> Nobody]
    <3>1. /\ register(n, e.lock.SecretHash, info) /\ Handled(n, "sc", e)
          /\ e.lock.SecretHash # {}
          /\ UNCHANGED <<mempool, status, fresh, seen, session, saved>>
          /\ e.name = "Queried"
      BY <1>4, <2>3, HashVocabulary DEF onSCPrepareLockout, Handling
    <3>2. e.lock \in LockTerms /\ e.block \in Nat /\ e.account \in Users
      BY <1>4, <3>1 DEF EventOK
    <3>3. e.lock.SecretHash \in Hash /\ e.lock.value \in Uint /\ e.lock.Expiration \in Nat
      BY <3>1, <3>2, HashVocabulary, CrossChainNumbers DEF LockTerms
    <3>4. seen[n]["sc"] \in Nat /\ seen[n]["mc"] \in Nat
      BY DEF Typed, InNotaries, PollingTyped, Chains
    <3>5. calculateMCExpiration(n, e.lock.Expiration) \in Nat
      BY <3>3, <3>4, UintArithmetic DEF calculateMCExpiration, HalfTheTime
    <3>6. RecordOK(info)
      BY <3>2, <3>3, <3>5, CrossChainNumbers DEF RecordOK, LockInfo, LockStatus, Uint
    <3> HIDE DEF info
    <3>7. RecordsTyped' /\ DealingTyped'
      BY <3>1, <3>3, <3>6, RegisteredIsTyped DEF Typed, InNotaries
    <3>8. TxsTyped' /\ InNotaries'
      BY <3>1, <3>7, MailHandled, PollingSame, SessionsSame, TxsSame DEF Typed, InNotaries
    <3> QED
      BY <1>4, <3>8 DEF onSCPrepareLockout
  <2> QED
    BY <2>1, <2>2, <2>3
<1>5. CASE onMCPrepareLockout4Ethereum(n, e) /\ c = "mc"
  <2> DEFINE hash == e.lock.SecretHash
             info == [db[n][hash] EXCEPT !.MCExpiration = e.lock.Expiration,
                                         !.MCLockStatus = "Lock", !.MCUserAddressHex = e.account]
  <2>1. e.lock \in LockTerms /\ e.account \in Users
    BY <1>5 DEF onMCPrepareLockout4Ethereum, Handling, EventOK
  <2>2. Known(n, hash) => RecordOK(info)
    BY <2>1, HashVocabulary, WrittenIsTyped DEF Typed
  <2>3. CASE Refuse(n, "mc", e)
    BY <1>5, <1>b, <2>3 DEF onMCPrepareLockout4Ethereum
  <2>4. CASE ~Refuse(n, "mc", e)
    <3>1. Record(n, c, e, hash, info, {})
      BY <1>5, <2>4 DEF onMCPrepareLockout4Ethereum
    <3> HIDE DEF info, hash
    <3>2. TxsTyped' /\ InNotaries'
      BY <1>a, <2>2, <3>1
    <3> QED
      BY <1>5, <3>2 DEF onMCPrepareLockout4Ethereum
  <2> QED
    BY <2>3, <2>4
<1>6. CASE onMCLockoutSecret4Ethereum(n, e) /\ c = "mc"
  <2> DEFINE hash == MC!Sha256(e.secret)
             info == [db[n][hash] EXCEPT !.Secret = e.secret, !.MCLockStatus = "Unlock"]
             txs == IF ClaimsTokens(n, db[n][hash])
                    THEN {[name |-> "Lockout", from |-> n, secret |-> e.secret,
                           account |-> db[n][hash].SCUserAddress]}
                    ELSE {}
  <2>1. e.secret \in Secrets
    BY <1>6 DEF onMCLockoutSecret4Ethereum, Handling, EventOK
  <2>2. Known(n, hash) => RecordOK(info)
    BY <2>1, WrittenIsTyped DEF Typed
  <2>2a. Known(n, hash) => txs \subseteq Claims
    BY <2>1 DEF RecordOK, Claims
  <2>3. CASE Refuse(n, "mc", e)
    BY <1>6, <1>b, <2>3 DEF onMCLockoutSecret4Ethereum
  <2>4. CASE ~Refuse(n, "mc", e)
    <3>1. Record(n, c, e, hash, info, txs) /\ Known(n, hash)
      BY <1>6, <2>4 DEF onMCLockoutSecret4Ethereum
    <3> HIDE DEF info, hash, txs
    <3>2. TxsTyped' /\ InNotaries'
      BY <1>a, <2>2, <2>2a, <3>1
    <3> QED
      BY <1>6, <3>2 DEF onMCLockoutSecret4Ethereum
  <2> QED
    BY <2>3, <2>4
<1>7. CASE onSCLockout(n, e) /\ c = "sc"
  <2> DEFINE info == [db[n][e.SecretHash] EXCEPT !.SCLockStatus = "Unlock"]
  <2>1. Known(n, e.SecretHash) => RecordOK(info)
    BY DEF RecordOK, LockInfo, LockStatus
  <2>2. CASE Refuse(n, "sc", e)
    BY <1>7, <1>b, <2>2 DEF onSCLockout
  <2>3. CASE ~Refuse(n, "sc", e)
    <3>1. Record(n, c, e, e.SecretHash, info, {})
      BY <1>7, <2>3 DEF onSCLockout
    <3> HIDE DEF info
    <3>2. TxsTyped' /\ InNotaries'
      BY <1>a, <2>1, <3>1
    <3> QED
      BY <1>7, <3>2 DEF onSCLockout
  <2> QED
    BY <2>2, <2>3
<1>8. CASE onMCCancelLockout4Ethereum(n, e) /\ c = "mc"
  <2> DEFINE info == [db[n][e.SecretHash] EXCEPT !.MCLockStatus = "Cancel"]
  <2>1. Known(n, e.SecretHash) => RecordOK(info)
    BY DEF RecordOK, LockInfo, LockStatus
  <2>2. CASE Refuse(n, "mc", e)
    BY <1>8, <1>b, <2>2 DEF onMCCancelLockout4Ethereum
  <2>3. CASE ~Refuse(n, "mc", e)
    <3>1. Record(n, c, e, e.SecretHash, info, {})
      BY <1>8, <2>3 DEF onMCCancelLockout4Ethereum
    <3> HIDE DEF info
    <3>2. TxsTyped' /\ InNotaries'
      BY <1>a, <2>1, <3>1
    <3> QED
      BY <1>8, <3>2 DEF onMCCancelLockout4Ethereum
  <2> QED
    BY <2>2, <2>3
<1>9. CASE onSCCancelLockout(n, e) /\ c = "sc"
  <2> DEFINE info == [db[n][e.SecretHash] EXCEPT !.SCLockStatus = "Cancel"]
  <2>1. Known(n, e.SecretHash) => RecordOK(info)
    BY DEF RecordOK, LockInfo, LockStatus
  <2>2. CASE Refuse(n, "sc", e)
    BY <1>9, <1>b, <2>2 DEF onSCCancelLockout
  <2>3. CASE ~Refuse(n, "sc", e)
    <3>1. Record(n, c, e, e.SecretHash, info, {})
      BY <1>9, <2>3 DEF onSCCancelLockout
    <3> HIDE DEF info
    <3>2. TxsTyped' /\ InNotaries'
      BY <1>a, <2>1, <3>1
    <3> QED
      BY <1>9, <3>2 DEF onSCCancelLockout
  <2> QED
    BY <2>2, <2>3
<1> QED
  BY <1>1, <1>2, <1>3, <1>4, <1>5, <1>6, <1>7, <1>8, <1>9 DEF HandleLockout

LEMMA EndorsedIsTyped ==
    ASSUME Typed, NEW m \in Notaries, NEW h, Known(m, h), NEW n \in Notaries, NEW x \in Nat
    PROVE  RecordOK(LockinEndorsed(db[m][h], n, x)) /\ RecordOK(LockoutEndorsed(db[m][h], n, x))
<1>1. RecordOK(db[m][h])
  BY KnownIsTyped
<1>2. RecordOK([db[m][h] EXCEPT !.SCExpiration = x, !.NotaryIDInCharge = n])
  BY <1>1 DEF RecordOK, LockInfo
<1>3. RecordOK([db[m][h] EXCEPT !.MCExpiration = x, !.NotaryIDInCharge = n])
  BY <1>1 DEF RecordOK, LockInfo
<1> QED
  BY <1>2, <1>3 DEF LockinEndorsed, LockoutEndorsed

LEMMA NotaryIsTyped ==
    ASSUME Typed, NEW n \in Notaries, NotaryStep(n)
    PROVE  Typed'
<1> UNCHANGED direction
  BY DEF NotaryStep
<1>1. ASSUME NEW c \in Chains, Poll(n, c) PROVE Typed'
  BY <1>1, PollIsTyped
<1>2. ASSUME NEW h \in Hash, NEW m \in Notaries,
             checkPrepareLockin(n, m, h) \/ checkPrepareLockout(n, m, h)
      PROVE  Typed'
  <2>1. session[n][h].expiration \in Nat
    BY HashVocabulary DEF Typed, InNotaries, SessionsTyped, SessionOK, SessionRecord
  <2>2. CASE checkPrepareLockin(n, m, h)
    BY <2>1, <2>2, EndorsedIsTyped, AnswerIsTyped DEF checkPrepareLockin
  <2>3. CASE checkPrepareLockout(n, m, h)
    BY <2>1, <2>3, EndorsedIsTyped, AnswerIsTyped DEF checkPrepareLockout
  <2> QED
    BY <1>2, <2>2, <2>3
<1>3. ASSUME NEW h \in Hash,
             callSCPrepareLockin(n, h) \/ callMCPrepareLockout(n, h) \/ takeCharge(n, h)
      PROVE  Typed'
  BY <1>3, CallIsTyped, ChargeIsTyped DEF callSCPrepareLockin, callMCPrepareLockout, Prepares
<1>4. CASE Inward /\ LockinNotaryStep(n)
  <2>1. ASSUME NEW c \in Chains, NEW e \in inbox[n][c], HandleLockin(n, c, e) PROVE Typed'
    BY <1>4, <2>1, LockinHandlerIsTyped
  <2>2. CASE LockinSessionStep(n)
    BY <1>2, <1>3, <2>2, HashVocabulary DEF LockinSessionStep
  <2> QED
    BY <1>1, <1>4, <2>1, <2>2 DEF LockinNotaryStep
<1>5. CASE Outward /\ LockoutNotaryStep(n)
  <2>1. ASSUME NEW c \in Chains, NEW e \in inbox[n][c], HandleLockout(n, c, e) PROVE Typed'
    BY <1>5, <2>1, LockoutHandlerIsTyped
  <2>2. CASE LockoutSessionStep(n)
    BY <1>2, <1>3, <2>2, HashVocabulary DEF LockoutSessionStep
  <2> QED
    BY <1>1, <1>5, <2>1, <2>2 DEF LockoutNotaryStep
<1> QED
  BY <1>4, <1>5 DEF NotaryStep

LEMMA StartStopIsTyped ==
    ASSUME Typed, NEW n \in Notaries, StartStop(n)
    PROVE  Typed'
<1> USE DEF Typed
<1>1. CASE Crash(n)
  <2>1. InNotaries' /\ TxsTyped'
    BY <1>1, StoppedIsTyped, TxsSame DEF Crash, StartStop
  <2>2. OnChain'
    <3>1. crashes' \in 0 .. MaxCrashes
      BY <1>1, CrossChainNumbers DEF OnChain, BoundsKept, Crash
    <3> QED
      BY <1>1, <3>1, LogsSame
      DEF OnChain, LocksTyped, ChainTyped, TokenTyped, BoundsKept, mcVars, scVars, Crash
  <2> QED
    BY <2>1, <2>2 DEF StartStop
<1>2. CASE Restart(n)
  <2>1. RecordsTyped' /\ SessionsTyped' /\ TxsTyped' /\ OnChain'
    BY <1>2, RecordsSame, SessionsSame, TxsSame, OnChainSame DEF Restart, InNotaries, StartStop
  <2>2. DealingTyped' /\ PollingTyped' /\ MailTyped'
    BY <1>2 DEF Restart, InNotaries, DealingTyped, PollingTyped, MailTyped, EventOK
  <2> QED
    BY <1>2, <2>1, <2>2 DEF Restart, InNotaries, StartStop
<1> QED
  BY <1>1, <1>2 DEF StartStop

LEMMA InitIsTyped == Init => Typed
<1> SUFFICES ASSUME Init PROVE Typed
  OBVIOUS
<1> USE CrossChainNumbers, EtherCanBeCounted, HashVocabulary
<1>1. InitNotaries /\ direction \in {"lockin", "lockout"} /\ MC!OwnedInit
  BY DEF Init, LockinInit, LockoutInit, MC!Init, SC!Init, Inward, Outward
<1>2. LocksTyped
  BY DEF Init, LockinInit, LockoutInit, MC!Init, SC!Init, LocksTyped, LockTerms
<1>3. EtherSupply * Cardinality(Users) \in Nat
  BY FS_CardinalityType
<1>4. ChainTyped
  BY <1>1, <1>3 DEF Init, LockinInit, LockoutInit, MC!Init, SC!Init, ChainTyped, MC!OwnedInit, AllAccounts
<1>5. TokenTyped
  <2>1. Users # {} => EtherSupply <= EtherSupply * Cardinality(Users)
    <3>1. Users # {} => Cardinality(Users) >= 1
      BY FS_EmptySet, FS_CardinalityType
    <3> QED
      BY <1>3, <3>1, FS_CardinalityType
  <2>2. {0, 1, 1 + EtherSupply * Cardinality(Users)} \subseteq Uint
    BY <1>3 DEF Uint
  <2>3. Users # {} => EtherSupply \in Uint
    BY <1>3, <2>1 DEF Uint
  <2> QED
    <3> USE <2>2
    <3>1. totalSupply \in Uint
      BY DEF Init, LockinInit, LockoutInit, SC!Init
    <3>2. balances \in [AllAccounts -> Uint]
      BY <2>3 DEF Init, LockinInit, LockoutInit, SC!Init, MintedBefore
    <3>3. allowed \in [AllAccounts -> [AllAccounts -> Uint]]
      BY DEF Init, LockinInit, LockoutInit, SC!Init
    <3> QED
      BY <3>1, <3>2, <3>3 DEF TokenTyped
<1>6. LogsTyped /\ BoundsKept /\ TxsTyped
  BY <1>1 DEF InitNotaries, LogsTyped, Log, BoundsKept, TxsTyped
<1>7. InNotaries
  <2>1. SessionOK(Idle)
    BY DEF Idle, SessionOK, SessionRecord, Uint, Chains
  <2>2. SessionsTyped
    BY <1>1, <2>1 DEF InitNotaries, SessionsTyped
  <2>3. RecordsTyped /\ DealingTyped /\ PollingTyped /\ MailTyped
    BY <1>1 DEF InitNotaries, RecordsTyped, DealingTyped, PollingTyped, MailTyped, Chains
  <2> QED
    BY <2>2, <2>3 DEF InNotaries
<1> QED
  BY <1>1, <1>2, <1>4, <1>5, <1>6, <1>7 DEF Typed, OnChain

LEMMA TypedIsTypeOK == Typed => TypeOK
<1> SUFFICES ASSUME Typed PROVE TypeOK
  OBVIOUS
<1> USE DEF Typed, OnChain
<1>1. MC!TypeOK
  <2>1. {mcLockin, mcLockout} \subseteq [AllAccounts -> MC!LockRecord]
    BY HashVocabulary DEF LocksTyped
  <2> QED
    BY <2>1 DEF MC!TypeOK, ChainTyped, MC!OwnedTypeOK
<1>2. SC!TypeOK
  <2>1. {scLockin, scLockout} \subseteq [AllAccounts -> SC!LockRecord]
    BY HashVocabulary DEF LocksTyped
  <2>2. \A a \in AllAccounts : scLockin[a].value \in Uint /\ scLockout[a].value \in Uint
    BY HashVocabulary DEF LocksTyped
  <2> QED
    BY <2>1, <2>2 DEF SC!TypeOK, SC!uint256, Uint, ChainTyped, TokenTyped, SC!OwnedTypeOK
<1>3. mempool \subseteq
         LET calls == {"Lockin", "CancelLockin", "PrepareLockin",
                       "Lockout", "CancelLockOut", "PrepareLockout"} IN
         [name : calls, from : Notaries, account : Users, secret : Secrets]
         \cup [name : calls, from : Notaries, account : Users \cup {Nobody}]
         \cup [name : calls, from : Notaries, account : Users, hash : Hash,
                expiration : Nat, value : Nat]
  <2> DEFINE calls == {"Lockin", "CancelLockin", "PrepareLockin",
                       "Lockout", "CancelLockOut", "PrepareLockout"}
  <2>1. Claims \subseteq [name : calls, from : Notaries, account : Users, secret : Secrets]
    BY DEF Claims
  <2>2. Cancels \subseteq [name : calls, from : Notaries, account : Users \cup {Nobody}]
    BY DEF Cancels
  <2>3. Prepared \subseteq [name : calls, from : Notaries, account : Users, hash : Hash,
                            expiration : Nat, value : Nat]
    BY CrossChainNumbers DEF Prepared, Prepares, Uint
  <2> QED
    BY <2>1, <2>2, <2>3 DEF TxsTyped
<1>4. ASSUME NEW n \in Notaries
      PROVE  /\ DOMAIN db[n] \subseteq Hash /\ \A h \in DOMAIN db[n] : db[n][h] \in LockInfo
             /\ dealing[n] \subseteq DOMAIN db[n]
             /\ {saved[n], seen[n]} \subseteq [Chains -> Nat] /\ fresh[n] \in [Chains -> BOOLEAN]
             /\ \A h \in Hash : session[n][h].amount \in Nat /\ session[n][h].expiration \in Nat
  <2>1. \A h \in Hash : session[n][h] \in SessionRecord
    BY HashVocabulary DEF InNotaries, SessionsTyped, SessionOK
  <2>2. \A h \in Hash : session[n][h].amount \in Nat /\ session[n][h].expiration \in Nat
    BY <2>1, CrossChainNumbers DEF SessionRecord, Uint
  <2> QED
    BY <2>2 DEF InNotaries, RecordsTyped, RecordOK, DealingTyped, PollingTyped
<1> QED
  BY <1>1, <1>2, <1>3, <1>4 DEF TypeOK, NotariesTypeOK, BoundsKept, InNotaries, PollingTyped

LEMMA StuttersAreTyped == ASSUME Typed, UNCHANGED transferVars PROVE Typed'
BY OnChainSame, TxsSame, InNotariesSame DEF Typed, transferVars, vars, OnChain

(* Every state of every transfer is typed: the inductive invariant that    *)
(* TypeOK needs.  A record whose lock the notaries set names the account   *)
(* it is for, and a session that collects signatures the one it pays.      *)
THEOREM AlwaysTyped == Spec => []Typed
<1>1. ASSUME Typed, [Next]_transferVars PROVE Typed'
  BY <1>1, StuttersAreTyped, GrowthIsTyped, UserIsTyped, MiningIsTyped, NotaryIsTyped,
     StartStopIsTyped DEF Next
<1> QED
  BY InitIsTyped, <1>1, PTL DEF Spec

(* TypeOK: no arithmetic of the token leaves 0 .. UintMax, block numbers    *)
(* and expirations stay natural numbers through the halving of             *)
(* calculateSCExpiration and calculateMCExpiration, transactions of the    *)
(* notaries are well-formed, and dealingMap holds known records only.      *)
THEOREM TypeCorrectness == Spec => []TypeOK
BY AlwaysTyped, TypedIsTypeOK, PTL

-----------------------------------------------------------------------------
(* What records, inboxes and logs have to do with each other.              *)

\* What a record of hash h says happened, did.
LockinTruth(info, h) ==
    /\ info.MCLockStatus = "Unlock" => Claimed(h)
    /\ info.MCLockStatus = "Cancel" => Refunded(h)
    /\ info.SCLockStatus = "Unlock" => Minted(h)
    /\ info.SCLockStatus = "Cancel" => TokensWithdrawn(h)
LockoutTruth(info, h) ==
    /\ info.MCLockStatus = "Unlock" => Released(h)
    /\ info.MCLockStatus = "Cancel" => EtherWithdrawn(h)
    /\ info.SCLockStatus = "Unlock" => Destroyed(h)
    /\ info.SCLockStatus = "Cancel" => Returned(h)
Truthful(info, h) == /\ Inward => LockinTruth(info, h)
                     /\ Outward => LockoutTruth(info, h)

HasStatus(info) == {"MCLockStatus", "SCLockStatus"} \subseteq DOMAIN info

RecordsTold == /\ DOMAIN db = Notaries
               /\ \A n \in Notaries : \A h \in DOMAIN db[n] :
                     HasStatus(db[n][h]) /\ Truthful(db[n][h], h)

\* An event is either one of the notary's own, or it is in the chain's log.
Own == {"NewBlock", "Queried"}
Genuine(c, e) == e.name \in Own \/ e \in Log(c)
MailIsGenuine == /\ DOMAIN inbox = Notaries
                 /\ \A n \in Notaries : DOMAIN inbox[n] = Chains
                 /\ \A n \in Notaries, c \in Chains : \A e \in inbox[n][c] : Genuine(c, e)

TruthInv == /\ direction \in {"lockin", "lockout"}
            /\ RecordsTold
            /\ MailIsGenuine

\* The chains keep what is in their logs.
LogsGrow == mcLog \subseteq mcLog' /\ scLog \subseteq scLog' /\ direction' = direction

LEMMA TruthLasts ==
    ASSUME LogsGrow, NEW info, NEW h, Truthful(info, h)
    PROVE  Truthful(info, h)'
BY DEF LogsGrow, Truthful, Inward, Outward, LockinTruth, LockoutTruth, Claimed, Refunded, Minted,
       TokensWithdrawn, Released, EtherWithdrawn, Destroyed, Returned, Logged

LEMMA GenuineLasts ==
    ASSUME LogsGrow, NEW c \in Chains, NEW e, Genuine(c, e)
    PROVE  Genuine(c, e)'
BY DEF LogsGrow, Genuine, Log, Chains

-----------------------------------------------------------------------------
(* What a step may do to the records and to the inboxes.                   *)
RecordsStayTrue ==
    /\ DOMAIN db' = DOMAIN db
    /\ \A n \in Notaries : \A h \in DOMAIN db'[n] :
          \/ h \in DOMAIN db[n] /\ db'[n][h] = db[n][h]
          \/ HasStatus(db'[n][h]) /\ Truthful(db'[n][h], h)

MailKept ==
    /\ DOMAIN inbox' = DOMAIN inbox
    /\ \A n \in Notaries : DOMAIN inbox'[n] = DOMAIN inbox[n]
    /\ \A n \in Notaries, c \in Chains : \A e \in inbox'[n][c] : e \in inbox[n][c] \/ Genuine(c, e)

LEMMA TruthStays ==
    ASSUME TruthInv, LogsGrow, MailKept, RecordsStayTrue
    PROVE  TruthInv'
<1>1. MailIsGenuine'
  BY GenuineLasts DEF TruthInv, MailIsGenuine, MailKept
<1>2. RecordsTold'
  <2>1. DOMAIN db' = Notaries
    BY DEF TruthInv, RecordsTold, RecordsStayTrue
  <2>2. ASSUME NEW m \in Notaries, NEW h \in DOMAIN db'[m]
        PROVE  HasStatus(db'[m][h]) /\ Truthful(db'[m][h], h)
    BY DEF TruthInv, RecordsTold, RecordsStayTrue
  <2>3. ASSUME NEW m \in Notaries, NEW h \in DOMAIN db'[m]
        PROVE  Truthful(db[m][h], h)'
    <3>1. PICK info : info = db'[m][h]
      OBVIOUS
    <3>2. Truthful(info, h)'
      BY <2>2, <3>1, TruthLasts
    <3> QED
      BY <3>1, <3>2
  <2>4. ASSUME NEW m \in Notaries, NEW h \in DOMAIN db'[m]
        PROVE  HasStatus(db[m][h])'
    BY <2>2 DEF HasStatus
  <2> QED
    BY <2>1, <2>3, <2>4 DEF RecordsTold
<1> QED
  BY <1>1, <1>2 DEF TruthInv, LogsGrow

LEMMA NothingWritten ==
    ASSUME TruthInv, LogsGrow, MailKept, db' = db
    PROVE  TruthInv'
BY TruthStays DEF RecordsStayTrue

-----------------------------------------------------------------------------
(* The building blocks of the handlers.                                    *)

\* What the handler of an event and the events it leaves keep in the inbox.
LEMMA HandledKeepsMail ==
    ASSUME TruthInv, NEW n \in Notaries, NEW c \in Chains, NEW e, Handled(n, c, e)
    PROVE  MailKept
BY DEF TruthInv, MailIsGenuine, Handled, MailKept

LEMMA NoMail ==
    ASSUME TruthInv, inbox' = inbox
    PROVE  MailKept
BY DEF MailKept

LEMMA Refused ==
    ASSUME TruthInv, LogsGrow, NEW n \in Notaries, NEW c \in Chains, NEW e, Refuse(n, c, e)
    PROVE  TruthInv'
BY HandledKeepsMail, NothingWritten DEF Refuse

LEMMA Stopped ==
    ASSUME TruthInv, LogsGrow, NEW n \in Notaries, NEW how, Stop(n, how)
    PROVE  TruthInv'
<1>1. MailKept
  BY DEF TruthInv, MailIsGenuine, MailKept, Stop, Chains
<1> QED
  BY <1>1, NothingWritten DEF Stop

\* A record that is not there is not made by updating it.
LEMMA Updated ==
    ASSUME TruthInv, NEW n \in Notaries, NEW hash, NEW info, update(n, hash, info),
           Known(n, hash) => HasStatus(info) /\ Truthful(info, hash)
    PROVE  RecordsStayTrue
BY DEF TruthInv, RecordsTold, update, RecordsStayTrue, Known

LEMMA Registered ==
    ASSUME TruthInv, NEW n \in Notaries, NEW hash, NEW info, register(n, hash, info),
           HasStatus(info) /\ Truthful(info, hash)
    PROVE  RecordsStayTrue
BY DEF TruthInv, RecordsTold, register, RecordsStayTrue

LEMMA Recorded ==
    ASSUME TruthInv, LogsGrow, NEW n \in Notaries, NEW c \in Chains, NEW e, NEW hash, NEW txs,
           NEW info, HasStatus(info), Truthful(info, hash),
           Record(n, c, e, hash, info, txs)
    PROVE  TruthInv'
<1>1. CASE hash \in dealing[n]
  BY <1>1, HandledKeepsMail, Updated, TruthStays DEF Record
<1>2. CASE hash \notin dealing[n]
  BY <1>2, Stopped DEF Record, Panic
<1> QED
  BY <1>1, <1>2

LEMMA Asked ==
    ASSUME TruthInv, LogsGrow, NEW n \in Notaries, NEW c \in Chains, NEW e, NEW lock,
           Query(n, c, e, lock)
    PROVE  TruthInv'
<1>1. MailKept
  BY DEF TruthInv, MailIsGenuine, MailKept, Query, Genuine, Own
<1> QED
  BY <1>1, NothingWritten DEF Query

\* An event of the chain that a handler runs for was logged.
LEMMA EventWasLogged ==
    ASSUME TruthInv, NEW n \in Notaries, NEW c \in Chains, NEW e, NEW name, name \notin Own,
           Handling(n, c, e, name)
    PROVE  e \in Log(c) /\ e.name = name
BY DEF TruthInv, MailIsGenuine, Handling, Genuine

LEMMA HandlingKeepsLogs ==
    ASSUME NEW n, NEW c, NEW e, NEW name, Handling(n, c, e, name), direction' = direction
    PROVE  LogsGrow
BY DEF Handling, LogsGrow, mcVars, scVars

\* A record that is known, and what is written into it.
LEMMA KnownIsTold ==
    ASSUME TruthInv, NEW n \in Notaries, NEW hash, Known(n, hash)
    PROVE  HasStatus(db[n][hash]) /\ Truthful(db[n][hash], hash)
BY DEF TruthInv, RecordsTold, Known

-----------------------------------------------------------------------------
(* What lockin and lockout have in common.                                 *)
LEMMA PollStep ==
    ASSUME TruthInv, LogsGrow, NEW n \in Notaries, NEW c \in Chains, Poll(n, c)
    PROVE  TruthInv'
<1>1. MailKept
  BY DEF TruthInv, MailIsGenuine, MailKept, Poll, Genuine, Own
<1> QED
  BY <1>1, NothingWritten DEF Poll

LEMMA AnswerStep ==
    ASSUME TruthInv, LogsGrow, NEW n \in Notaries, NEW m \in Notaries, NEW hash, NEW agrees,
           NEW info, agrees => HasStatus(info) /\ Truthful(info, hash),
           Answer(n, m, hash, agrees, info)
    PROVE  TruthInv'
<1>1. CASE agrees
  BY <1>1, NoMail, Updated, TruthStays DEF Answer
<1>2. CASE ~agrees
  BY <1>2, NoMail, NothingWritten DEF Answer
<1> QED
  BY <1>1, <1>2

LEMMA ChargeStep ==
    ASSUME TruthInv, LogsGrow, NEW n \in Notaries, NEW hash, takeCharge(n, hash)
    PROVE  TruthInv'
<1> DEFINE info == [db[n][hash] EXCEPT !.NotaryIDInCharge = n]
<1>1. Known(n, hash) => HasStatus(info) /\ Truthful(info, hash)
  BY KnownIsTold DEF HasStatus, Truthful, LockinTruth, LockoutTruth
<1>2. CASE hash \in dealing[n]
  <2>1. update(n, hash, info) /\ inbox' = inbox
    BY <1>2 DEF takeCharge
  <2> HIDE DEF info
  <2> QED
    BY <1>1, <2>1, NoMail, Updated, TruthStays
<1>3. CASE hash \notin dealing[n]
  BY <1>3, Stopped DEF takeCharge
<1> QED
  BY <1>2, <1>3

-----------------------------------------------------------------------------
(* A lockin.                                                               *)
LEMMA LockinHandled ==
    ASSUME TruthInv, direction' = direction, Inward,
           NEW n \in Notaries, NEW c \in Chains, NEW e \in inbox[n][c], HandleLockin(n, c, e)
    PROVE  TruthInv'
<1> USE KnownIsTold DEF Inward, Outward
<1>a. LogsGrow
  BY HandlingKeepsLogs
  DEF HandleLockin, QueryLockin, onMCNewBlockLockin, onSCNewBlockLockin,
      onMCPrepareLockin4Ethereum, onSCPrepareLockin, onSCLockinSecret, onMCLockin4Ethereum,
      onMCCancelLockin4Ethereum, onSCCancelLockin
<1>1. CASE QueryLockin(n, c, e)
  BY <1>1, <1>a, Asked DEF QueryLockin
<1>2. CASE onMCNewBlockLockin(n, e) /\ c = "mc"
  <2>1. MailKept
    BY <1>2, HandledKeepsMail DEF onMCNewBlockLockin
  <2>2. RecordsStayTrue
    BY <1>2 DEF TruthInv, RecordsTold, onMCNewBlockLockin, RecordsStayTrue, LockinMCExpired,
                HasStatus, Truthful, LockinTruth
  <2> QED
    BY <1>a, <2>1, <2>2, TruthStays
<1>3. CASE onSCNewBlockLockin(n, e) /\ c = "sc"
  <2>1. MailKept
    BY <1>3, HandledKeepsMail DEF onSCNewBlockLockin
  <2>2. RecordsStayTrue
    BY <1>3 DEF TruthInv, RecordsTold, onSCNewBlockLockin, RecordsStayTrue,
                HasStatus, Truthful, LockinTruth
  <2> QED
    BY <1>a, <2>1, <2>2, TruthStays
<1>4. CASE onMCPrepareLockin4Ethereum(n, e) /\ c = "mc"
  <2>1. CASE Refuse(n, "mc", e)
    BY <1>a, <1>4, <2>1, Refused
  <2>2. ASSUME NEW info, register(n, e.lock.SecretHash, info), Handled(n, "mc", e),
               info.MCLockStatus = "Lock", info.SCLockStatus = "None", HasStatus(info)
        PROVE  TruthInv'
    BY <1>a, <1>4, <2>2, Registered, HandledKeepsMail, TruthStays DEF Truthful, LockinTruth
  <2> QED
    BY <1>4, <2>1, <2>2 DEF onMCPrepareLockin4Ethereum, HasStatus
<1>5. CASE onSCPrepareLockin(n, e) /\ c = "sc"
  <2> DEFINE hash == e.lock.SecretHash
             info == [db[n][hash] EXCEPT !.SCExpiration = e.lock.Expiration,
                                         !.SCLockStatus = "Lock", !.SCUserAddress = e.account]
  <2>1. CASE ~Known(n, hash)
    BY <1>a, <1>5, <2>1, Refused DEF onSCPrepareLockin
  <2>2. CASE Known(n, hash)
    <3>1. HasStatus(info) /\ Truthful(info, hash)
      BY <2>2 DEF HasStatus, Truthful, LockinTruth
    <3>2. Record(n, "sc", e, hash, info, {})
      BY <1>5, <2>2 DEF onSCPrepareLockin
    <3> HIDE DEF info, hash
    <3> QED
      BY <1>a, <1>5, <3>1, <3>2, Recorded
  <2> QED
    BY <2>1, <2>2
<1>6. CASE onSCLockinSecret(n, e) /\ c = "sc"
  <2> DEFINE hash == SC!Sha256(e.secret)
             info == [db[n][hash] EXCEPT !.Secret = e.secret, !.SCLockStatus = "Unlock"]
  <2>1. CASE Refuse(n, "sc", e)
    BY <1>a, <1>6, <2>1, Refused
  <2>2. CASE ~Refuse(n, "sc", e)
    <3>1. Known(n, hash) /\ Minted(hash)
      BY <1>6, <2>2, EventWasLogged DEF onSCLockinSecret, Own, Minted, Log
    <3>2. HasStatus(info) /\ Truthful(info, hash)
      BY <3>1 DEF HasStatus, Truthful, LockinTruth
    <3>3. \E txs : Record(n, "sc", e, hash, info, txs)
      BY <1>6, <2>2 DEF onSCLockinSecret
    <3> HIDE DEF info, hash
    <3> QED
      BY <1>a, <1>6, <3>2, <3>3, Recorded
  <2> QED
    BY <2>1, <2>2
<1>7. CASE onMCLockin4Ethereum(n, e) /\ c = "mc"
  <2> DEFINE info == [db[n][e.SecretHash] EXCEPT !.MCLockStatus = "Unlock"]
  <2>1. CASE Refuse(n, "mc", e)
    BY <1>a, <1>7, <2>1, Refused
  <2>2. CASE ~Refuse(n, "mc", e)
    <3>1. Known(n, e.SecretHash) /\ Claimed(e.SecretHash)
      BY <1>7, <2>2, EventWasLogged DEF onMCLockin4Ethereum, Own, Claimed, Logged, Log
    <3>2. HasStatus(info) /\ Truthful(info, e.SecretHash)
      BY <3>1 DEF HasStatus, Truthful, LockinTruth
    <3>3. Record(n, "mc", e, e.SecretHash, info, {})
      BY <1>7, <2>2 DEF onMCLockin4Ethereum
    <3> HIDE DEF info
    <3> QED
      BY <1>a, <1>7, <3>2, <3>3, Recorded
  <2> QED
    BY <2>1, <2>2
<1>8. CASE onMCCancelLockin4Ethereum(n, e) /\ c = "mc"
  <2> DEFINE info == [db[n][e.SecretHash] EXCEPT !.MCLockStatus = "Cancel"]
  <2>1. CASE Refuse(n, "mc", e)
    BY <1>a, <1>8, <2>1, Refused
  <2>2. CASE ~Refuse(n, "mc", e)
    <3>1. Known(n, e.SecretHash) /\ Refunded(e.SecretHash)
      BY <1>8, <2>2, EventWasLogged DEF onMCCancelLockin4Ethereum, Own, Refunded, Logged, Log
    <3>2. HasStatus(info) /\ Truthful(info, e.SecretHash)
      BY <3>1 DEF HasStatus, Truthful, LockinTruth
    <3>3. Record(n, "mc", e, e.SecretHash, info, {})
      BY <1>8, <2>2 DEF onMCCancelLockin4Ethereum
    <3> HIDE DEF info
    <3> QED
      BY <1>a, <1>8, <3>2, <3>3, Recorded
  <2> QED
    BY <2>1, <2>2
<1>9. CASE onSCCancelLockin(n, e) /\ c = "sc"
  <2> DEFINE info == [db[n][e.SecretHash] EXCEPT !.SCLockStatus = "Cancel"]
  <2>1. CASE Refuse(n, "sc", e)
    BY <1>a, <1>9, <2>1, Refused
  <2>2. CASE ~Refuse(n, "sc", e)
    <3>1. Known(n, e.SecretHash) /\ TokensWithdrawn(e.SecretHash)
      BY <1>9, <2>2, EventWasLogged DEF onSCCancelLockin, Own, TokensWithdrawn, Logged, Log
    <3>2. HasStatus(info) /\ Truthful(info, e.SecretHash)
      BY <3>1 DEF HasStatus, Truthful, LockinTruth
    <3>3. Record(n, "sc", e, e.SecretHash, info, {})
      BY <1>9, <2>2 DEF onSCCancelLockin
    <3> HIDE DEF info
    <3> QED
      BY <1>a, <1>9, <3>2, <3>3, Recorded
  <2> QED
    BY <2>1, <2>2
<1> QED
  BY <1>1, <1>2, <1>3, <1>4, <1>5, <1>6, <1>7, <1>8, <1>9 DEF HandleLockin

-----------------------------------------------------------------------------
(* A lockout.                                                              *)
LEMMA LockoutHandled ==
    ASSUME TruthInv, direction' = direction, Outward,
           NEW n \in Notaries, NEW c \in Chains, NEW e \in inbox[n][c], HandleLockout(n, c, e)
    PROVE  TruthInv'
<1> USE KnownIsTold DEF Inward, Outward
<1>a. LogsGrow
  BY HandlingKeepsLogs
  DEF HandleLockout, QueryLockout, onMCNewBlockLockout, onSCNewBlockLockout,
      onSCPrepareLockout, onMCPrepareLockout4Ethereum, onMCLockoutSecret4Ethereum, onSCLockout,
      onMCCancelLockout4Ethereum, onSCCancelLockout
<1>1. CASE QueryLockout(n, c, e)
  BY <1>1, <1>a, Asked DEF QueryLockout
<1>2. CASE onMCNewBlockLockout(n, e) /\ c = "mc"
  <2>1. MailKept
    BY <1>2, HandledKeepsMail DEF onMCNewBlockLockout
  <2>2. RecordsStayTrue
    BY <1>2 DEF TruthInv, RecordsTold, onMCNewBlockLockout, RecordsStayTrue,
                HasStatus, Truthful, LockoutTruth
  <2> QED
    BY <1>a, <2>1, <2>2, TruthStays
<1>3. CASE onSCNewBlockLockout(n, e) /\ c = "sc"
  <2>1. MailKept
    BY <1>3, HandledKeepsMail DEF onSCNewBlockLockout
  <2>2. RecordsStayTrue
    BY <1>3 DEF TruthInv, RecordsTold, onSCNewBlockLockout, RecordsStayTrue,
                HasStatus, Truthful, LockoutTruth
  <2> QED
    BY <1>a, <2>1, <2>2, TruthStays
<1>4. CASE onSCPrepareLockout(n, e) /\ c = "sc"
  <2>1. CASE Refuse(n, "sc", e)
    BY <1>a, <1>4, <2>1, Refused
  <2>2. CASE Panic(n)
    BY <1>a, <2>2, Stopped DEF Panic
  <2>3. ASSUME NEW info, register(n, e.lock.SecretHash, info), Handled(n, "sc", e),
               info.MCLockStatus = "None", info.SCLockStatus = "Lock", HasStatus(info)
        PROVE  TruthInv'
    BY <1>a, <1>4, <2>3, Registered, HandledKeepsMail, TruthStays DEF Truthful, LockoutTruth
  <2> QED
    BY <1>4, <2>1, <2>2, <2>3 DEF onSCPrepareLockout, HasStatus
<1>5. CASE onMCPrepareLockout4Ethereum(n, e) /\ c = "mc"
  <2> DEFINE hash == e.lock.SecretHash
             info == [db[n][hash] EXCEPT !.MCExpiration = e.lock.Expiration,
                                         !.MCLockStatus = "Lock", !.MCUserAddressHex = e.account]
  <2>1. CASE Refuse(n, "mc", e)
    BY <1>a, <1>5, <2>1, Refused
  <2>2. CASE ~Refuse(n, "mc", e)
    <3>1. Known(n, hash) /\ Record(n, "mc", e, hash, info, {})
      BY <1>5, <2>2 DEF onMCPrepareLockout4Ethereum
    <3>2. HasStatus(info) /\ Truthful(info, hash)
      BY <3>1 DEF HasStatus, Truthful, LockoutTruth
    <3> HIDE DEF info, hash
    <3> QED
      BY <1>a, <1>5, <3>1, <3>2, Recorded
  <2> QED
    BY <2>1, <2>2
<1>6. CASE onMCLockoutSecret4Ethereum(n, e) /\ c = "mc"
  <2> DEFINE hash == MC!Sha256(e.secret)
             info == [db[n][hash] EXCEPT !.Secret = e.secret, !.MCLockStatus = "Unlock"]
  <2>1. CASE Refuse(n, "mc", e)
    BY <1>a, <1>6, <2>1, Refused
  <2>2. CASE ~Refuse(n, "mc", e)
    <3>1. Known(n, hash) /\ Released(hash)
      BY <1>6, <2>2, EventWasLogged DEF onMCLockoutSecret4Ethereum, Own, Released, Log
    <3>2. HasStatus(info) /\ Truthful(info, hash)
      BY <3>1 DEF HasStatus, Truthful, LockoutTruth
    <3>3. \E txs : Record(n, "mc", e, hash, info, txs)
      BY <1>6, <2>2 DEF onMCLockoutSecret4Ethereum
    <3> HIDE DEF info, hash
    <3> QED
      BY <1>a, <1>6, <3>2, <3>3, Recorded
  <2> QED
    BY <2>1, <2>2
<1>7. CASE onSCLockout(n, e) /\ c = "sc"
  <2> DEFINE info == [db[n][e.SecretHash] EXCEPT !.SCLockStatus = "Unlock"]
  <2>1. CASE Refuse(n, "sc", e)
    BY <1>a, <1>7, <2>1, Refused
  <2>2. CASE ~Refuse(n, "sc", e)
    <3>1. Known(n, e.SecretHash) /\ Destroyed(e.SecretHash)
      BY <1>7, <2>2, EventWasLogged DEF onSCLockout, Own, Destroyed, Logged, Log
    <3>2. HasStatus(info) /\ Truthful(info, e.SecretHash)
      BY <3>1 DEF HasStatus, Truthful, LockoutTruth
    <3>3. Record(n, "sc", e, e.SecretHash, info, {})
      BY <1>7, <2>2 DEF onSCLockout
    <3> HIDE DEF info
    <3> QED
      BY <1>a, <1>7, <3>2, <3>3, Recorded
  <2> QED
    BY <2>1, <2>2
<1>8. CASE onMCCancelLockout4Ethereum(n, e) /\ c = "mc"
  <2> DEFINE info == [db[n][e.SecretHash] EXCEPT !.MCLockStatus = "Cancel"]
  <2>1. CASE Refuse(n, "mc", e)
    BY <1>a, <1>8, <2>1, Refused
  <2>2. CASE ~Refuse(n, "mc", e)
    <3>1. Known(n, e.SecretHash) /\ EtherWithdrawn(e.SecretHash)
      BY <1>8, <2>2, EventWasLogged DEF onMCCancelLockout4Ethereum, Own, EtherWithdrawn, Logged, Log
    <3>2. HasStatus(info) /\ Truthful(info, e.SecretHash)
      BY <3>1 DEF HasStatus, Truthful, LockoutTruth
    <3>3. Record(n, "mc", e, e.SecretHash, info, {})
      BY <1>8, <2>2 DEF onMCCancelLockout4Ethereum
    <3> HIDE DEF info
    <3> QED
      BY <1>a, <1>8, <3>2, <3>3, Recorded
  <2> QED
    BY <2>1, <2>2
<1>9. CASE onSCCancelLockout(n, e) /\ c = "sc"
  <2> DEFINE info == [db[n][e.SecretHash] EXCEPT !.SCLockStatus = "Cancel"]
  <2>1. CASE Refuse(n, "sc", e)
    BY <1>a, <1>9, <2>1, Refused
  <2>2. CASE ~Refuse(n, "sc", e)
    <3>1. Known(n, e.SecretHash) /\ Returned(e.SecretHash)
      BY <1>9, <2>2, EventWasLogged DEF onSCCancelLockout, Own, Returned, Logged, Log
    <3>2. HasStatus(info) /\ Truthful(info, e.SecretHash)
      BY <3>1 DEF HasStatus, Truthful, LockoutTruth
    <3>3. Record(n, "sc", e, e.SecretHash, info, {})
      BY <1>9, <2>2 DEF onSCCancelLockout
    <3> HIDE DEF info
    <3> QED
      BY <1>a, <1>9, <3>2, <3>3, Recorded
  <2> QED
    BY <2>1, <2>2
<1> QED
  BY <1>1, <1>2, <1>3, <1>4, <1>5, <1>6, <1>7, <1>8, <1>9 DEF HandleLockout

-----------------------------------------------------------------------------
(* What neither writes a record nor delivers an event.                     *)
LEMMA Undisturbed ==
    ASSUME TruthInv, LogsGrow, UNCHANGED <<db, inbox>>
    PROVE  TruthInv'
BY NoMail, NothingWritten

LEMMA ChainsKeepLogs ==
    ASSUME direction' = direction, MCGrows \/ SCGrows \/ UserStep \/ Mining
    PROVE  LogsGrow /\ UNCHANGED <<db, inbox>>
<1> USE DEF LogsGrow, mcVars, scVars, nodeVars
<1>1. CASE MCGrows \/ SCGrows
  BY <1>1 DEF MCGrows, SCGrows, MCNewBlock, SCNewBlock
<1>2. CASE UserStep
  <2>1. CASE LockinUserStep
    BY <2>1 DEF LockinUserStep, UserPrepareLockin, UserCancelLockin, UserLockin, OnMC, OnSC,
                onSCPrepareLockinRequest, OpenSession
  <2>2. CASE LockoutUserStep
    BY <2>2 DEF LockoutUserStep, UserPrepareLockout, UserCancelLockOut, CancleLockOut, UserLockout,
                OnMC, OnSC, onMCPrepareLockoutRequest, OpenSession
  <2> QED
    BY <1>2, <2>1, <2>2 DEF UserStep
<1>3. CASE Mining
  <2>1. ASSUME NEW tx \in mempool, LockinMined(tx) PROVE LogsGrow /\ UNCHANGED <<db, inbox>>
    BY <2>1 DEF LockinMined, MinedMCLockin, MinedSCCancelLockin, MinedSCPrepareLockin
  <2>2. ASSUME NEW tx \in mempool, LockoutMined(tx) PROVE LogsGrow /\ UNCHANGED <<db, inbox>>
    BY <2>2 DEF LockoutMined, MinedSCLockout, MinedSCCancelLockOut, MinedMCPrepareLockout
  <2> QED
    BY <1>3, <2>1, <2>2 DEF Mining
<1> QED
  BY <1>1, <1>2, <1>3

LEMMA NotaryKeepsTruth ==
    ASSUME TruthInv, NEW n \in Notaries, NotaryStep(n)
    PROVE  TruthInv'
<1>1. direction' = direction
  BY DEF NotaryStep
<1>2. ASSUME NEW c \in Chains, Poll(n, c) PROVE TruthInv'
  BY <1>1, <1>2, PollStep DEF Poll, LogsGrow, mcVars, scVars
<1>3. ASSUME NEW h, takeCharge(n, h) PROVE TruthInv'
  BY <1>1, <1>3, ChargeStep DEF takeCharge, LogsGrow, mcVars, scVars
<1>4. ASSUME NEW h, NEW name, callPrepare(n, h, name) PROVE TruthInv'
  BY <1>1, <1>4, Undisturbed DEF callPrepare, LogsGrow, mcVars, scVars
<1>5. ASSUME NEW m \in Notaries, NEW h, checkPrepareLockin(n, m, h) PROVE TruthInv'
  <2> DEFINE info == LockinEndorsed(db[m][h], n, session[n][h].expiration)
             agrees == LockinSignable(m, h, session[n][h])
  <2>1. agrees => HasStatus(info) /\ Truthful(info, h)
    BY KnownIsTold DEF LockinSignable, LockinRequested, LockinEndorsed, HasStatus, Truthful,
                       LockinTruth, LockoutTruth
  <2>2. Answer(n, m, h, agrees, info)
    BY <1>5 DEF checkPrepareLockin
  <2>3. LogsGrow
    BY <1>1, <2>2 DEF Answer, LogsGrow, mcVars, scVars
  <2> HIDE DEF info, agrees
  <2> QED
    BY <2>1, <2>2, <2>3, AnswerStep
<1>6. ASSUME NEW m \in Notaries, NEW h, checkPrepareLockout(n, m, h) PROVE TruthInv'
  <2> DEFINE info == LockoutEndorsed(db[m][h], n, session[n][h].expiration)
             agrees == LockoutSignable(m, h, session[n][h])
  <2>1. agrees => HasStatus(info) /\ Truthful(info, h)
    BY KnownIsTold DEF LockoutSignable, LockoutRequested, LockoutEndorsed, HasStatus, Truthful,
                       LockinTruth, LockoutTruth
  <2>2. Answer(n, m, h, agrees, info)
    BY <1>6 DEF checkPrepareLockout
  <2>3. LogsGrow
    BY <1>1, <2>2 DEF Answer, LogsGrow, mcVars, scVars
  <2> HIDE DEF info, agrees
  <2> QED
    BY <2>1, <2>2, <2>3, AnswerStep
<1>7. CASE Inward /\ LockinNotaryStep(n)
  BY <1>1, <1>2, <1>3, <1>4, <1>5, <1>7, LockinHandled
  DEF LockinNotaryStep, LockinSessionStep, callSCPrepareLockin
<1>8. CASE Outward /\ LockoutNotaryStep(n)
  BY <1>1, <1>2, <1>3, <1>4, <1>6, <1>8, LockoutHandled
  DEF LockoutNotaryStep, LockoutSessionStep, callMCPrepareLockout
<1> QED
  BY <1>7, <1>8 DEF NotaryStep

LEMMA AlwaysTold == Spec => []TruthInv
<1>1. Init => TruthInv
  <2> SUFFICES ASSUME Init PROVE TruthInv
    OBVIOUS
  <2>1. direction \in {"lockin", "lockout"} /\ InitNotaries
    BY DEF Init, Inward, Outward, LockinInit, LockoutInit
  <2> QED
    BY <2>1 DEF InitNotaries, TruthInv, RecordsTold, MailIsGenuine
<1>2. TruthInv /\ [Next]_transferVars => TruthInv'
  <2> SUFFICES ASSUME TruthInv, [Next]_transferVars PROVE TruthInv'
    OBVIOUS
  <2>1. CASE MCGrows \/ SCGrows \/ UserStep \/ Mining
    <3>1. direction' = direction
      BY <2>1 DEF MCGrows, SCGrows, UserStep, Mining
    <3> QED
      BY <2>1, <3>1, ChainsKeepLogs, Undisturbed
  <2>2. ASSUME NEW n \in Notaries, NotaryStep(n) PROVE TruthInv'
    BY <2>2, NotaryKeepsTruth
  <2>3. ASSUME NEW n \in Notaries, StartStop(n) PROVE TruthInv'
    <3>1. LogsGrow
      BY <2>3 DEF StartStop, Crash, Restart, LogsGrow, mcVars, scVars
    <3> QED
      BY <2>3, <3>1, Stopped, Undisturbed DEF StartStop, Crash, Restart
  <2>4. CASE UNCHANGED transferVars
    BY <2>4, Undisturbed DEF transferVars, vars, mcVars, scVars, nodeVars, LogsGrow
  <2> QED
    BY <2>1, <2>2, <2>3, <2>4 DEF Next
<1> QED
  BY <1>1, <1>2, PTL DEF Spec

(* Whatever is lost, late, redelivered after a restart or handled in       *)
(* another order than it happened in, a record that names an outcome tells *)
(* the truth about the chains (the handlers that set MCLockStatus and      *)
(* SCLockStatus).  That every outcome gets recorded is another matter.     *)
THEOREM RecordsTellTheTruth == Spec => []RecordsAreTrue
<1>1. TruthInv => RecordsAreTrue
  BY DEF TruthInv, RecordsTold, RecordsAreTrue, Inward, Outward, Truthful, LockinTruth, LockoutTruth,
         LockinRecordsAreTrue, LockoutRecordsAreTrue
<1> QED
  BY <1>1, AlwaysTold, PTL


-----------------------------------------------------------------------------
(* What ended stays ended.  Nothing keeps a user from locking twice with   *)
(* one hash, and then a record, which is per hash, is about both locks.    *)
(* The hypothesis is that this does not happen: a hash whose lock ended on *)
(* a chain is not used there again.                                        *)

\* The log entries that end the lock with hash h: by its secret, or taken back.
IsOpening(x, h) == \/ x.name \in {"Lockin", "Lockout"} /\ x.SecretHash = h
                   \/ x.name \in {"LockinSecret", "LockoutSecret"} /\ MC!Sha256(x.secret) = h
IsReturn(x, h)  == x.name \in {"CancelLockin", "CancelLockout"} /\ x.SecretHash = h
IsEnding(x, h)  == IsOpening(x, h) \/ IsReturn(x, h)
Opened(c, h)    == \E x \in Log(c) : IsOpening(x, h)
TakenBack(c, h) == \E x \in Log(c) : IsReturn(x, h)

LocksOn(c, a) == IF c = "mc" THEN {mcLockin[a], mcLockout[a]} ELSE {scLockin[a], scLockout[a]}
NewHashes == \A c \in Chains, a \in Users : \A lock \in LocksOn(c, a) :
    lock.SecretHash \in Hash => ~Opened(c, lock.SecretHash) /\ ~TakenBack(c, lock.SecretHash)

\* A lock ends one way.
OneEnd == \A c \in Chains, h \in Hash : ~(Opened(c, h) /\ TakenBack(c, h))

\* That the side lock of a lockin ended, in a block notaries can see.  An answer
\* that it stands is no older, and none waits for the handler of a stopped one.
EndSeen(h)  == \E x \in scLog : IsEnding(x, h) /\ x.block < scBlock
MailOK(e)   == /\ e.name \notin Own => e.block < scBlock
               /\ e.name = "Queried" /\ e.lock.SecretHash \in Hash => ~EndSeen(e.lock.SecretHash)
NoneWaits(n) == \A c \in Chains : inbox[n][c] = {}
MailSeen == \A n \in Notaries : /\ status[n] # "up" => NoneWaits(n)
                                /\ Inward => \A e \in inbox[n]["sc"] : MailOK(e)
EndsSeen == Inward => \A n \in Notaries : \A h \in DOMAIN db[n] :
    db[n][h].SCLockStatus \in Final => EndSeen(h)

\* Nothing on a chain looks like a message of the dispatcher.
LogsNamed == \A c \in Chains : \A e \in Log(c) : e.name \notin {"NewBlock", "Queried"}

EndInv == LogsNamed /\ OneEnd /\ MailSeen /\ EndsSeen

-----------------------------------------------------------------------------
(* What a step may do to the records and to the inboxes.                   *)
Endures(n, h, info) == /\ Known(n, h) => Remembers(db[n][h], info)
                       /\ Inward /\ info.SCLockStatus \in Final => EndSeen(h)
RecordsEndure == \A n \in Notaries : /\ DOMAIN db[n] \subseteq DOMAIN db'[n]
                                     /\ \A h \in DOMAIN db'[n] : Endures(n, h, db'[n][h])
MailEndures == \A n \in Notaries :
    \/ \A c \in Chains : inbox'[n][c] = {}
    \/ /\ status'[n] = status[n]
       /\ status[n] = "up" \/ inbox'[n] = inbox[n]
       /\ Inward => \A e \in inbox'[n]["sc"] : e \in inbox[n]["sc"] \/ MailOK(e)

OffChain == UNCHANGED <<mcVars, scVars, direction>>

LEMMA SeenStays ==
    ASSUME Typed, Typed', scLog \subseteq scLog', scBlock <= scBlock', NEW h, EndSeen(h)
    PROVE  EndSeen(h)'
<1>1. PICK x \in scLog : IsEnding(x, h) /\ x.block < scBlock
  BY DEF EndSeen
<1>2. x.block \in Nat /\ {scBlock, scBlock'} \subseteq Nat
  BY DEF Typed, OnChain, LogsTyped, Log, Chains, EventOK, ChainTyped
<1> QED
  BY <1>1, <1>2 DEF EndSeen, IsEnding, IsOpening, IsReturn

LEMMA OffChainEnds ==
    ASSUME Typed, Typed', EndInv, OffChain, MailEndures, RecordsEndure
    PROVE  EndInv'
<1> USE DEF OffChain, mcVars, scVars
<1>1. \A h : EndSeen(h)' = EndSeen(h)
  BY DEF EndSeen, IsEnding, IsOpening, IsReturn
<1>2. OneEnd' /\ LogsNamed'
  BY DEF EndInv, OneEnd, LogsNamed, Opened, TakenBack, Log, IsOpening, IsReturn
<1>3. MailSeen'
  <2> SUFFICES ASSUME NEW n \in Notaries
               PROVE  /\ status'[n] # "up" => \A c \in Chains : inbox'[n][c] = {}
                      /\ Inward => \A e \in inbox'[n]["sc"] : MailOK(e)
    BY <1>1 DEF MailSeen, NoneWaits, MailOK, Own, Inward
  <2> QED
    BY DEF EndInv, MailSeen, MailEndures, NoneWaits, Chains
<1>4. EndsSeen'
  BY <1>1 DEF EndsSeen, RecordsEndure, Endures, Inward
<1> QED
  BY <1>2, <1>3, <1>4 DEF EndInv

-----------------------------------------------------------------------------
(* What the chains do: an entry into a log of what happened to a lock.     *)
Entry(c, x) == /\ x.block = Height(c) /\ x.name \notin Own
               /\ \E a \in Users : \E lock \in LocksOn(c, a) :
                     \A h : IsEnding(x, h) => lock.SecretHash = h
NewEntry == \/ UNCHANGED <<mcLog, scLog>>
            \/ \E x : Entry("mc", x) /\ mcLog' = mcLog \cup {x} /\ scLog' = scLog
            \/ \E x : Entry("sc", x) /\ scLog' = scLog \cup {x} /\ mcLog' = mcLog
NotariesStay == UNCHANGED <<direction, mcBlock, scBlock, db, inbox, status>>

LEMMA RecordsWait ==
    ASSUME Typed, EndInv, db' = db
    PROVE  RecordsEndure
BY DEF EndInv, EndsSeen, RecordsEndure, Endures, Remembers, Known

LEMMA EntryOnce ==
    ASSUME EndInv, NewHashes, NEW c \in Chains, NEW d \in Chains, d # c, NEW x, Entry(c, x),
           Log(c)' = Log(c) \cup {x}, Log(d)' = Log(d)
    PROVE  OneEnd'
<1>1. \A h : ~(IsOpening(x, h) /\ IsReturn(x, h))
  BY DEF IsOpening, IsReturn
<1>2. \A h \in Hash : IsEnding(x, h) => ~Opened(c, h) /\ ~TakenBack(c, h)
  BY DEF Entry, NewHashes
<1>3. /\ \A h : Opened(c, h)' <=> Opened(c, h) \/ IsOpening(x, h)
      /\ \A h : TakenBack(c, h)' <=> TakenBack(c, h) \/ IsReturn(x, h)
      /\ \A h : Opened(d, h)' <=> Opened(d, h)
      /\ \A h : TakenBack(d, h)' <=> TakenBack(d, h)
  BY DEF Opened, TakenBack, IsOpening, IsReturn
<1>4. Chains = {c, d}
  BY DEF Chains
<1>5. \A h \in Hash : ~(Opened(c, h) /\ TakenBack(c, h)) /\ ~(Opened(d, h) /\ TakenBack(d, h))
  BY DEF EndInv, OneEnd
<1>6. \A h \in Hash : ~(Opened(c, h) /\ TakenBack(c, h))' /\ ~(Opened(d, h) /\ TakenBack(d, h))'
  BY <1>1, <1>2, <1>3, <1>5 DEF IsEnding
<1>7. Hash' = Hash
  BY DEF Hash
<1> QED
  BY <1>4, <1>6, <1>7 DEF OneEnd

LEMMA EntryKeepsEnds ==
    ASSUME Typed, EndInv, NewHashes, NewEntry, NotariesStay
    PROVE  EndInv' /\ RecordsEndure
<1> USE DEF NotariesStay
<1>1. RecordsEndure
  BY RecordsWait
<1>2. OneEnd'
  <2>1. CASE UNCHANGED <<mcLog, scLog>>
    BY <2>1 DEF EndInv, OneEnd, Opened, TakenBack, Log, IsOpening, IsReturn
  <2>2. ASSUME NEW x, Entry("mc", x), mcLog' = mcLog \cup {x}, scLog' = scLog PROVE OneEnd'
    <3>1. Log("mc")' = Log("mc") \cup {x} /\ Log("sc")' = Log("sc")
      BY <2>2 DEF Log
    <3> QED
      BY <2>2, <3>1, EntryOnce DEF Chains
  <2>3. ASSUME NEW x, Entry("sc", x), scLog' = scLog \cup {x}, mcLog' = mcLog PROVE OneEnd'
    <3>1. Log("sc")' = Log("sc") \cup {x} /\ Log("mc")' = Log("mc")
      BY <2>3 DEF Log
    <3> QED
      BY <2>3, <3>1, EntryOnce DEF Chains
  <2> QED
    BY <2>1, <2>2, <2>3 DEF NewEntry
<1>3. \A h : EndSeen(h)' <=> EndSeen(h)
  <2>1. scLog' = scLog \/ \E x : x.block = scBlock /\ scLog' = scLog \cup {x}
    BY DEF NewEntry, Entry, Height
  <2>2. scBlock \in Nat
    BY DEF Typed, OnChain, ChainTyped
  <2> QED
    BY <2>1, <2>2 DEF EndSeen, IsEnding, IsOpening, IsReturn
<1>4. MailSeen' /\ EndsSeen'
  BY <1>3 DEF EndInv, MailSeen, MailOK, NoneWaits, EndsSeen, Inward, Own
<1>5. LogsNamed'
  BY DEF EndInv, LogsNamed, Log, NewEntry, Entry, Own
<1> QED
  BY <1>1, <1>2, <1>4, <1>5 DEF EndInv

\* An event that the contract emits for the lock of an account.
LEMMA EntryOfLock ==
    ASSUME NEW c, NEW x, x.block = Height(c), x.name \notin Own, NEW a \in Users, NEW lock \in LocksOn(c, a),
           x.name \in {"Lockin", "Lockout", "CancelLockin", "CancelLockout"}
           => x.SecretHash = lock.SecretHash,
           x.name \in {"LockinSecret", "LockoutSecret"} => lock.SecretHash = MC!Sha256(x.secret)
    PROVE  Entry(c, x)
BY DEF Entry, IsEnding, IsOpening, IsReturn

LEMMA EntriesOfMainChain ==
    ASSUME NEW a \in Users, scLog' = scLog,
           \/ mcLog' = mcLog
           \/ mcLog' = mcLog \cup {MC!EmitPrepareLockin(a)}
           \/ mcLog' = mcLog \cup {MC!EmitPrepareLockout(a)}
           \/ mcLog' = mcLog \cup {MC!EmitLockin(a)}
           \/ mcLog' = mcLog \cup {MC!EmitCancelLockin(a)}
           \/ mcLog' = mcLog \cup {MC!EmitCancelLockout(a)}
           \/ \E s \in Secrets : /\ MC!Opens(mcLockout[a], s)
                                 /\ mcLog' = mcLog \cup {MC!EmitLockoutSecret(a, s)}
    PROVE  NewEntry
<1> USE DEF LocksOn, Height, NewEntry, Own
<1>1. mcLockin[a] \in LocksOn("mc", a) /\ mcLockout[a] \in LocksOn("mc", a)
  OBVIOUS
<1>2. CASE mcLog' = mcLog
  BY <1>2
<1>3. /\ Entry("mc", MC!EmitPrepareLockin(a)) /\ Entry("mc", MC!EmitLockin(a))
      /\ Entry("mc", MC!EmitCancelLockin(a))
  BY <1>1, EntryOfLock DEF MC!EmitPrepareLockin, MC!EmitLockin, MC!EmitCancelLockin
<1>4. Entry("mc", MC!EmitPrepareLockout(a)) /\ Entry("mc", MC!EmitCancelLockout(a))
  BY <1>1, EntryOfLock DEF MC!EmitPrepareLockout, MC!EmitCancelLockout
<1>5. ASSUME NEW s \in Secrets, MC!Opens(mcLockout[a], s)
      PROVE  Entry("mc", MC!EmitLockoutSecret(a, s))
  BY <1>1, <1>5, EntryOfLock DEF MC!EmitLockoutSecret, MC!Opens
<1> QED
  BY <1>2, <1>3, <1>4, <1>5

LEMMA EntriesOfSideChain ==
    ASSUME NEW a \in Users, mcLog' = mcLog,
           \/ scLog' = scLog
           \/ scLog' = scLog \cup {SC!EmitPrepareLockin(a)}
           \/ scLog' = scLog \cup {SC!EmitPrepareLockout(a)}
           \/ scLog' = scLog \cup {SC!EmitLockout(a)}
           \/ scLog' = scLog \cup {SC!EmitCancelLockin(a)}
           \/ scLog' = scLog \cup {SC!EmitCancelLockout(a)}
           \/ \E s \in Secrets : /\ SC!Opens(scLockin[a], s)
                                 /\ scLog' = scLog \cup {SC!EmitLockinSecret(a, s)}
    PROVE  NewEntry
<1> USE DEF LocksOn, Height, NewEntry, Own
<1>1. scLockin[a] \in LocksOn("sc", a) /\ scLockout[a] \in LocksOn("sc", a)
  OBVIOUS
<1>2. CASE scLog' = scLog
  BY <1>2
<1>3. Entry("sc", SC!EmitPrepareLockin(a)) /\ Entry("sc", SC!EmitCancelLockin(a))
  BY <1>1, EntryOfLock DEF SC!EmitPrepareLockin, SC!EmitCancelLockin
<1>4. /\ Entry("sc", SC!EmitPrepareLockout(a)) /\ Entry("sc", SC!EmitLockout(a))
      /\ Entry("sc", SC!EmitCancelLockout(a))
  BY <1>1, EntryOfLock DEF SC!EmitPrepareLockout, SC!EmitLockout, SC!EmitCancelLockout
<1>5. ASSUME NEW s \in Secrets, SC!Opens(scLockin[a], s)
      PROVE  Entry("sc", SC!EmitLockinSecret(a, s))
  BY <1>1, <1>5, EntryOfLock, HashVocabulary DEF SC!EmitLockinSecret, SC!Opens
<1> QED
  BY <1>2, <1>3, <1>4, <1>5

LEMMA UserWrites ==
    ASSUME UserStep
    PROVE  NewEntry /\ NotariesStay
<1> USE DEF NotariesStay, nodeVars, mcVars, scVars, OnMC, OnSC
<1>1. direction' = direction
  BY DEF UserStep
<1>2. ASSUME NEW u \in Users,
             \/ \E s \in Secrets, e \in Expirations, v \in Amounts :
                   UserPrepareLockin(u, MC!Sha256(s), e, v)
             \/ UserCancelLockin(u)
             \/ CancleLockOut(u)
             \/ \E s \in Secrets : UserLockout(u, s)
      PROVE  NewEntry /\ NotariesStay
  BY <1>1, <1>2, EntriesOfMainChain
  DEF UserPrepareLockin, UserCancelLockin, CancleLockOut, UserLockout,
      MC!prepareLockin, MC!cancelLockin, MC!cancleLockOut, MC!lockout
<1>3. ASSUME NEW u \in Users,
             \/ \E s \in Secrets, e \in Expirations, v \in Amounts :
                   UserPrepareLockout(u, SC!Sha256(s), e, v)
             \/ UserCancelLockOut(u)
             \/ \E s \in Secrets : UserLockin(u, s)
      PROVE  NewEntry /\ NotariesStay
  BY <1>1, <1>3, EntriesOfSideChain
  DEF UserPrepareLockout, UserCancelLockOut, UserLockin,
      SC!prepareLockout, SC!cancelLockOut, SC!lockin
<1>4. ASSUME NEW n \in Notaries, NEW u \in Users, NEW a \in Users, NEW s \in Secrets,
             \/ onSCPrepareLockinRequest(n, u, a, MC!Sha256(s))
             \/ onMCPrepareLockoutRequest(n, u, a, SC!Sha256(s))
      PROVE  NewEntry /\ NotariesStay
  BY <1>1, <1>4 DEF onSCPrepareLockinRequest, onMCPrepareLockoutRequest, OpenSession, NewEntry
<1> QED
  BY <1>2, <1>3, <1>4 DEF UserStep, LockinUserStep, LockoutUserStep

LEMMA MiningWrites ==
    ASSUME Typed, Mining
    PROVE  NewEntry /\ NotariesStay
<1> USE DEF NotariesStay, nodeVars, mcVars, scVars
<1>1. direction' = direction
  BY DEF Mining
<1>2. PICK tx \in mempool : LockinMined(tx) \/ LockoutMined(tx)
  BY DEF Mining
<1>3. tx.account \in Users
  BY DEF Typed, TxsTyped, Claims, Cancels, Prepared
<1>4. CASE MinedMCLockin(tx) \/ MinedMCPrepareLockout(tx)
  BY <1>1, <1>3, <1>4, EntriesOfMainChain
  DEF MinedMCLockin, MinedMCPrepareLockout, MC!lockin, MC!prepareLockoutHTLC
<1>5. CASE \/ MinedSCCancelLockin(tx) \/ MinedSCPrepareLockin(tx)
           \/ MinedSCLockout(tx) \/ MinedSCCancelLockOut(tx)
  BY <1>1, <1>3, <1>5, EntriesOfSideChain
  DEF MinedSCCancelLockin, MinedSCPrepareLockin, MinedSCLockout, MinedSCCancelLockOut,
      SC!cancelLockin, SC!prepareLockin, SC!lockout, SC!cancelLockOut
<1> QED
  BY <1>2, <1>4, <1>5 DEF LockinMined, LockoutMined

\* With Prompt a chain grows when no notary has an answer of it left to handle.
LEMMA GrowthKeepsEnds ==
    ASSUME Prompt, Typed, EndInv, MCGrows \/ SCGrows
    PROVE  EndInv' /\ RecordsEndure
<1>1. /\ UNCHANGED <<mcLog, scLog, direction, db, inbox, status>>
      /\ \A n \in Notaries, c \in Chains : inbox[n][c] = {}
      /\ scBlock <= scBlock' /\ scBlock' \in Nat /\ scBlock \in Nat
  BY DEF MCGrows, SCGrows, MCNewBlock, SCNewBlock, KeptUp, nodeVars, mcVars, scVars, MC!newBlock,
         SC!newBlock, EndInv, MailSeen, NoneWaits, Typed, OnChain, ChainTyped
<1>2. RecordsEndure
  BY <1>1, RecordsWait
<1>3. OneEnd' /\ LogsNamed'
  BY <1>1 DEF EndInv, OneEnd, LogsNamed, Opened, TakenBack, Log, IsOpening, IsReturn
<1>4. MailSeen'
  BY <1>1 DEF EndInv, MailSeen, NoneWaits, Inward, Chains
<1>5. \A h : EndSeen(h) => EndSeen(h)'
  <2>1. \A x \in scLog : x.block \in Nat
    BY DEF Typed, OnChain, LogsTyped, Log, Chains, EventOK
  <2> QED
    BY <1>1, <2>1 DEF EndSeen, IsEnding, IsOpening, IsReturn
<1>6. EndsSeen'
  BY <1>1, <1>5 DEF EndInv, EndsSeen, Inward
<1> QED
  BY <1>2, <1>3, <1>4, <1>6 DEF EndInv

-----------------------------------------------------------------------------
(* The building blocks of the handlers.                                    *)
NotaryEnds == MailEndures /\ RecordsEndure

LEMMA MailGone ==
    ASSUME Typed, EndInv, NEW n \in Notaries, NEW c \in Chains, NEW e, Handled(n, c, e),
           status' = status, status[n] = "up"
    PROVE  MailEndures
BY DEF Typed, InNotaries, MailTyped, Handled, MailEndures

LEMMA RefusedEnds ==
    ASSUME Typed, EndInv, NEW n \in Notaries, NEW c \in Chains, NEW e, Refuse(n, c, e),
           status[n] = "up"
    PROVE  NotaryEnds
BY MailGone, RecordsWait DEF Refuse, NotaryEnds

\* A notary that stops loses its mail and nothing else.
LEMMA StoppedEnds ==
    ASSUME Typed, EndInv, NEW n \in Notaries, NEW how, Stop(n, how)
    PROVE  NotaryEnds
<1>1. MailEndures
  BY DEF Typed, InNotaries, MailTyped, PollingTyped, Stop, MailEndures, EndInv, MailSeen, NoneWaits
<1> QED
  BY <1>1, RecordsWait DEF Stop, NotaryEnds

LEMMA UpdatedEnds ==
    ASSUME Typed, EndInv, NEW n \in Notaries, NEW h, NEW info, update(n, h, info),
           Known(n, h), Endures(n, h, info)
    PROVE  RecordsEndure
BY DEF Typed, InNotaries, RecordsTyped, update, EndInv, EndsSeen, RecordsEndure, Endures, Remembers,
       Known

LEMMA RegisteredEnds ==
    ASSUME Typed, EndInv, NEW n \in Notaries, NEW h, NEW info, register(n, h, info),
           Endures(n, h, info)
    PROVE  RecordsEndure
BY DEF Typed, InNotaries, RecordsTyped, register, EndInv, EndsSeen, RecordsEndure, Endures,
       Remembers, Known

LEMMA RecordedEnds ==
    ASSUME Typed, EndInv, NEW n \in Notaries, NEW c \in Chains, NEW e, NEW h, NEW info, NEW txs,
           Known(n, h) => Endures(n, h, info), status[n] = "up", Record(n, c, e, h, info, txs)
    PROVE  NotaryEnds
<1>1. CASE h \in dealing[n]
  <2>1. Known(n, h)
    BY <1>1 DEF Typed, InNotaries, DealingTyped, Known
  <2> QED
    BY <1>1, <2>1, MailGone, UpdatedEnds DEF Record, NotaryEnds
<1>2. CASE h \notin dealing[n]
  BY <1>2, StoppedEnds DEF Record, Panic
<1> QED
  BY <1>1, <1>2

\* The contract's answer is about a lock that has not ended.
LEMMA AskedEnds ==
    ASSUME Typed, EndInv, NewHashes, NEW n \in Notaries, NEW c \in Chains, NEW e \in inbox[n][c],
           e.account \in Users, status[n] = "up",
           NEW lock, c = "sc" => lock \in LocksOn("sc", e.account), Query(n, c, e, lock)
    PROVE  NotaryEnds
<1>1. c = "sc" /\ lock.SecretHash \in Hash => ~EndSeen(lock.SecretHash)
  BY DEF NewHashes, Chains, EndSeen, Opened, TakenBack, Log, IsEnding
<1>2. MailEndures
  BY <1>1 DEF Typed, InNotaries, MailTyped, Query, MailEndures, MailOK, Own
<1> QED
  BY <1>2, RecordsWait DEF Query, NotaryEnds

\* A handler of a new block only makes locks expire.
LEMMA ExpiredEnds ==
    ASSUME Typed, EndInv, NEW n \in Notaries, NEW c \in Chains, NEW e, Handled(n, c, e),
           status' = status, status[n] = "up", DOMAIN db' = DOMAIN db,
           \A m \in Notaries : DOMAIN db'[m] = DOMAIN db[m],
           \A m \in Notaries : \A h \in DOMAIN db[m] :
              \/ db'[m][h] = db[m][h]
              \/ db[m][h].MCLockStatus = "Lock" /\ db'[m][h] = [db[m][h] EXCEPT !.MCLockStatus = "Expiration"]
              \/ db[m][h].SCLockStatus = "Lock" /\ db'[m][h] = [db[m][h] EXCEPT !.SCLockStatus = "Expiration"]
    PROVE  NotaryEnds
<1>1. RecordsEndure
  <2> SUFFICES ASSUME NEW m \in Notaries, NEW h \in DOMAIN db[m] PROVE Endures(m, h, db'[m][h])
    BY DEF RecordsEndure
  <2>1. db[m][h] \in LockInfo
    BY DEF Typed, InNotaries, RecordsTyped, RecordOK
  <2>2. Inward /\ db[m][h].SCLockStatus \in Final => EndSeen(h)
    BY DEF EndInv, EndsSeen
  <2> DEFINE old == db[m][h]
             new == db'[m][h]
  <2>a. \/ new = old
        \/ old.MCLockStatus = "Lock" /\ new = [old EXCEPT !.MCLockStatus = "Expiration"]
        \/ old.SCLockStatus = "Lock" /\ new = [old EXCEPT !.SCLockStatus = "Expiration"]
    OBVIOUS
  <2> HIDE DEF new
  <2>3. /\ new.Secret = old.Secret
        /\ new.MCLockStatus = old.MCLockStatus \/ old.MCLockStatus = "Lock"
        /\ new.SCLockStatus = old.SCLockStatus
           \/ (old.SCLockStatus = "Lock" /\ new.SCLockStatus = "Expiration")
    BY <2>1, <2>a DEF LockInfo
  <2> HIDE DEF old, new
  <2>4. Remembers(old, new) /\ (new.SCLockStatus \in Final => old.SCLockStatus \in Final)
    BY <2>3 DEF Remembers, Final
  <2> QED
    BY <2>2, <2>4 DEF Endures, old, new
<1> QED
  BY <1>1, MailGone DEF NotaryEnds

\* A record and what the log says of its hash: what is opened was not taken back.
LEMMA StatusFits ==
    ASSUME Typed, TruthInv, EndInv, NEW n \in Notaries, NEW h, Known(n, h)
    PROVE  /\ h \in Hash /\ db[n][h] \in LockInfo
           /\ Opened("mc", h) => db[n][h].MCLockStatus # "Cancel"
           /\ Opened("sc", h) => db[n][h].SCLockStatus # "Cancel"
           /\ TakenBack("mc", h) => db[n][h].MCLockStatus # "Unlock"
           /\ TakenBack("sc", h) => db[n][h].SCLockStatus # "Unlock"
           /\ Inward /\ db[n][h].SCLockStatus \in Final => EndSeen(h)
<1>1. h \in Hash /\ db[n][h] \in LockInfo
  BY DEF Typed, InNotaries, RecordsTyped, RecordOK, Known
<1>2. Inward \/ Outward
  BY DEF TruthInv, Inward, Outward
<1>3. Truthful(db[n][h], h)
  BY DEF TruthInv, RecordsTold, Known
<1>4. /\ db[n][h].MCLockStatus = "Cancel" => TakenBack("mc", h)
      /\ db[n][h].SCLockStatus = "Cancel" => TakenBack("sc", h)
  BY <1>2, <1>3
  DEF Truthful, LockinTruth, LockoutTruth, Refunded, TokensWithdrawn, EtherWithdrawn, Returned, Logged,
      TakenBack, Log, IsReturn
<1>5. /\ db[n][h].MCLockStatus = "Unlock" => Opened("mc", h)
      /\ db[n][h].SCLockStatus = "Unlock" => Opened("sc", h)
  BY <1>2, <1>3, HashVocabulary
  DEF Truthful, LockinTruth, LockoutTruth, Claimed, Minted, Released, Destroyed, Logged, Opened, Log,
      IsOpening
<1>6. \A c \in Chains : ~(Opened(c, h) /\ TakenBack(c, h))
  BY <1>1 DEF EndInv, OneEnd
<1>7. Inward /\ db[n][h].SCLockStatus \in Final => EndSeen(h)
  BY DEF EndInv, EndsSeen, Known
<1> QED
  BY <1>1, <1>4, <1>5, <1>6, <1>7 DEF Chains

\* An event of the chain that a handler runs for, which it may see.
LEMMA EventIsSeen ==
    ASSUME Typed, TruthInv, EndInv, NEW n \in Notaries, NEW c \in Chains, NEW e, NEW name, name \notin Own,
           Handling(n, c, e, name)
    PROVE  /\ e \in Log(c) /\ e.name = name /\ status[n] = "up"
           /\ Inward /\ c = "sc" => \A h : IsEnding(e, h) => EndSeen(h)
<1>1. e \in Log(c) /\ e.name = name /\ status[n] = "up" /\ e \in inbox[n][c]
  BY EventWasLogged DEF Handling
<1>2. Inward /\ c = "sc" => e.block < scBlock
  BY <1>1 DEF EndInv, MailSeen, MailOK
<1> QED
  BY <1>1, <1>2 DEF EndSeen, Log

-----------------------------------------------------------------------------
(* A lockin.                                                               *)
LEMMA LockinEnds ==
    ASSUME Typed, TruthInv, EndInv, NewHashes, Inward,
           NEW n \in Notaries, NEW c \in Chains, NEW e \in inbox[n][c], HandleLockin(n, c, e)
    PROVE  NotaryEnds
<1> USE DEF Chains
<1>0. status[n] = "up"
  BY DEF HandleLockin, QueryLockin, onMCNewBlockLockin, onSCNewBlockLockin,
         onMCPrepareLockin4Ethereum, onSCPrepareLockin, onSCLockinSecret, onMCLockin4Ethereum,
         onMCCancelLockin4Ethereum, onSCCancelLockin, Handling
<1>1. CASE QueryLockin(n, c, e)
  <2>1. e.account \in Users
    BY <1>1 DEF QueryLockin, Handling, Typed, InNotaries, MailTyped, EventOK
  <2>2. scLockin[e.account] \in LocksOn("sc", e.account)
    BY DEF LocksOn
  <2> QED
    BY <1>0, <1>1, <2>1, <2>2, AskedEnds DEF QueryLockin
<1>2. CASE onMCNewBlockLockin(n, e)
  BY <1>0, <1>2, ExpiredEnds DEF onMCNewBlockLockin, LockinMCExpired, Typed, InNotaries, RecordsTyped
<1>3. CASE onSCNewBlockLockin(n, e)
  <2> DEFINE expired == {h \in dealing[n] : LockinSCExpires(db[n][h], e.block)}
  <2>1. \A h \in expired : db[n][h].SCLockStatus = "Lock"
    BY DEF LockinSCExpires
  <2>2. db' = [db EXCEPT ![n] = [h \in DOMAIN db[n] |->
                  IF h \in expired THEN [db[n][h] EXCEPT !.SCLockStatus = "Expiration"] ELSE db[n][h]]]
    BY <1>3 DEF onSCNewBlockLockin
  <2>3. Handled(n, "sc", e) /\ status' = status
    BY <1>3 DEF onSCNewBlockLockin
  <2> HIDE DEF expired
  <2> QED
    BY <1>0, <2>1, <2>2, <2>3, ExpiredEnds DEF Typed, InNotaries, RecordsTyped
<1>4. CASE onMCPrepareLockin4Ethereum(n, e)
  <2>1. CASE Refuse(n, "mc", e)
    BY <1>0, <2>1, RefusedEnds
  <2>2. ASSUME NEW info, register(n, e.lock.SecretHash, info), Handled(n, "mc", e),
               info.SCLockStatus = "None", ~Known(n, e.lock.SecretHash), status' = status
        PROVE  NotaryEnds
    BY <1>0, <2>2, RegisteredEnds, MailGone DEF Endures, Final, NotaryEnds
  <2> QED
    BY <1>4, <2>1, <2>2 DEF onMCPrepareLockin4Ethereum
<1>5. CASE onSCPrepareLockin(n, e) /\ c = "sc"
  <2> DEFINE hash == e.lock.SecretHash
             info == [db[n][hash] EXCEPT !.SCExpiration = e.lock.Expiration,
                                         !.SCLockStatus = "Lock", !.SCUserAddress = e.account]
  <2>1. CASE Refuse(n, "sc", e)
    BY <1>0, <2>1, RefusedEnds
  <2>2. CASE Record(n, "sc", e, hash, info, {})
    <3>1. e.name = "Queried"
      BY <1>5 DEF onSCPrepareLockin, Handling
    <3>2. ASSUME Known(n, hash) PROVE db[n][hash].SCLockStatus \notin Final
      BY <1>5, <3>1, <3>2, StatusFits DEF EndInv, MailSeen, MailOK
    <3>3. Known(n, hash) => Endures(n, hash, info)
      BY <3>2, StatusFits DEF Endures, Remembers, Final, LockInfo
    <3> HIDE DEF info, hash
    <3> QED
      BY <1>0, <2>2, <3>3, RecordedEnds
  <2> QED
    BY <1>5, <2>1, <2>2 DEF onSCPrepareLockin
<1>6. CASE onSCLockinSecret(n, e) /\ c = "sc"
  <2> DEFINE hash == SC!Sha256(e.secret)
             info == [db[n][hash] EXCEPT !.Secret = e.secret, !.SCLockStatus = "Unlock"]
  <2>1. CASE Refuse(n, "sc", e)
    BY <1>0, <2>1, RefusedEnds
  <2>2. ASSUME NEW txs, Record(n, "sc", e, hash, info, txs), Known(n, hash), db[n][hash].Secret = NoSecret
        PROVE  NotaryEnds
    <3>1. e \in Log("sc") /\ e.name = "LockinSecret" /\ \A h : IsEnding(e, h) => EndSeen(h)
      BY <1>6, EventIsSeen DEF onSCLockinSecret, Own
    <3>2. IsOpening(e, hash)
      BY <3>1, HashVocabulary DEF IsOpening
    <3>3. Opened("sc", hash) /\ EndSeen(hash)
      BY <3>1, <3>2 DEF Opened, IsEnding
    <3>4. Endures(n, hash, info)
      BY <2>2, <3>3, StatusFits DEF Endures, Remembers, Final, LockInfo
    <3> HIDE DEF info, hash
    <3> QED
      BY <1>0, <2>2, <3>4, RecordedEnds
  <2> QED
    BY <1>6, <2>1, <2>2 DEF onSCLockinSecret
<1>7. CASE onMCLockin4Ethereum(n, e) /\ c = "mc"
  <2> DEFINE hash == e.SecretHash
             info == [db[n][hash] EXCEPT !.MCLockStatus = "Unlock"]
  <2>1. CASE Refuse(n, "mc", e)
    BY <1>0, <2>1, RefusedEnds
  <2>2. CASE Record(n, "mc", e, hash, info, {}) /\ Known(n, hash)
    <3>1. Opened("mc", hash)
      BY <1>7, EventIsSeen DEF onMCLockin4Ethereum, Own, Opened, IsOpening
    <3>2. Endures(n, hash, info)
      BY <2>2, <3>1, StatusFits DEF Endures, Remembers, Final, LockInfo
    <3> HIDE DEF info, hash
    <3> QED
      BY <1>0, <2>2, <3>2, RecordedEnds
  <2> QED
    BY <1>7, <2>1, <2>2 DEF onMCLockin4Ethereum
<1>8. CASE onMCCancelLockin4Ethereum(n, e) /\ c = "mc"
  <2> DEFINE hash == e.SecretHash
             info == [db[n][hash] EXCEPT !.MCLockStatus = "Cancel"]
  <2>1. CASE Refuse(n, "mc", e)
    BY <1>0, <2>1, RefusedEnds
  <2>2. CASE Record(n, "mc", e, hash, info, {}) /\ Known(n, hash)
    <3>1. TakenBack("mc", hash)
      BY <1>8, EventIsSeen DEF onMCCancelLockin4Ethereum, Own, TakenBack, IsReturn
    <3>2. Endures(n, hash, info)
      BY <2>2, <3>1, StatusFits DEF Endures, Remembers, Final, LockInfo
    <3> HIDE DEF info, hash
    <3> QED
      BY <1>0, <2>2, <3>2, RecordedEnds
  <2> QED
    BY <1>8, <2>1, <2>2 DEF onMCCancelLockin4Ethereum
<1>9. CASE onSCCancelLockin(n, e) /\ c = "sc"
  <2> DEFINE hash == e.SecretHash
             info == [db[n][hash] EXCEPT !.SCLockStatus = "Cancel"]
  <2>1. CASE Refuse(n, "sc", e)
    BY <1>0, <2>1, RefusedEnds
  <2>2. CASE Record(n, "sc", e, hash, info, {}) /\ Known(n, hash)
    <3>1. IsReturn(e, hash) /\ e \in Log("sc") /\ \A h : IsEnding(e, h) => EndSeen(h)
      BY <1>9, EventIsSeen DEF onSCCancelLockin, Own, IsReturn
    <3>2. TakenBack("sc", hash) /\ EndSeen(hash)
      BY <3>1 DEF TakenBack, IsEnding
    <3>3. Endures(n, hash, info)
      BY <2>2, <3>2, StatusFits DEF Endures, Remembers, Final, LockInfo
    <3> HIDE DEF info, hash
    <3> QED
      BY <1>0, <2>2, <3>3, RecordedEnds
  <2> QED
    BY <1>9, <2>1, <2>2 DEF onSCCancelLockin
<1> QED
  BY <1>1, <1>2, <1>3, <1>4, <1>5, <1>6, <1>7, <1>8, <1>9 DEF HandleLockin

-----------------------------------------------------------------------------
(* A lockout.                                                              *)
LEMMA LockoutEnds ==
    ASSUME Typed, TruthInv, EndInv, NewHashes, Outward,
           NEW n \in Notaries, NEW c \in Chains, NEW e \in inbox[n][c], HandleLockout(n, c, e)
    PROVE  NotaryEnds
<1> USE DEF Chains
<1>0. status[n] = "up" /\ ~Inward
  BY DEF HandleLockout, QueryLockout, onMCNewBlockLockout, onSCNewBlockLockout,
         onSCPrepareLockout, onMCPrepareLockout4Ethereum, onMCLockoutSecret4Ethereum, onSCLockout,
         onMCCancelLockout4Ethereum, onSCCancelLockout, Handling, Inward, Outward
<1>1. CASE QueryLockout(n, c, e)
  <2>1. e.account \in Users
    BY <1>1 DEF QueryLockout, Handling, Typed, InNotaries, MailTyped, EventOK
  <2>2. scLockout[e.account] \in LocksOn("sc", e.account)
    BY DEF LocksOn
  <2> QED
    BY <1>0, <1>1, <2>1, <2>2, AskedEnds DEF QueryLockout
<1>2. CASE onMCNewBlockLockout(n, e)
  <2> DEFINE expired == {h \in dealing[n] :
                            LockoutExpires(db[n][h].MCLockStatus, db[n][h].MCExpiration, e.block)}
  <2>1. \A h \in expired : db[n][h].MCLockStatus = "Lock"
    BY DEF LockoutExpires
  <2>2. db' = [db EXCEPT ![n] = [h \in DOMAIN db[n] |->
                  IF h \in expired THEN [db[n][h] EXCEPT !.MCLockStatus = "Expiration"] ELSE db[n][h]]]
    BY <1>2 DEF onMCNewBlockLockout
  <2>3. Handled(n, "mc", e) /\ status' = status
    BY <1>2 DEF onMCNewBlockLockout
  <2> HIDE DEF expired
  <2> QED
    BY <1>0, <2>1, <2>2, <2>3, ExpiredEnds DEF Typed, InNotaries, RecordsTyped
<1>3. CASE onSCNewBlockLockout(n, e)
  <2> DEFINE expired == {h \in dealing[n] :
                            LockoutExpires(db[n][h].SCLockStatus, db[n][h].SCExpiration, e.block)}
  <2>1. \A h \in expired : db[n][h].SCLockStatus = "Lock"
    BY DEF LockoutExpires
  <2>2. db' = [db EXCEPT ![n] = [h \in DOMAIN db[n] |->
                  IF h \in expired THEN [db[n][h] EXCEPT !.SCLockStatus = "Expiration"] ELSE db[n][h]]]
    BY <1>3 DEF onSCNewBlockLockout
  <2>3. Handled(n, "sc", e) /\ status' = status
    BY <1>3 DEF onSCNewBlockLockout
  <2> HIDE DEF expired
  <2> QED
    BY <1>0, <2>1, <2>2, <2>3, ExpiredEnds DEF Typed, InNotaries, RecordsTyped
<1>4. CASE onSCPrepareLockout(n, e)
  <2>1. CASE Refuse(n, "sc", e)
    BY <1>0, <2>1, RefusedEnds
  <2>2. CASE Panic(n)
    BY <2>2, StoppedEnds DEF Panic
  <2>3. ASSUME NEW info, register(n, e.lock.SecretHash, info), Handled(n, "sc", e),
               ~Known(n, e.lock.SecretHash), status' = status
        PROVE  NotaryEnds
    BY <1>0, <2>3, RegisteredEnds, MailGone DEF Endures, NotaryEnds
  <2> QED
    BY <1>4, <2>1, <2>2, <2>3 DEF onSCPrepareLockout
<1>5. CASE onMCPrepareLockout4Ethereum(n, e)
  <2> DEFINE hash == e.lock.SecretHash
             info == [db[n][hash] EXCEPT !.MCExpiration = e.lock.Expiration,
                                         !.MCLockStatus = "Lock", !.MCUserAddressHex = e.account]
  <2>1. CASE Refuse(n, "mc", e)
    BY <1>0, <2>1, RefusedEnds
  <2>2. CASE Record(n, "mc", e, hash, info, {}) /\ Known(n, hash) /\ Preparable(db[n][hash])
    <3>1. Endures(n, hash, info)
      BY <1>0, <2>2, StatusFits DEF Endures, Remembers, Final, LockInfo, Preparable
    <3> HIDE DEF info, hash
    <3> QED
      BY <1>0, <2>2, <3>1, RecordedEnds
  <2> QED
    BY <1>5, <2>1, <2>2 DEF onMCPrepareLockout4Ethereum
<1>6. CASE onMCLockoutSecret4Ethereum(n, e) /\ c = "mc"
  <2> DEFINE hash == MC!Sha256(e.secret)
             info == [db[n][hash] EXCEPT !.Secret = e.secret, !.MCLockStatus = "Unlock"]
  <2>1. CASE Refuse(n, "mc", e)
    BY <1>0, <2>1, RefusedEnds
  <2>2. ASSUME NEW txs, Record(n, "mc", e, hash, info, txs), Known(n, hash), db[n][hash].Secret = NoSecret
        PROVE  NotaryEnds
    <3>1. e \in Log("mc") /\ e.name = "LockoutSecret"
      BY <1>6, EventIsSeen DEF onMCLockoutSecret4Ethereum, Own
    <3>2. Opened("mc", hash)
      BY <3>1 DEF Opened, IsOpening
    <3>3. Endures(n, hash, info)
      BY <1>0, <2>2, <3>2, StatusFits DEF Endures, Remembers, Final, LockInfo
    <3> HIDE DEF info, hash
    <3> QED
      BY <1>0, <2>2, <3>3, RecordedEnds
  <2> QED
    BY <1>6, <2>1, <2>2 DEF onMCLockoutSecret4Ethereum
<1>7. CASE onSCLockout(n, e) /\ c = "sc"
  <2> DEFINE hash == e.SecretHash
             info == [db[n][hash] EXCEPT !.SCLockStatus = "Unlock"]
  <2>1. CASE Refuse(n, "sc", e)
    BY <1>0, <2>1, RefusedEnds
  <2>2. CASE Record(n, "sc", e, hash, info, {}) /\ Known(n, hash)
    <3>1. Opened("sc", hash)
      BY <1>7, EventIsSeen DEF onSCLockout, Own, Opened, IsOpening
    <3>2. Endures(n, hash, info)
      BY <1>0, <2>2, <3>1, StatusFits DEF Endures, Remembers, Final, LockInfo
    <3> HIDE DEF info, hash
    <3> QED
      BY <1>0, <2>2, <3>2, RecordedEnds
  <2> QED
    BY <1>7, <2>1, <2>2 DEF onSCLockout
<1>8. CASE onMCCancelLockout4Ethereum(n, e) /\ c = "mc"
  <2> DEFINE hash == e.SecretHash
             info == [db[n][hash] EXCEPT !.MCLockStatus = "Cancel"]
  <2>1. CASE Refuse(n, "mc", e)
    BY <1>0, <2>1, RefusedEnds
  <2>2. CASE Record(n, "mc", e, hash, info, {}) /\ Known(n, hash)
    <3>1. TakenBack("mc", hash)
      BY <1>8, EventIsSeen DEF onMCCancelLockout4Ethereum, Own, TakenBack, IsReturn
    <3>2. Endures(n, hash, info)
      BY <1>0, <2>2, <3>1, StatusFits DEF Endures, Remembers, Final, LockInfo
    <3> HIDE DEF info, hash
    <3> QED
      BY <1>0, <2>2, <3>2, RecordedEnds
  <2> QED
    BY <1>8, <2>1, <2>2 DEF onMCCancelLockout4Ethereum
<1>9. CASE onSCCancelLockout(n, e) /\ c = "sc"
  <2> DEFINE hash == e.SecretHash
             info == [db[n][hash] EXCEPT !.SCLockStatus = "Cancel"]
  <2>1. CASE Refuse(n, "sc", e)
    BY <1>0, <2>1, RefusedEnds
  <2>2. CASE Record(n, "sc", e, hash, info, {}) /\ Known(n, hash)
    <3>1. TakenBack("sc", hash)
      BY <1>9, EventIsSeen DEF onSCCancelLockout, Own, TakenBack, IsReturn
    <3>2. Endures(n, hash, info)
      BY <1>0, <2>2, <3>1, StatusFits DEF Endures, Remembers, Final, LockInfo
    <3> HIDE DEF info, hash
    <3> QED
      BY <1>0, <2>2, <3>2, RecordedEnds
  <2> QED
    BY <1>9, <2>1, <2>2 DEF onSCCancelLockout
<1> QED
  BY <1>1, <1>2, <1>3, <1>4, <1>5, <1>6, <1>7, <1>8, <1>9 DEF HandleLockout

-----------------------------------------------------------------------------
(* What lockin and lockout have in common.                                 *)
LEMMA PollEnds ==
    ASSUME Typed, EndInv, NEW n \in Notaries, NEW c \in Chains, Poll(n, c)
    PROVE  NotaryEnds
<1>1. ASSUME NEW e \in inbox'[n]["sc"], e \notin inbox[n]["sc"] PROVE MailOK(e)
  <2>1. c = "sc"
    BY <1>1 DEF Typed, InNotaries, MailTyped, Poll, Chains
  <2>2. CASE e = [name |-> "NewBlock", block |-> Newest("sc")]
    BY <2>2 DEF MailOK, Own
  <2>3. CASE e \in Log("sc") /\ e.block <= Newest("sc")
    <3>1. e.block \in Nat /\ scBlock \in Nat
      BY <2>3 DEF Typed, OnChain, LogsTyped, EventOK, ChainTyped, Chains
    <3>2. e.name \notin Own
      BY <2>3 DEF EndInv, LogsNamed, Own, Chains
    <3> QED
      BY <2>3, <3>1, <3>2 DEF MailOK, Newest, Height, Own
  <2> QED
    BY <1>1, <2>1, <2>2, <2>3 DEF Typed, InNotaries, MailTyped, Poll
<1>2. MailEndures
  BY <1>1 DEF Typed, InNotaries, MailTyped, Poll, MailEndures
<1> QED
  BY <1>2, RecordsWait DEF Poll, NotaryEnds

LEMMA AnswerEnds ==
    ASSUME Typed, EndInv, NEW n \in Notaries, NEW m \in Notaries, NEW h, NEW agrees, NEW info,
           agrees => /\ Known(m, h)
                     /\ \/ \E e : info = LockinEndorsed(db[m][h], n, e)
                        \/ \E e : info = LockoutEndorsed(db[m][h], n, e),
           Answer(n, m, h, agrees, info)
    PROVE  NotaryEnds
<1>1. MailEndures
  BY DEF Answer, MailEndures, EndInv, MailSeen, NoneWaits
<1>2. CASE agrees
  <2>1. Known(m, h) => db[m][h] \in LockInfo
    BY DEF Typed, InNotaries, RecordsTyped, RecordOK, Known
  <2>2. Endures(m, h, info)
    BY <1>2, <2>1 DEF LockinEndorsed, LockoutEndorsed, LockInfo, Endures, Remembers, EndInv, EndsSeen, Known
  <2> QED
    BY <1>1, <1>2, <2>2, UpdatedEnds DEF Answer, NotaryEnds
<1>3. CASE ~agrees
  BY <1>1, <1>3, RecordsWait DEF Answer, NotaryEnds
<1> QED
  BY <1>2, <1>3

LEMMA ChargeEnds ==
    ASSUME Typed, EndInv, NEW n \in Notaries, NEW h, takeCharge(n, h)
    PROVE  NotaryEnds
<1> DEFINE info == [db[n][h] EXCEPT !.NotaryIDInCharge = n]
<1>1. CASE h \in dealing[n]
  <2>1. Known(n, h)
    BY <1>1 DEF Typed, InNotaries, DealingTyped, Known
  <2>2. db[n][h] \in LockInfo
    BY <2>1 DEF Typed, InNotaries, RecordsTyped, RecordOK, Known
  <2>3. Endures(n, h, info)
    BY <2>1, <2>2 DEF LockInfo, Endures, Remembers, EndInv, EndsSeen, Known
  <2>4. update(n, h, info) /\ UNCHANGED <<status, inbox>>
    BY <1>1 DEF takeCharge
  <2>5. MailEndures
    BY <2>4 DEF MailEndures, EndInv, MailSeen, NoneWaits
  <2> HIDE DEF info
  <2> QED
    BY <2>1, <2>3, <2>4, <2>5, UpdatedEnds DEF NotaryEnds
<1>2. CASE h \notin dealing[n]
  BY <1>2, StoppedEnds DEF takeCharge
<1> QED
  BY <1>1, <1>2

LEMMA NotaryKeepsEnds ==
    ASSUME Typed, TruthInv, EndInv, NewHashes, NEW n \in Notaries, NotaryStep(n)
    PROVE  NotaryEnds /\ OffChain
<1> USE DEF OffChain
<1>1. direction' = direction
  BY DEF NotaryStep
<1>2. ASSUME NEW c \in Chains, Poll(n, c) PROVE NotaryEnds /\ OffChain
  BY <1>1, <1>2, PollEnds DEF Poll
<1>3. ASSUME NEW h, takeCharge(n, h) PROVE NotaryEnds /\ OffChain
  BY <1>1, <1>3, ChargeEnds DEF takeCharge
<1>4. ASSUME NEW h, NEW name, callPrepare(n, h, name) PROVE NotaryEnds /\ OffChain
  BY <1>1, <1>4, RecordsWait DEF callPrepare, NotaryEnds, MailEndures, EndInv, MailSeen, NoneWaits
<1>5. ASSUME NEW m \in Notaries, NEW h, checkPrepareLockin(n, m, h) PROVE NotaryEnds /\ OffChain
  <2> DEFINE agrees == LockinSignable(m, h, session[n][h])
             info   == LockinEndorsed(db[m][h], n, session[n][h].expiration)
  <2>1. Answer(n, m, h, agrees, info) /\ (agrees => Known(m, h))
    BY <1>5 DEF checkPrepareLockin, LockinSignable, LockinRequested
  <2>2. \E e : info = LockinEndorsed(db[m][h], n, e)
    OBVIOUS
  <2>3. OffChain
    BY <1>1, <2>1 DEF Answer
  <2> HIDE DEF agrees, info
  <2> QED
    BY <2>1, <2>2, <2>3, AnswerEnds
<1>6. ASSUME NEW m \in Notaries, NEW h, checkPrepareLockout(n, m, h) PROVE NotaryEnds /\ OffChain
  <2> DEFINE agrees == LockoutSignable(m, h, session[n][h])
             info   == LockoutEndorsed(db[m][h], n, session[n][h].expiration)
  <2>1. Answer(n, m, h, agrees, info) /\ (agrees => Known(m, h))
    BY <1>6 DEF checkPrepareLockout, LockoutSignable, LockoutRequested
  <2>2. \E e : info = LockoutEndorsed(db[m][h], n, e)
    OBVIOUS
  <2>3. OffChain
    BY <1>1, <2>1 DEF Answer
  <2> HIDE DEF agrees, info
  <2> QED
    BY <2>1, <2>2, <2>3, AnswerEnds
<1>7. CASE Inward /\ LockinNotaryStep(n)
  <2>1. ASSUME NEW c \in Chains, NEW e \in inbox[n][c], HandleLockin(n, c, e) PROVE OffChain
    BY <1>1, <2>1 DEF HandleLockin, QueryLockin, onMCNewBlockLockin, onSCNewBlockLockin,
         onMCPrepareLockin4Ethereum, onSCPrepareLockin, onSCLockinSecret, onMCLockin4Ethereum,
         onMCCancelLockin4Ethereum, onSCCancelLockin, Handling
  <2> QED
    BY <1>2, <1>3, <1>4, <1>5, <1>7, <2>1, LockinEnds
    DEF LockinNotaryStep, LockinSessionStep, callSCPrepareLockin
<1>8. CASE Outward /\ LockoutNotaryStep(n)
  <2>1. ASSUME NEW c \in Chains, NEW e \in inbox[n][c], HandleLockout(n, c, e) PROVE OffChain
    BY <1>1, <2>1 DEF HandleLockout, QueryLockout, onMCNewBlockLockout, onSCNewBlockLockout,
         onSCPrepareLockout, onMCPrepareLockout4Ethereum, onMCLockoutSecret4Ethereum, onSCLockout,
         onMCCancelLockout4Ethereum, onSCCancelLockout, Handling
  <2> QED
    BY <1>2, <1>3, <1>4, <1>6, <1>8, <2>1, LockoutEnds
    DEF LockoutNotaryStep, LockoutSessionStep, callMCPrepareLockout
<1> QED
  BY <1>7, <1>8 DEF NotaryStep

LEMMA StartStopKeepsEnds ==
    ASSUME Typed, EndInv, NEW n \in Notaries, StartStop(n)
    PROVE  NotaryEnds /\ OffChain
<1>1. OffChain
  BY DEF OffChain, StartStop, Crash, Restart
<1>2. CASE Crash(n)
  BY <1>1, <1>2, StoppedEnds DEF Crash
<1>3. CASE Restart(n)
  <2>1. MailEndures
    BY <1>3 DEF Restart, MailEndures, EndInv, MailSeen, NoneWaits, Typed, InNotaries, PollingTyped
  <2> QED
    BY <1>1, <1>3, <2>1, RecordsWait DEF Restart, NotaryEnds
<1> QED
  BY <1>1, <1>2, <1>3 DEF StartStop

\* The answers of the notaries, the chains and a stutter.
LEMMA EndsKept ==
    ASSUME Prompt, Typed, Typed', TruthInv, EndInv, NewHashes, [Next]_transferVars
    PROVE  EndInv' /\ RecordsEndure
<1>1. CASE MCGrows \/ SCGrows
  BY <1>1, GrowthKeepsEnds
<1>2. CASE UserStep \/ Mining
  BY <1>2, UserWrites, MiningWrites, EntryKeepsEnds
<1>3. ASSUME NEW n \in Notaries, NotaryStep(n) \/ StartStop(n) PROVE EndInv' /\ RecordsEndure
  BY <1>3, NotaryKeepsEnds, StartStopKeepsEnds, OffChainEnds DEF NotaryEnds
<1>4. CASE UNCHANGED transferVars
  BY <1>4, EntryKeepsEnds DEF transferVars, vars, mcVars, scVars, nodeVars, NewEntry, NotariesStay
<1> QED
  BY <1>1, <1>2, <1>3, <1>4 DEF Next

LEMMA InitIsUnended == Init => EndInv
<1> SUFFICES ASSUME Init PROVE EndInv
  OBVIOUS
<1>1. InitNotaries
  BY DEF Init, LockinInit, LockoutInit
<1> QED
  BY <1>1 DEF InitNotaries, EndInv, LogsNamed, OneEnd, Opened, TakenBack, Log, MailSeen, EndsSeen,
              NoneWaits, Chains

\* The inductive invariant: a lock ends one way, and notaries see no end too early.
LEMMA AlwaysOneEnd == ASSUME Prompt PROVE Spec /\ []NewHashes => []EndInv
<1>1. Typed /\ Typed' /\ TruthInv /\ EndInv /\ NewHashes /\ [Next]_transferVars => EndInv'
  BY EndsKept
<1> QED
  BY <1>1, InitIsUnended, AlwaysTyped, AlwaysTold, PTL DEF Spec

(* Whatever is late, repeated, redelivered after a restart or handled in   *)
(* another order than it happened in, an outcome that a notary recorded    *)
(* stays recorded, and so does a secret: onSCPrepareLockin, which sets     *)
(* Lock whatever the record says, does no harm as long as the notaries     *)
(* keep up with the chains (KeptUp with Prompt), because an answer to its  *)
(* query that the lock stands is gone before the block in which the lock   *)
(* ends can be seen.  No hash is used again on a chain where its lock      *)
(* ended, which the contracts do not ensure.                               *)
THEOREM OutcomesAreKept == ASSUME Prompt PROVE Spec /\ []NewHashes => OutcomesStay
<1> DEFINE Stay == \A n \in Notaries : \A h \in DOMAIN db[n] : Remembers(db[n][h], db'[n][h])
<1>1. Typed /\ Typed' /\ TruthInv /\ EndInv /\ NewHashes /\ [Next]_transferVars => [Stay]_vars
  <2> SUFFICES ASSUME Typed, Typed', TruthInv, EndInv, NewHashes, [Next]_transferVars
               PROVE  Stay
    OBVIOUS
  <2>1. RecordsEndure
    BY EndsKept
  <2> QED
    BY <2>1 DEF RecordsEndure, Endures, Known
<1>2. OutcomesStay <=> [][Stay]_vars
  BY DEF OutcomesStay
<1> HIDE DEF Stay
<1> QED
  BY <1>1, <1>2, AlwaysOneEnd, AlwaysTyped, AlwaysTold, PTL DEF Spec
=============================================================================
