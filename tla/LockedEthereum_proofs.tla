----------------------- MODULE LockedEthereum_proofs -----------------------
(***************************************************************************)
(* Theorems about the main-chain contract, for any accounts, secrets,      *)
(* amounts, expirations and bounds.                                        *)
(***************************************************************************)
EXTENDS LockedEthereum, TLAPS

(* A lock written by prepareLockin or prepareLockoutHTLC is a LockRecord.  *)
LEMMA NewLockIsALockRecord ==
    ASSUME NEW h \in Hashes, NEW e \in Expirations, NEW v \in Amounts
    PROVE  [SecretHash |-> h, Expiration |-> e, value |-> v] \in LockRecord
  BY MainChainNumbers DEF LockRecord

LEMMA UnlockedIsALockRecord == Unlocked \in LockRecord
  BY DEF Unlocked, LockRecord, Hashes, EmptyHash

(* Type correctness of the contract: in particular the ether it holds      *)
(* never goes below zero, although lockout locks are not backed by it      *)
(* (account.transfer in cancelLockin and lockout).                         *)
THEOREM TypeCorrectness == Spec => []TypeOK
<1>1. Init => TypeOK
  BY UnlockedIsALockRecord, DeployerIsAnAccount DEF Init, TypeOK, OwnedInit, OwnedTypeOK
<1>2. TypeOK /\ [Next]_vars => TypeOK'
  <2> SUFFICES ASSUME TypeOK, [Next]_vars PROVE TypeOK'
    OBVIOUS
  <2> USE UnlockedIsALockRecord, MainChainNumbers DEF TypeOK, OwnedTypeOK, ownedVars
  <2>1. CASE newBlock
    BY <2>1 DEF newBlock
  <2>2. ASSUME NEW a \in Accounts, handOver(a) PROVE TypeOK'
    BY <2>2 DEF handOver, changeOwner, acceptOwnership
  <2>3. ASSUME NEW a \in Accounts, cancelLockin(a) PROVE TypeOK'
    BY <2>3 DEF cancelLockin, transferEther, LockRecord
  <2>4. ASSUME NEW a \in Accounts, cancleLockOut(a) PROVE TypeOK'
    BY <2>4 DEF cancleLockOut
  <2>5. ASSUME NEW a \in Accounts, NEW s \in Secrets, lockin(a, s) PROVE TypeOK'
    BY <2>5 DEF lockin
  <2>6. ASSUME NEW a \in Accounts, NEW s \in Secrets, lockout(a, s) PROVE TypeOK'
    BY <2>6 DEF lockout, transferEther, LockRecord
  <2>7. ASSUME NEW a \in Accounts, NEW h \in Hashes, NEW e \in Expirations, NEW v \in Amounts,
               prepareLockin(a, h, e, v)
        PROVE  TypeOK'
    BY <2>7, NewLockIsALockRecord DEF prepareLockin
  <2>8. ASSUME NEW a \in Accounts, NEW h \in Hashes, NEW e \in Expirations, NEW v \in Amounts,
               NEW b \in Accounts, prepareLockoutHTLC(b, a, h, e, v)
        PROVE  TypeOK'
    BY <2>8, NewLockIsALockRecord DEF prepareLockoutHTLC
  <2>9. CASE UNCHANGED vars
    BY <2>9 DEF vars
  <2> QED
    BY <2>1, <2>2, <2>3, <2>4, <2>5, <2>6, <2>7, <2>8, <2>9 DEF Next
<1> QED
  BY <1>1, <1>2, PTL DEF Spec

(* HTLC and the contract mean the same by a hash, a lock and no lock.      *)
LEMMA LockinVocabulary ==
    ASSUME NEW a \in Accounts
    PROVE  /\ LockinOf(a)!Unlocked = Unlocked
           /\ LockinOf(a)!LockRecord = LockRecord
           /\ \A s : LockinOf(a)!Sha256(s) = Sha256(s)
  <1>1. LockinOf(a)!Hashes = Hashes
    BY DEF LockinOf!Hashes, Hashes, LockinOf!Sha256, Sha256, LockinOf!EmptyHash, EmptyHash
  <1> QED
    BY <1>1 DEF LockinOf!Unlocked, Unlocked, LockinOf!EmptyHash, EmptyHash,
                LockinOf!LockRecord, LockRecord, LockinOf!Sha256, Sha256

(* For every account, a step of the contract is a step of HTLC, or none,   *)
(* on the account's lockin lock.                                           *)
LEMMA LockinStep ==
    ASSUME TypeOK, [Next]_vars, NEW a \in Accounts
    PROVE  [LockinOf(a)!LockNext]_(LockinOf(a)!lockVars)
  <1> USE LockinVocabulary DEF TypeOK, LockinOf!lockVars, LockinOf!LockNext
  <1>1. CASE newBlock
    BY <1>1 DEF newBlock, LockinOf!Elsewhere
  <1>2. ASSUME NEW b \in Accounts, handOver(b) \/ cancleLockOut(b)
        PROVE  [LockinOf(a)!LockNext]_(LockinOf(a)!lockVars)
    BY <1>2 DEF handOver, cancleLockOut
  <1>3. ASSUME NEW b \in Accounts, cancelLockin(b)
        PROVE  [LockinOf(a)!LockNext]_(LockinOf(a)!lockVars)
    <2>1. CASE a = b
      BY <1>3, <2>1, UnlockedIsALockRecord
      DEF cancelLockin, Lapsed, Expired, LockinOf!OpenAfterExpiry, TermsOf, LockRecord, Unlocked
    <2>2. CASE a # b
      BY <1>3, <2>2 DEF cancelLockin
    <2> QED
      BY <2>1, <2>2
  <1>4. ASSUME NEW b \in Accounts, NEW s \in Secrets, lockin(b, s)
        PROVE  [LockinOf(a)!LockNext]_(LockinOf(a)!lockVars)
    <2>1. CASE a = b
      BY <1>4, <2>1, UnlockedIsALockRecord
      DEF lockin, Opens, Alive, LockinOf!OpenWithSecret, TermsOf, LockRecord, Unlocked
    <2>2. CASE a # b
      BY <1>4, <2>2 DEF lockin, LockinOf!Elsewhere
    <2> QED
      BY <2>1, <2>2
  <1>5. ASSUME NEW b \in Accounts, NEW s \in Secrets, lockout(b, s)
        PROVE  [LockinOf(a)!LockNext]_(LockinOf(a)!lockVars)
    BY <1>5 DEF lockout, LockinOf!Elsewhere
  <1>6. ASSUME NEW b \in Accounts, NEW h \in Hashes, NEW e \in Expirations, NEW v \in Amounts,
               prepareLockin(b, h, e, v)
        PROVE  [LockinOf(a)!LockNext]_(LockinOf(a)!lockVars)
    <2>1. CASE a = b
      BY <1>6, <2>1, NewLockIsALockRecord
      DEF prepareLockin, LockinOf!Close, TermsOf, LockRecord
    <2>2. CASE a # b
      BY <1>6, <2>2 DEF prepareLockin
    <2> QED
      BY <2>1, <2>2
  <1>7. ASSUME NEW b \in Accounts, NEW h \in Hashes, NEW e \in Expirations, NEW v \in Amounts,
               NEW c \in Accounts, prepareLockoutHTLC(c, b, h, e, v)
        PROVE  [LockinOf(a)!LockNext]_(LockinOf(a)!lockVars)
    BY <1>7 DEF prepareLockoutHTLC
  <1>8. CASE UNCHANGED vars
    BY <1>8 DEF vars
  <1> QED
    BY <1>1, <1>2, <1>3, <1>4, <1>5, <1>6, <1>7, <1>8 DEF Next

(* Each lockin lock is a hash time lock: the user's ether is destroyed by  *)
(* the secret before the expiration or refunded after it, never both.      *)
THEOREM LockinImplementsHTLC == Spec => LockinIsHTLC
<1>1. Init => \A a \in Accounts : LockinOf(a)!LockInit
  BY LockinVocabulary DEF Init, LockinOf!LockInit, TermsOf, Unlocked
<1>2. TypeOK /\ [Next]_vars
          => [\A a \in Accounts : [LockinOf(a)!LockNext]_(LockinOf(a)!lockVars)]_vars
  BY LockinStep
<1> QED
  BY <1>1, <1>2, TypeCorrectness, PTL DEF Spec, LockinIsHTLC

-----------------------------------------------------------------------------
(* The same for the lockout locks.                                         *)
LEMMA LockoutVocabulary ==
    ASSUME NEW a \in Accounts
    PROVE  /\ LockoutOf(a)!Unlocked = Unlocked
           /\ LockoutOf(a)!LockRecord = LockRecord
           /\ \A s : LockoutOf(a)!Sha256(s) = Sha256(s)
  <1>1. LockoutOf(a)!Hashes = Hashes
    BY DEF LockoutOf!Hashes, Hashes, LockoutOf!Sha256, Sha256, LockoutOf!EmptyHash, EmptyHash
  <1> QED
    BY <1>1 DEF LockoutOf!Unlocked, Unlocked, LockoutOf!EmptyHash, EmptyHash,
                LockoutOf!LockRecord, LockRecord, LockoutOf!Sha256, Sha256

LEMMA LockoutStep ==
    ASSUME TypeOK, [Next]_vars, NEW a \in Accounts
    PROVE  [LockoutOf(a)!LockNext]_(LockoutOf(a)!lockVars)
  <1> USE LockoutVocabulary DEF TypeOK, LockoutOf!lockVars, LockoutOf!LockNext
  <1>1. CASE newBlock
    BY <1>1 DEF newBlock, LockoutOf!Elsewhere
  <1>2. ASSUME NEW b \in Accounts, handOver(b) \/ cancelLockin(b)
        PROVE  [LockoutOf(a)!LockNext]_(LockoutOf(a)!lockVars)
    BY <1>2 DEF handOver, cancelLockin
  <1>3. ASSUME NEW b \in Accounts, cancleLockOut(b)
        PROVE  [LockoutOf(a)!LockNext]_(LockoutOf(a)!lockVars)
    <2>1. CASE a = b
      BY <1>3, <2>1, UnlockedIsALockRecord
      DEF cancleLockOut, Lapsed, Expired, LockoutOf!OpenAfterExpiry, TermsOf, LockRecord, Unlocked
    <2>2. CASE a # b
      BY <1>3, <2>2 DEF cancleLockOut
    <2> QED
      BY <2>1, <2>2
  <1>4. ASSUME NEW b \in Accounts, NEW s \in Secrets, lockout(b, s)
        PROVE  [LockoutOf(a)!LockNext]_(LockoutOf(a)!lockVars)
    <2>1. CASE a = b
      BY <1>4, <2>1, UnlockedIsALockRecord
      DEF lockout, Opens, Alive, LockoutOf!OpenWithSecret, TermsOf, LockRecord, Unlocked
    <2>2. CASE a # b
      BY <1>4, <2>2 DEF lockout, LockoutOf!Elsewhere
    <2> QED
      BY <2>1, <2>2
  <1>5. ASSUME NEW b \in Accounts, NEW s \in Secrets, lockin(b, s)
        PROVE  [LockoutOf(a)!LockNext]_(LockoutOf(a)!lockVars)
    BY <1>5 DEF lockin, LockoutOf!Elsewhere
  <1>6. ASSUME NEW b \in Accounts, NEW h \in Hashes, NEW e \in Expirations, NEW v \in Amounts,
               NEW c \in Accounts, prepareLockoutHTLC(c, b, h, e, v)
        PROVE  [LockoutOf(a)!LockNext]_(LockoutOf(a)!lockVars)
    <2>1. CASE a = b
      BY <1>6, <2>1, NewLockIsALockRecord
      DEF prepareLockoutHTLC, LockoutOf!Close, TermsOf, LockRecord
    <2>2. CASE a # b
      BY <1>6, <2>2 DEF prepareLockoutHTLC
    <2> QED
      BY <2>1, <2>2
  <1>7. ASSUME NEW b \in Accounts, NEW h \in Hashes, NEW e \in Expirations, NEW v \in Amounts,
               prepareLockin(b, h, e, v)
        PROVE  [LockoutOf(a)!LockNext]_(LockoutOf(a)!lockVars)
    BY <1>7 DEF prepareLockin
  <1>8. CASE UNCHANGED vars
    BY <1>8 DEF vars
  <1> QED
    BY <1>1, <1>2, <1>3, <1>4, <1>5, <1>6, <1>7, <1>8 DEF Next

(* Each lockout lock is one too: the notaries cannot take back what they   *)
(* locked for a user before it expires, nor the user take it afterwards.   *)
THEOREM LockoutImplementsHTLC == Spec => LockoutIsHTLC
<1>1. Init => \A a \in Accounts : LockoutOf(a)!LockInit
  BY LockoutVocabulary DEF Init, LockoutOf!LockInit, TermsOf, Unlocked
<1>2. TypeOK /\ [Next]_vars
          => [\A a \in Accounts : [LockoutOf(a)!LockNext]_(LockoutOf(a)!lockVars)]_vars
  BY LockoutStep
<1> QED
  BY <1>1, <1>2, TypeCorrectness, PTL DEF Spec, LockoutIsHTLC
=============================================================================
