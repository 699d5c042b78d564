---------------------- MODULE AtmosphereToken_proofs ----------------------
(***************************************************************************)
(* Theorems about the side-chain token, for any accounts, secrets,         *)
(* amounts, expirations, bounds and width of uint256.                      *)
(***************************************************************************)
EXTENDS AtmosphereToken, Functions, FiniteSetTheorems, TLAPS

-----------------------------------------------------------------------------
(* Sums over finite sets, as SumFunction of the community modules defines  *)
(* them, by a fold that takes out one element after another.               *)
Adding(fun, x, sum)  == fun[x] + sum
IsNatural(fun, sum) == sum \in Nat
F == INSTANCE Folds_proofs WITH Op <- Adding, Good <- IsNatural

LEMMA FiniteEverywhere ==
    /\ \A S : IsFiniteSet(S) <=> F!IsFiniteSet(S)
    /\ F!Adds
BY DEF IsFiniteSet, F!IsFiniteSet, F!Adds, Adding

LEMMA SumIsATotal ==
    ASSUME NEW S, NEW fun \in [S -> Nat]
    PROVE  SumFunction(fun) = F!Total(fun, S) /\ F!Natural(fun, S)
BY DEF SumFunction, SumFunctionOnSet, FoldFunctionOnSet, MapThenFoldSet,
       F!Total, F!Natural, F!Fold, F!Defines, F!First, Adding

(* Two functions that differ in one element only have sums that differ by  *)
(* as much: what lockin and lockout do to what an account owns.            *)
THEOREM SumFunctionDiffers ==
    ASSUME NEW S, IsFiniteSet(S),
           NEW f1 \in [S -> Nat], NEW f2 \in [S -> Nat],
           NEW a \in S, \A x \in S \ {a} : f1[x] = f2[x]
    PROVE  /\ SumFunction(f1) \in Nat /\ SumFunction(f2) \in Nat
           /\ SumFunction(f1) >= f1[a]
           /\ SumFunction(f2) = SumFunction(f1) - f1[a] + f2[a]
<1>1. \A x \in S \ {a} : f1[x] <= f2[x] /\ f2[x] <= f1[x]
  OBVIOUS
<1>2. /\ F!Total(f1, S) \in Nat /\ F!Total(f2, S) \in Nat /\ f1[a] <= F!Total(f1, S)
      /\ F!Total(f2, S) <= F!Total(f1, S) - f1[a] + f2[a]
  BY <1>1, FiniteEverywhere, SumIsATotal, F!TotalsDiffer
<1>3. F!Total(f1, S) <= F!Total(f2, S) - f2[a] + f1[a]
  BY <1>1, FiniteEverywhere, SumIsATotal, F!TotalsDiffer
<1> QED
  BY <1>2, <1>3, SumIsATotal

(* Moving a part of one value to another loses nothing: what transfer and  *)
(* transferFrom do to the balances.                                        *)
THEOREM SumFunctionMoves ==
    ASSUME NEW S, IsFiniteSet(S),
           NEW f1 \in [S -> Nat], NEW f2 \in [S -> Nat],
           NEW a \in S, NEW b \in S, a # b, NEW v \in Nat,
           f2[a] = f1[a] - v, f2[b] = f1[b] + v,
           \A x \in S \ {a, b} : f1[x] = f2[x]
    PROVE  SumFunction(f2) = SumFunction(f1)
<1> DEFINE mid == [f1 EXCEPT ![a] = f2[a]]
<1>1. mid \in [S -> Nat] /\ mid[a] = f2[a] /\ mid[b] = f1[b]
  OBVIOUS
<1>2. \A x \in S \ {a} : f1[x] = mid[x]
  OBVIOUS
<1>3. \A x \in S \ {b} : mid[x] = f2[x]
  OBVIOUS
<1> HIDE DEF mid
<1>4. SumFunction(f1) \in Nat /\ SumFunction(mid) = SumFunction(f1) - f1[a] + mid[a]
  BY <1>1, <1>2, SumFunctionDiffers
<1>5. SumFunction(mid) \in Nat /\ SumFunction(f2) = SumFunction(mid) - mid[b] + f2[b]
  BY <1>1, <1>3, SumFunctionDiffers
<1>6. f1[a] \in Nat /\ f1[b] \in Nat
  OBVIOUS
<1> QED
  BY <1>1, <1>4, <1>5, <1>6

(* Nothing adds up to nothing: the balances and the locks the constructor  *)
(* starts with.                                                            *)
THEOREM SumFunctionOfZeros ==
    ASSUME NEW S, IsFiniteSet(S), NEW f1 \in [S -> Nat], \A x \in S : f1[x] = 0
    PROVE  SumFunction(f1) = 0
<1>1. \A x \in S : f1[x] <= 0
  OBVIOUS
<1>2. Cardinality(S) \in Nat /\ F!Cardinality(S) = Cardinality(S)
  BY FS_CardinalityType DEF Cardinality, F!Cardinality
<1>3. F!Total(f1, S) <= 0 * F!Cardinality(S) /\ F!Total(f1, S) \in Nat
  BY <1>1, FiniteEverywhere, SumIsATotal, F!TotalIsBounded, F!TotalTakesOut
<1> QED
  BY <1>2, <1>3, SumIsATotal

-----------------------------------------------------------------------------
(* The token.                                                              *)
\* The functions of the token that concern no lock.
Moves(a) == \E b \in Accounts, v \in Amounts :
                \/ transfer(a, b, v)
                \/ approve(a, b, v)
                \/ \E c \in Accounts : transferFrom(a, b, c, v)

LEMMA UnlockedIsALockRecord == Unlocked \in LockRecord /\ Unlocked.value \in uint256
  BY SideChainNumbers DEF Unlocked, LockRecord, Hashes, EmptyHash, uint256

(* A lock written by prepareLockin or prepareLockout is a LockRecord.      *)
LEMMA NewLockIsALockRecord ==
    ASSUME NEW h \in Hashes, NEW e \in Expirations, NEW v \in Amounts
    PROVE  /\ [SecretHash |-> h, Expiration |-> e, value |-> v] \in LockRecord
           /\ v \in uint256
  BY SideChainNumbers DEF LockRecord, uint256

(* uint256 is closed under the addition of the contract, under the         *)
(* subtraction of what is there, and under the wrapping one of lockout.    *)
LEMMA PlusIsClosed ==
    ASSUME NEW x \in uint256, NEW y \in uint256
    PROVE  Plus(x, y) \in uint256
  BY SideChainNumbers DEF Plus, uint256

LEMMA MinusIsClosed ==
    ASSUME NEW x \in uint256, NEW y \in uint256
    PROVE  /\ x >= y => x - y \in uint256
           /\ (x + UintMax + 1 - y) % (UintMax + 1) \in uint256
  BY SideChainNumbers DEF uint256

(* Moving tokens keeps balances uint256 values.                            *)
LEMMA MovedIsTyped ==
    ASSUME TypeOK, NEW from \in Accounts, NEW to \in Accounts, NEW v \in uint256,
           Movable(from, to, v)
    PROVE  Moved(from, to, v) \in [Accounts -> uint256]
  <1> DEFINE debited == [balances EXCEPT ![from] = @ - v]
  <1>1. debited \in [Accounts -> uint256]
    BY MinusIsClosed DEF TypeOK, Movable
  <1>2. Plus(debited[to], v) \in uint256
    BY <1>1, PlusIsClosed
  <1> QED
    BY <1>1, <1>2 DEF Moved

LEMMA TypeStep ==
    ASSUME TypeOK, [Next]_vars
    PROVE  TypeOK'
<1> USE UnlockedIsALockRecord DEF TypeOK, OwnedTypeOK, ownedVars, tokenVars
<1>1. CASE newBlock
  BY <1>1 DEF newBlock
<1>2. ASSUME NEW a \in Accounts, handOver(a) PROVE TypeOK'
  BY <1>2 DEF handOver, changeOwner, acceptOwnership
<1>3. ASSUME NEW a \in Accounts, cancelLockin(a) PROVE TypeOK'
  BY <1>3 DEF cancelLockin
<1>4. ASSUME NEW a \in Accounts, cancelLockOut(a) PROVE TypeOK'
  <2>1. balances' \in [Accounts -> uint256]
    BY <1>4, PlusIsClosed DEF cancelLockOut
  <2> QED
    BY <1>4, <2>1 DEF cancelLockOut
<1>5. ASSUME NEW a \in Accounts, NEW s \in Secrets, lockin(a, s) PROVE TypeOK'
  <2>1. balances' \in [Accounts -> uint256] /\ totalSupply' \in uint256
    BY <1>5, PlusIsClosed DEF lockin
  <2> QED
    BY <1>5, <2>1 DEF lockin
<1>6. ASSUME NEW a \in Accounts, NEW s \in Secrets, lockout(a, s) PROVE TypeOK'
  <2>1. totalSupply' \in uint256
    BY <1>6, MinusIsClosed DEF lockout
  <2> QED
    BY <1>6, <2>1 DEF lockout
<1>7. ASSUME NEW a \in Accounts, NEW h \in Hashes, NEW e \in Expirations, NEW v \in Amounts,
             NEW b \in Accounts, prepareLockin(b, a, h, e, v)
      PROVE  TypeOK'
  BY <1>7, NewLockIsALockRecord DEF prepareLockin
<1>8. ASSUME NEW a \in Accounts, NEW h \in Hashes, NEW e \in Expirations, NEW v \in Amounts,
             prepareLockout(a, h, e, v)
      PROVE  TypeOK'
  <2>1. balances' \in [Accounts -> uint256]
    BY <1>8, NewLockIsALockRecord, MinusIsClosed DEF prepareLockout
  <2> QED
    BY <1>8, <2>1, NewLockIsALockRecord DEF prepareLockout
<1>9. ASSUME NEW a \in Accounts, NEW b \in Accounts, NEW v \in Amounts, transfer(a, b, v)
      PROVE  TypeOK'
  <2>1. v \in uint256
    BY SideChainNumbers DEF uint256
  <2>2. balances' \in [Accounts -> uint256]
    BY <1>9, <2>1, MovedIsTyped DEF transfer
  <2> QED
    BY <1>9, <2>2 DEF transfer
<1>10. ASSUME NEW a \in Accounts, NEW b \in Accounts, NEW v \in Amounts, approve(a, b, v)
       PROVE  TypeOK'
  BY <1>10, SideChainNumbers DEF approve, uint256
<1>11. ASSUME NEW a \in Accounts, NEW b \in Accounts, NEW v \in Amounts, NEW c \in Accounts,
              transferFrom(a, b, c, v)
       PROVE  TypeOK'
  <2>1. v \in uint256
    BY SideChainNumbers DEF uint256
  <2>2. balances' \in [Accounts -> uint256]
    BY <1>11, <2>1, MovedIsTyped DEF transferFrom
  <2>3. allowed' \in [Accounts -> [Accounts -> uint256]]
    BY <1>11, <2>1, MinusIsClosed DEF transferFrom
  <2> QED
    BY <1>11, <2>2, <2>3 DEF transferFrom
<1>12. CASE UNCHANGED vars
  BY <1>12 DEF vars
<1> QED
  BY <1>1, <1>2, <1>3, <1>4, <1>5, <1>6, <1>7, <1>8, <1>9, <1>10, <1>11, <1>12 DEF Next

(* Type correctness: every balance, allowance, lock and the supply is a    *)
(* uint256 value, block by block, whoever owns the contract.               *)
THEOREM TypeCorrectness == Spec => []TypeOK
<1>1. Init => TypeOK
  BY UnlockedIsALockRecord, DeployerIsAnAccount, SideChainNumbers
  DEF Init, TypeOK, OwnedInit, OwnedTypeOK, uint256
<1>2. TypeOK /\ [Next]_vars => TypeOK'
  BY TypeStep
<1> QED
  BY <1>1, <1>2, PTL DEF Spec

-----------------------------------------------------------------------------
(* HTLC and the contract mean the same by a hash, a lock and no lock.      *)
LEMMA LockinVocabulary ==
    ASSUME NEW a \in Accounts
    PROVE  /\ LockinOf(a)!Unlocked = Unlocked
           /\ LockinOf(a)!LockRecord = LockRecord
           /\ \A s : LockinOf(a)!Sha256(s) = Sha256(s)
  <1>1. LockinOf(a)!Hashes = Hashes
    BY DEF LockinOf!Hashes, Hashes, LockinOf!Sha256, Sha256, LockinOf!EmptyHash, EmptyHash
  <1> QED
    BY <1>1 DEF LockinOf!Unlocked, Unlocked, LockinOf!EmptyHash, EmptyHash,
                LockinOf!LockRecord, LockRecord, LockinOf!Sha256, Sha256

(* For every account, a step of the contract is a step of HTLC, or none,   *)
(* on the account's lockin lock.                                           *)
LEMMA LockinStep ==
    ASSUME TypeOK, [Next]_vars, NEW a \in Accounts
    PROVE  [LockinOf(a)!LockNext]_(LockinOf(a)!lockVars)
  <1> USE LockinVocabulary DEF TypeOK, LockinOf!lockVars, LockinOf!LockNext
  <1>1. CASE newBlock
    BY <1>1 DEF newBlock, LockinOf!Elsewhere
  <1>2. ASSUME NEW b \in Accounts, handOver(b) \/ Moves(b) \/ cancelLockOut(b)
        PROVE  [LockinOf(a)!LockNext]_(LockinOf(a)!lockVars)
    BY <1>2 DEF handOver, Moves, transfer, approve, transferFrom, cancelLockOut
  <1>3. ASSUME NEW b \in Accounts, cancelLockin(b)
        PROVE  [LockinOf(a)!LockNext]_(LockinOf(a)!lockVars)
    <2>1. CASE a = b
      BY <1>3, <2>1, UnlockedIsALockRecord
      DEF cancelLockin, Lapsed, Expired, LockinOf!OpenAfterExpiry, TermsOf, LockRecord, Unlocked
    <2>2. CASE a # b
      BY <1>3, <2>2 DEF cancelLockin
    <2> QED
      BY <2>1, <2>2
  <1>4. ASSUME NEW b \in Accounts, NEW s \in Secrets, lockin(b, s)
        PROVE  [LockinOf(a)!LockNext]_(LockinOf(a)!lockVars)
    <2>1. CASE a = b
      BY <1>4, <2>1, UnlockedIsALockRecord
      DEF lockin, Opens, Alive, LockinOf!OpenWithSecret, TermsOf, LockRecord, Unlocked
    <2>2. CASE a # b
      BY <1>4, <2>2 DEF lockin, LockinOf!Elsewhere
    <2> QED
      BY <2>1, <2>2
  <1>5. ASSUME NEW b \in Accounts, NEW s \in Secrets, lockout(b, s)
        PROVE  [LockinOf(a)!LockNext]_(LockinOf(a)!lockVars)
    BY <1>5 DEF lockout, LockinOf!Elsewhere
  <1>6. ASSUME NEW b \in Accounts, NEW h \in Hashes, NEW e \in Expirations, NEW v \in Amounts,
               NEW c \in Accounts, prepareLockin(c, b, h, e, v)
        PROVE  [LockinOf(a)!LockNext]_(LockinOf(a)!lockVars)
    <2>1. CASE a = b
      <3> DEFINE lock == [SecretHash |-> h, Expiration |-> e, value |-> v]
      <3>1. lockin_htlc[a].value = 0 /\ lockin_htlc'[a] = lock /\ UNCHANGED <<block, revealed>>
        BY <1>6, <2>1 DEF prepareLockin
      <3>2. TermsOf(lockin_htlc[a]) = Unlocked
        BY <3>1 DEF TermsOf
      <3>3. CASE v = 0
        BY <3>1, <3>2, <3>3 DEF TermsOf
      <3>4. CASE v # 0
        <4>1. TermsOf(lockin_htlc[a])' = lock /\ lock \in LockRecord /\ lock.value > 0
          BY <3>1, <3>4, NewLockIsALockRecord DEF TermsOf, LockRecord
        <4> QED
          BY <3>1, <3>2, <4>1 DEF LockinOf!Close
      <3> QED
        BY <3>3, <3>4
    <2>2. CASE a # b
      BY <1>6, <2>2 DEF prepareLockin
    <2> QED
      BY <2>1, <2>2
  <1>7. ASSUME NEW b \in Accounts, NEW h \in Hashes, NEW e \in Expirations, NEW v \in Amounts,
               prepareLockout(b, h, e, v)
        PROVE  [LockinOf(a)!LockNext]_(LockinOf(a)!lockVars)
    BY <1>7 DEF prepareLockout
  <1>8. CASE UNCHANGED vars
    BY <1>8 DEF vars
  <1> QED
    BY <1>1, <1>2, <1>3, <1>4, <1>5, <1>6, <1>7, <1>8 DEF Next, Moves

(* Each lockin lock is a hash time lock: its tokens are minted by the      *)
(* secret before the expiration or withdrawn after it, never both.         *)
THEOREM LockinImplementsHTLC == Spec => LockinIsHTLC
<1>1. Init => \A a \in Accounts : LockinOf(a)!LockInit
  BY LockinVocabulary DEF Init, LockinOf!LockInit, TermsOf, Unlocked
<1>2. TypeOK /\ [Next]_vars
          => [\A a \in Accounts : [LockinOf(a)!LockNext]_(LockinOf(a)!lockVars)]_vars
  BY LockinStep
<1> QED
  BY <1>1, <1>2, TypeCorrectness, PTL DEF Spec, LockinIsHTLC

-----------------------------------------------------------------------------
(* The same for the lockout locks.                                         *)
LEMMA LockoutVocabulary ==
    ASSUME NEW a \in Accounts
    PROVE  /\ LockoutOf(a)!Unlocked = Unlocked
           /\ LockoutOf(a)!LockRecord = LockRecord
           /\ \A s : LockoutOf(a)!Sha256(s) = Sha256(s)
  <1>1. LockoutOf(a)!Hashes = Hashes
    BY DEF LockoutOf!Hashes, Hashes, LockoutOf!Sha256, Sha256, LockoutOf!EmptyHash, EmptyHash
  <1> QED
    BY <1>1 DEF LockoutOf!Unlocked, Unlocked, LockoutOf!EmptyHash, EmptyHash,
                LockoutOf!LockRecord, LockRecord, LockoutOf!Sha256, Sha256

LEMMA LockoutStep ==
    ASSUME TypeOK, [Next]_vars, NEW a \in Accounts
    PROVE  [LockoutOf(a)!LockNext]_(LockoutOf(a)!lockVars)
  <1> USE LockoutVocabulary DEF TypeOK, LockoutOf!lockVars, LockoutOf!LockNext
  <1>1. CASE newBlock
    BY <1>1 DEF newBlock, LockoutOf!Elsewhere
  <1>2. ASSUME NEW b \in Accounts, handOver(b) \/ Moves(b) \/ cancelLockin(b)
        PROVE  [LockoutOf(a)!LockNext]_(LockoutOf(a)!lockVars)
    BY <1>2 DEF handOver, Moves, transfer, approve, transferFrom, cancelLockin
  <1>3. ASSUME NEW b \in Accounts, cancelLockOut(b)
        PROVE  [LockoutOf(a)!LockNext]_(LockoutOf(a)!lockVars)
    <2>1. CASE a = b
      BY <1>3, <2>1, UnlockedIsALockRecord
      DEF cancelLockOut, Lapsed, Expired, LockoutOf!OpenAfterExpiry, TermsOf, LockRecord, Unlocked
    <2>2. CASE a # b
      BY <1>3, <2>2 DEF cancelLockOut
    <2> QED
      BY <2>1, <2>2
  <1>4. ASSUME NEW b \in Accounts, NEW s \in Secrets, lockout(b, s)
        PROVE  [LockoutOf(a)!LockNext]_(LockoutOf(a)!lockVars)
    <2>1. CASE a = b
      BY <1>4, <2>1, UnlockedIsALockRecord
      DEF lockout, Opens, Alive, LockoutOf!OpenWithSecret, TermsOf, LockRecord, Unlocked
    <2>2. CASE a # b
      BY <1>4, <2>2 DEF lockout, LockoutOf!Elsewhere
    <2> QED
      BY <2>1, <2>2
  <1>5. ASSUME NEW b \in Accounts, NEW s \in Secrets, lockin(b, s)
        PROVE  [LockoutOf(a)!LockNext]_(LockoutOf(a)!lockVars)
    BY <1>5 DEF lockin, LockoutOf!Elsewhere
  <1>6. ASSUME NEW b \in Accounts, NEW h \in Hashes, NEW e \in Expirations, NEW v \in Amounts,
               prepareLockout(b, h, e, v)
        PROVE  [LockoutOf(a)!LockNext]_(LockoutOf(a)!lockVars)
    <2>1. CASE a = b
      BY <1>6, <2>1, NewLockIsALockRecord
      DEF prepareLockout, LockoutOf!Close, TermsOf, LockRecord
    <2>2. CASE a # b
      BY <1>6, <2>2 DEF prepareLockout
    <2> QED
      BY <2>1, <2>2
  <1>7. ASSUME NEW b \in Accounts, NEW h \in Hashes, NEW e \in Expirations, NEW v \in Amounts,
               NEW c \in Accounts, prepareLockin(c, b, h, e, v)
        PROVE  [LockoutOf(a)!LockNext]_(LockoutOf(a)!lockVars)
    BY <1>7 DEF prepareLockin
  <1>8. CASE UNCHANGED vars
    BY <1>8 DEF vars
  <1> QED
    BY <1>1, <1>2, <1>3, <1>4, <1>5, <1>6, <1>7, <1>8 DEF Next, Moves

(* Each lockout lock is one too: the tokens a user locked are destroyed by *)
(* the secret before the expiration or credited back after it.             *)
THEOREM LockoutImplementsHTLC == Spec => LockoutIsHTLC
<1>1. Init => \A a \in Accounts : LockoutOf(a)!LockInit
  BY LockoutVocabulary DEF Init, LockoutOf!LockInit, TermsOf, Unlocked
<1>2. TypeOK /\ [Next]_vars
          => [\A a \in Accounts : [LockoutOf(a)!LockNext]_(LockoutOf(a)!lockVars)]_vars
  BY LockoutStep
<1> QED
  BY <1>1, <1>2, TypeCorrectness, PTL DEF Spec, LockoutIsHTLC

-----------------------------------------------------------------------------
(* The supply.                                                             *)

\* What account a owns, locked or not.
Owns == [a \in Accounts |-> balances[a] + lockout_htlc[a].value]

LEMMA OwnsIsTyped ==
    ASSUME TypeOK
    PROVE  Owns \in [Accounts -> Nat]
  BY DEF Owns, TypeOK, uint256

\* A function of the token that changes what one account owns, and the supply
\* by as much.
LEMMA OneAccountChanges ==
    ASSUME TypeOK, TypeOK', SupplyIsAccountedFor, NEW a \in Accounts,
           \A b \in Accounts \ {a} : Owns'[b] = Owns[b],
           totalSupply' = totalSupply - Owns[a] + Owns'[a]
    PROVE  SupplyIsAccountedFor'
<1>1. Owns \in [Accounts -> Nat] /\ Owns' \in [Accounts -> Nat]
  BY OwnsIsTyped DEF TypeOK, uint256, Owns
<1>2. /\ SumFunction(Owns) \in Nat /\ SumFunction(Owns') \in Nat
      /\ SumFunction(Owns') = SumFunction(Owns) - Owns[a] + Owns'[a]
  BY <1>1, AccountsAreFinite, SumFunctionDiffers
<1>3. totalSupply = 1 + SumFunction(Owns) /\ Owns[a] \in Nat /\ Owns'[a] \in Nat
  BY <1>1 DEF SupplyIsAccountedFor, Owns
<1>4. totalSupply' = 1 + SumFunction(Owns')
  BY <1>2, <1>3
<1> QED
  BY <1>4 DEF SupplyIsAccountedFor, Owns

LEMMA NothingChanges ==
    ASSUME SupplyIsAccountedFor, Owns' = Owns, totalSupply' = totalSupply
    PROVE  SupplyIsAccountedFor'
  BY DEF SupplyIsAccountedFor, Owns

\* No account owns more than the supply but for the constructor's unit, so
\* that nothing wraps that is added to what it owns or to the supply.
LEMMA NobodyOwnsMore ==
    ASSUME TypeOK, SupplyIsAccountedFor, NEW a \in Accounts
    PROVE  balances[a] + lockout_htlc[a].value <= totalSupply - 1
<1>1. Owns \in [Accounts -> Nat]
  BY OwnsIsTyped
<1>2. SumFunction(Owns) \in Nat /\ SumFunction(Owns) >= Owns[a]
  BY <1>1, AccountsAreFinite, SumFunctionDiffers
<1>3. totalSupply = 1 + SumFunction(Owns)
  BY DEF SupplyIsAccountedFor, Owns
<1>4. Owns[a] = balances[a] + lockout_htlc[a].value /\ Owns[a] \in Nat
  BY <1>1 DEF Owns
<1> QED
  BY <1>2, <1>3, <1>4

\* Adding to a uint256 value does not wrap if the sum is above it.
LEMMA NoWrap ==
    ASSUME NEW x \in uint256, NEW y \in uint256
    PROVE  /\ Plus(x, y) \in uint256
           /\ (Plus(x, y) > x \/ x + y <= UintMax) => Plus(x, y) = x + y
BY SideChainNumbers DEF Plus, uint256

\* transfer and transferFrom move what they move from one account to another
\* and lose nothing, the same account included.
LEMMA MovedIsAccountedFor ==
    ASSUME TypeOK, TypeOK', SupplyIsAccountedFor,
           NEW from \in Accounts, NEW to \in Accounts, NEW v \in uint256,
           Movable(from, to, v), balances' = Moved(from, to, v),
           lockout_htlc' = lockout_htlc, totalSupply' = totalSupply
    PROVE  SupplyIsAccountedFor'
<1>1. Plus(balances[to], v) = balances[to] + v /\ v > 0 /\ v <= balances[from]
  BY NoWrap, SideChainNumbers DEF Movable, Plus, TypeOK, uint256
<1>2. CASE from = to
  <2>1. balances' = balances
    BY <1>1, <1>2, NoWrap DEF Moved, TypeOK, uint256
  <2> QED
    BY <2>1, NothingChanges DEF Owns
<1>3. CASE from # to
  <2>1. /\ balances'[from] = balances[from] - v
        /\ balances'[to] = balances[to] + v
        /\ \A b \in Accounts \ {from, to} : balances'[b] = balances[b]
    BY <1>1, <1>3 DEF Moved, TypeOK, uint256
  <2>2. Owns \in [Accounts -> Nat] /\ Owns' \in [Accounts -> Nat]
    BY OwnsIsTyped DEF TypeOK, uint256, Owns
  <2>3. Owns'[from] = Owns[from] - v /\ Owns'[to] = Owns[to] + v
    BY <2>1, <1>1 DEF Owns, TypeOK, uint256
  <2>4. \A b \in Accounts \ {from, to} : Owns[b] = Owns'[b]
    BY <2>1 DEF Owns
  <2>5. v \in Nat
    BY DEF uint256
  <2>6. SumFunction(Owns') = SumFunction(Owns)
    BY <1>3, <2>2, <2>3, <2>4, <2>5, AccountsAreFinite, SumFunctionMoves
  <2> QED
    BY <2>6 DEF SupplyIsAccountedFor, Owns
<1> QED
  BY <1>2, <1>3

LEMMA SupplyStep ==
    ASSUME TypeOK, SupplyIsAccountedFor, [Next]_vars
    PROVE  SupplyIsAccountedFor'
<1> USE TypeStep DEF ownedVars, tokenVars
<1>1. CASE newBlock
  BY <1>1, NothingChanges DEF newBlock, Owns
<1>2. ASSUME NEW a \in Accounts, handOver(a) \/ cancelLockin(a) PROVE SupplyIsAccountedFor'
  BY <1>2, NothingChanges DEF handOver, cancelLockin, Owns
<1>3. ASSUME NEW a \in Accounts, NEW b \in Accounts, NEW v \in Amounts, approve(a, b, v)
      PROVE  SupplyIsAccountedFor'
  BY <1>3, NothingChanges DEF approve, Owns
<1>4. ASSUME NEW a \in Accounts, NEW b \in Accounts, NEW h \in Hashes, NEW e \in Expirations,
             NEW v \in Amounts, prepareLockin(b, a, h, e, v)
      PROVE  SupplyIsAccountedFor'
  BY <1>4, NothingChanges DEF prepareLockin, Owns
<1>5. ASSUME NEW a \in Accounts, NEW h \in Hashes, NEW e \in Expirations,
             NEW v \in Amounts, prepareLockout(a, h, e, v)
      PROVE  SupplyIsAccountedFor'
  <2>1. balances'[a] = balances[a] - v /\ lockout_htlc'[a].value = v /\ lockout_htlc[a].value = 0
    BY <1>5 DEF prepareLockout, TypeOK
  <2>2. /\ totalSupply' = totalSupply
        /\ \A b \in Accounts \ {a} : balances'[b] = balances[b] /\ lockout_htlc'[b] = lockout_htlc[b]
    BY <1>5 DEF prepareLockout, TypeOK
  <2>3. v \in Nat /\ balances[a] \in Nat
    BY SideChainNumbers DEF TypeOK, uint256
  <2>4. \A b \in Accounts : Owns'[b] = Owns[b]
    BY <2>1, <2>2, <2>3 DEF Owns
  <2>5. Owns' = Owns
    BY <2>4 DEF Owns
  <2> QED
    BY <2>2, <2>5, NothingChanges
<1>6. ASSUME NEW a \in Accounts, cancelLockOut(a) PROVE SupplyIsAccountedFor'
  <2>1. Plus(balances[a], lockout_htlc[a].value) = balances[a] + lockout_htlc[a].value
    <3>1. /\ balances[a] \in uint256 /\ lockout_htlc[a].value \in uint256
          /\ totalSupply \in uint256
      BY DEF TypeOK
    <3>2. balances[a] + lockout_htlc[a].value <= totalSupply - 1
      BY NobodyOwnsMore
    <3>3. ASSUME NEW x \in uint256, NEW y \in uint256, NEW t \in uint256, x + y <= t - 1
          PROVE  Plus(x, y) = x + y
      <4>1. x + y <= UintMax
        BY <3>3, SideChainNumbers DEF uint256
      <4> QED
        BY <4>1, NoWrap
    <3> QED
      BY <3>1, <3>2, <3>3
  <2>2. /\ balances'[a] = balances[a] + lockout_htlc[a].value /\ lockout_htlc'[a].value = 0
        /\ totalSupply' = totalSupply
        /\ \A b \in Accounts \ {a} : balances'[b] = balances[b] /\ lockout_htlc'[b] = lockout_htlc[b]
    BY <1>6, <2>1 DEF cancelLockOut, TypeOK, Unlocked
  <2>3. balances[a] \in Nat /\ lockout_htlc[a].value \in Nat
    BY DEF TypeOK, uint256
  <2>4. \A b \in Accounts : Owns'[b] = Owns[b]
    BY <2>2, <2>3 DEF Owns
  <2>5. Owns' = Owns
    BY <2>4 DEF Owns
  <2> QED
    BY <2>2, <2>5, NothingChanges
<1>7. ASSUME NEW a \in Accounts, NEW s \in Secrets, lockin(a, s) PROVE SupplyIsAccountedFor'
  <2> DEFINE v == lockin_htlc[a].value
  <2>1. v \in uint256 /\ v > 0 /\ balances[a] \in uint256 /\ totalSupply \in uint256
    BY <1>7 DEF lockin, Opens, TypeOK
  <2>2. balances[a] + lockout_htlc[a].value <= totalSupply - 1 /\ lockout_htlc[a].value \in Nat
    BY NobodyOwnsMore DEF TypeOK, uint256
  <2>3. Plus(totalSupply, v) = totalSupply + v /\ Plus(balances[a], v) = balances[a] + v
    <3>1. Plus(totalSupply, v) > v
      BY <1>7 DEF lockin
    <3> HIDE DEF v
    <3> QED
      BY <2>1, <2>2, <3>1, SideChainNumbers DEF Plus, uint256
  <2>4. /\ balances'[a] = balances[a] + v /\ totalSupply' = totalSupply + v
        /\ lockout_htlc' = lockout_htlc
        /\ \A b \in Accounts \ {a} : balances'[b] = balances[b]
    BY <1>7, <2>3 DEF lockin, TypeOK
  <2> HIDE DEF v
  <2>5. Owns[a] \in Nat /\ Owns'[a] = Owns[a] + v
    BY <2>1, <2>2, <2>4 DEF Owns, uint256
  <2>6. totalSupply' = totalSupply - Owns[a] + Owns'[a]
    BY <2>1, <2>4, <2>5 DEF uint256
  <2> QED
    BY <2>4, <2>6, OneAccountChanges DEF Owns
<1>8. ASSUME NEW a \in Accounts, NEW s \in Secrets, lockout(a, s) PROVE SupplyIsAccountedFor'
  <2> DEFINE v == lockout_htlc[a].value
  <2>1. v \in uint256 /\ v > 0 /\ balances[a] \in uint256 /\ totalSupply \in uint256
    BY <1>8 DEF lockout, Opens, TypeOK
  <2>2. balances[a] + v <= totalSupply - 1
    BY NobodyOwnsMore
  <2>3. /\ totalSupply' = (totalSupply + UintMax + 1 - v) % (UintMax + 1)
        /\ balances' = balances /\ lockout_htlc'[a].value = 0
        /\ \A b \in Accounts \ {a} : lockout_htlc'[b] = lockout_htlc[b]
    BY <1>8 DEF lockout, TypeOK, Unlocked
  <2>4. Owns[a] = balances[a] + v /\ Owns'[a] = balances[a]
    BY <2>1, <2>3 DEF Owns, uint256
  <2>5. \A b \in Accounts \ {a} : Owns'[b] = Owns[b]
    BY <2>3 DEF Owns
  <2> HIDE DEF v
  <2>6. totalSupply' = totalSupply - v
    BY <2>1, <2>2, <2>3, SideChainNumbers DEF uint256
  <2>7. totalSupply' = totalSupply - Owns[a] + Owns'[a]
    BY <2>1, <2>4, <2>6 DEF uint256
  <2> QED
    BY <2>5, <2>7, OneAccountChanges
<1>9. ASSUME NEW a \in Accounts, NEW b \in Accounts, NEW v \in Amounts, transfer(a, b, v)
      PROVE  SupplyIsAccountedFor'
  <2>1. v \in uint256
    BY SideChainNumbers DEF uint256
  <2> QED
    BY <1>9, <2>1, MovedIsAccountedFor DEF transfer
<1>10. ASSUME NEW a \in Accounts, NEW b \in Accounts, NEW c \in Accounts, NEW v \in Amounts,
              transferFrom(a, b, c, v)
       PROVE  SupplyIsAccountedFor'
  <2>1. v \in uint256
    BY SideChainNumbers DEF uint256
  <2> QED
    BY <1>10, <2>1, MovedIsAccountedFor DEF transferFrom
<1>11. CASE UNCHANGED vars
  BY <1>11, NothingChanges DEF vars, Owns
<1> QED
  BY <1>1, <1>2, <1>3, <1>4, <1>5, <1>6, <1>7, <1>8, <1>9, <1>10, <1>11 DEF Next

(* Every token is accounted for: the constructor's unit, what the accounts *)
(* have and what is in their lockout locks is the supply, in true numbers: *)
(* no addition and no subtraction of lockin, lockout, cancelLockOut,       *)
(* transfer and transferFrom wraps, whatever the owner mints.              *)
THEOREM EveryTokenIsAccountedFor == Spec => []SupplyIsAccountedFor
<1>1. Init => SupplyIsAccountedFor
  <2> SUFFICES ASSUME Init PROVE SupplyIsAccountedFor
    OBVIOUS
  <2>1. Owns \in [Accounts -> Nat] /\ \A a \in Accounts : Owns[a] = 0
    BY DEF Init, Owns, Unlocked
  <2>2. SumFunction(Owns) = 0
    BY <2>1, AccountsAreFinite, SumFunctionOfZeros
  <2> QED
    BY <2>2 DEF Init, SupplyIsAccountedFor, Owns
<1>2. (TypeOK /\ SupplyIsAccountedFor) /\ [Next]_vars => SupplyIsAccountedFor'
  BY SupplyStep
<1> QED
  BY <1>1, <1>2, TypeCorrectness, PTL DEF Spec
=============================================================================
