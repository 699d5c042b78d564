------------------------------ MODULE Transfer ------------------------------
(***************************************************************************)
(* One transfer of value over the bridge, in the direction its user        *)
(* chooses: a lockin or a lockout.  CrossChainService handles both with    *)
(* the same polling, sessions and restarts; its handlers of one direction  *)
(* find no record of the other.                                            *)
(***************************************************************************)
EXTENDS Lockin, Lockout

VARIABLE direction     \* "lockin" or "lockout"

Inward  == direction = "lockin"
Outward == direction = "lockout"

Init == \/ Inward /\ LockinInit
        \/ Outward /\ LockoutInit

UserStep == /\ \/ Inward /\ LockinUserStep
               \/ Outward /\ LockoutUserStep
            /\ UNCHANGED direction

Mining == /\ \E tx \in mempool : \/ Inward /\ LockinMined(tx)
                                 \/ Outward /\ LockoutMined(tx)
          /\ UNCHANGED direction

NotaryStep(n) == /\ \/ Inward /\ LockinNotaryStep(n)
                    \/ Outward /\ LockoutNotaryStep(n)
                 /\ UNCHANGED direction

MCGrows == MCNewBlock /\ UNCHANGED direction
SCGrows == SCNewBlock /\ UNCHANGED direction
StartStop(n) == (Crash(n) \/ Restart(n)) /\ UNCHANGED direction

Next == \/ MCGrows \/ SCGrows \/ UserStep \/ Mining
        \/ \E n \in Notaries : NotaryStep(n) \/ StartStop(n)

transferVars == <<vars, direction>>

Spec == Init /\ [][Next]_transferVars

\* The processes run, the chains grow and mine what they are sent.
FairSpec == /\ Spec
            /\ WF_transferVars(MCGrows) /\ WF_transferVars(SCGrows)
            /\ WF_transferVars(Mining)
            /\ \A n \in Notaries : WF_transferVars(NotaryStep(n))

-----------------------------------------------------------------------------
TypeOK ==
    /\ direction \in {"lockin", "lockout"}
    /\ NotariesTypeOK({"Lockin", "CancelLockin", "PrepareLockin",
                       "Lockout", "CancelLockOut", "PrepareLockout"})

\* No secret was published in the block that set the lock it opens.
NoneHasty == \A h \in Hash : (Inward => ~HastyLockin(h)) /\ (Outward => ~HastyLockout(h))

(* Nobody gets value on both chains, unless hasty: every token in          *)
(* circulation is backed by ether of the main-chain contract               *)
(* (MintedIsBacked), and ether leaves it only for tokens destroyed or      *)
(* still locked to be (ReleasedIsBacked).                                  *)
Backed == NoneHasty => (Inward => MintedIsBacked) /\ (Outward => ReleasedIsBacked)

(* Once every notary has recorded the lock set by the notaries, they agree *)
(* on the one in charge, which may itself not have recorded that yet       *)
(* (NotaryIDInCharge, set after bind.WaitMined).                           *)
InChargeAgreed == (Inward => LockinInChargeAgreed) /\ (Outward => LockoutInChargeAgreed)

(* When every notary has recorded the secret, the claim with it is on its  *)
(* way or mined (onSCLockinSecret, onMCLockoutSecret4Ethereum), unless the *)
(* secret came in the block of the lock.                                   *)
SecretIsActedOn == (Inward => LockinSecretIsActedOn) /\ (Outward => LockoutSecretIsActedOn)

(* A record that IsEnd tells a transfer settled the same way on both       *)
(* chains, whatever the order the last events were handled in.             *)
EndedIsSettled == (Inward => LockinEndedIsSettled) /\ (Outward => LockoutEndedIsSettled)

(* A record that names an outcome tells the truth about the chains, after  *)
(* any crash and restart.                                                  *)
RecordsAreTrue == (Inward => LockinRecordsAreTrue) /\ (Outward => LockoutRecordsAreTrue)

(* What a notary has recorded as the end of a lock stays recorded: a late, *)
(* repeated or redelivered event, an expiry or a restart never takes       *)
(* Unlock or Cancel back, nor a secret (onSCPrepareLockin sets Lock        *)
(* whatever the record says; onMCPrepareLockout4Ethereum checks).          *)
OutcomesStay ==
    [][\A n \in Notaries : \A h \in DOMAIN db[n] : Remembers(db[n][h], db'[n][h])]_vars
=============================================================================
