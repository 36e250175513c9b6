----------------------------- MODULE EscrowLive ------------------------------
(***************************************************************************)
(* Phase C2: scripts/run-v2-escrow-live.ts.  Uploads the bytecode, creates *)
(* the escrow contract, associates the token, registers the tender, funds  *)
(* it and allocates the winner.  A write is recorded in the progress file  *)
(* only after the Mirror Node has shown it and the balances have been      *)
(* checked, so a stop in between leaves it on the ledger unrecorded.       *)
(***************************************************************************)
EXTENDS LiveNetwork

CONSTANTS
  MAX_WRITES,     \* the script's ceiling on successful writes
  Purse           \* how many budgets the shipper holds

ASSUME EscrowLiveConstants ==
  /\ MAX_WRITES \in Nat
  /\ Purse \in Nat

VARIABLES
  epc,            \* where the process is
  eMem,           \* the progress object in memory
  eFile,          \* the progress file
  eHand,          \* position of the submitted write not yet recorded, or 0
  eSummary        \* the contract of the evidence package, or 0

escrowVars == <<epc, eMem, eFile, eHand, eSummary>>

Step(op, chunk) == [op |-> op, chunk |-> chunk]

(* The writes of each step function. *)
stepDeploy ==
  <<Step("file_create", 0)>>
    \o [i \in 1..Appends |-> Step("file_append", i)]
    \o <<Step("contract_create", 0)>>
stepAssociate == <<Step("association", 0)>>
stepRegister == <<Step("registration", 0)>>
stepAllowance == <<Step("allowance", 0)>>
stepFund == <<Step("funding", 0)>>
stepAllocate == <<Step("allocation", 0)>>

(* The writes of the script, in order. *)
EscrowSteps == stepDeploy \o stepAssociate \o stepRegister \o stepAllowance
                 \o stepFund \o stepAllocate

projectDeployWrites == Appends + 2

NoRun == [status |-> "NONE", log |-> <<>>, file |-> 0, contract |-> 0]
NewEscrowRun == [NoRun EXCEPT !.status = "IN_PROGRESS"]

Recorded(log) == {log[i] : i \in 1..Len(log)}

(* The steps the progress does not know, by their place in the script, and *)
(* the first of them: every step function returns at once when its step is *)
(* recorded.                                                               *)
Pending(p) == {i \in 1..Len(EscrowSteps) : EscrowSteps[i] \notin Recorded(p.log)}
NextStep(p) == EscrowSteps[CHOOSE i \in Pending(p) : \A j \in Pending(p) : i <= j]

Fundings(n) == Cardinality({i \in 1..n : ledger[i].op = "funding"})

(* The shipper holds the budget, as the Mirror Node shows the balance. *)
ShipperCanPay == Fundings(shown) < Purse

assertCanWrite(p, count) == Len(p.log) + count <= MAX_WRITES

(* How many writes stepDeploy asks the budget for before it begins. *)
remainingDeployWrites(p) ==
  IF p.file = 0 THEN projectDeployWrites
  ELSE IF Step("file_append", 1) \in Recorded(p.log) THEN 2
  ELSE Appends + 1

(* Mutant: a run that was not finished is begun afresh. *)
EscrowStartAfresh ==
  /\ epc = "idle"
  /\ eSummary = 0
  /\ eFile.status # "SUCCESS"
  /\ ShipperCanPay
  /\ eMem' = NewEscrowRun
  /\ eFile' = eMem'
  /\ epc' = "step"
  /\ UNCHANGED <<eHand, eSummary, networkVars>>

(* main: the guards, then a new run or the recorded one.  The compiled     *)
(* contract is taken to be the same in every run; main would resume with   *)
(* other bytecode too.                                                     *)
EscrowStart ==
  /\ epc = "idle"
  /\ eSummary = 0
  /\ eFile.status # "SUCCESS"
  /\ projectDeployWrites + 5 <= MAX_WRITES
  /\ ShipperCanPay
  /\ eMem' = IF eFile.status = "NONE" THEN NewEscrowRun ELSE eFile
  /\ eFile' = eMem'
  /\ epc' = IF eMem'.contract # 0 \/ assertCanWrite(eMem', remainingDeployWrites(eMem'))
               THEN "step" ELSE "idle"
  /\ UNCHANGED <<eHand, eSummary, networkVars>>

(* A completed run whose evidence was not written: main writes only that. *)
EscrowEvidenceOnly ==
  /\ epc = "idle"
  /\ eSummary = 0
  /\ eFile.status = "SUCCESS"
  /\ eSummary' = eFile.contract
  /\ UNCHANGED <<epc, eMem, eFile, eHand, networkVars>>

(* The object a step calls. *)
Target(p, s) ==
  CASE s.op = "file_create" -> 0
    [] s.op \in {"file_append", "contract_create"} -> p.file
    [] OTHER -> p.contract

submitWithClient ==
  /\ epc = "step"
  /\ eHand = 0
  /\ Pending(eMem) # {}
  /\ assertCanWrite(eMem, 1)
  /\ LET s == NextStep(eMem)
         x == Target(eMem, s)
     IN /\ Accepts(s.op, x)
        /\ Reach(Call(s.op, x, s.chunk))
  /\ eHand' = Len(ledger')
  /\ UNCHANGED <<epc, eMem, eFile, eSummary>>

(* The step is refused: the receipt is not SUCCESS (a contract that has   *)
(* moved on, a file that does not decode) or the budget does not allow it.*)
EscrowRefused ==
  /\ epc = "step"
  /\ eHand = 0
  /\ Pending(eMem) # {}
  /\ LET s == NextStep(eMem)
     IN \/ ~assertCanWrite(eMem, 1)
        \/ ~Accepts(s.op, Target(eMem, s))
        \/ s.op = "contract_create" /\ ~Intact(eMem.file, Len(ledger))
  /\ epc' = "idle"
  /\ eMem' = NoRun
  /\ UNCHANGED <<eFile, eHand, eSummary, networkVars>>

(* The Mirror Node shows the write and the deltas are right: the step is  *)
(* recorded and the progress saved.                                       *)
markStep ==
  /\ epc = "step"
  /\ eHand # 0
  /\ mirrorVerifyTransaction(eHand)
  /\ LET s == NextStep(eMem)
     IN eMem' = [eMem EXCEPT
          !.log = Append(@, s),
          !.file = IF s.op = "file_create" THEN eHand ELSE @,
          !.contract = IF s.op = "contract_create" THEN eHand ELSE @]
  /\ eFile' = eMem'
  /\ eHand' = 0
  /\ UNCHANGED <<epc, eSummary, networkVars>>

EscrowSuccess ==
  /\ epc = "step"
  /\ eHand = 0
  /\ Pending(eMem) = {}
  /\ eMem' = [eMem EXCEPT !.status = "SUCCESS"]
  /\ eFile' = eMem'
  /\ epc' = "evidence"
  /\ UNCHANGED <<eHand, eSummary, networkVars>>

EscrowEvidence ==
  /\ epc = "evidence"
  /\ eSummary' = eMem.contract
  /\ epc' = "idle"
  /\ eMem' = NoRun
  /\ UNCHANGED <<eFile, eHand, networkVars>>

(* A stop tears the progress file only while it is being written. *)
EscrowSaving == epc = "step" /\ (Pending(eMem) = {} \/ eHand \in 1..shown)

EscrowStops(tears) ==
  /\ epc # "idle"
  /\ tears => EscrowSaving
  /\ Halt("escrow", eHand, tears)
  /\ epc' = "idle"
  /\ eMem' = NoRun
  /\ eHand' = 0
  /\ eFile' = IF tears THEN NoRun ELSE eFile
  /\ UNCHANGED eSummary

EscrowInit ==
  /\ epc = "idle"
  /\ eMem = NoRun
  /\ eFile = NoRun
  /\ eHand = 0
  /\ eSummary = 0

EscrowProgress ==
  \/ EscrowStart \/ EscrowEvidenceOnly
  \/ submitWithClient \/ EscrowRefused \/ markStep
  \/ EscrowSuccess \/ EscrowEvidence

EscrowNext == EscrowProgress \/ (\E tears \in BOOLEAN : EscrowStops(tears))
==============================================================================
