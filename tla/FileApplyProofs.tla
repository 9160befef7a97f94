--------------------------- MODULE FileApplyProofs ---------------------------
(***************************************************************************)
(* For any number of edits, interruptions and publications: nothing an     *)
(* application wrote loses its last name, at most one transaction awaits   *)
(* recovery, an interruption alone never closes the folder, and Root::apply *)
(* with Root::recover behaves as VisibleFile says.                         *)
(*                                                                         *)
(* PhaseInv says what the process relies on between two steps: which       *)
(* transaction is in its hands, what it holds, and which of its inodes     *)
(* applications cannot reach.  A file that applications wrote is at the    *)
(* path or was moved aside (NamedInv): the staging links alone never hold  *)
(* one.                                                                    *)
(***************************************************************************)
EXTENDS FileApply, TLAPS

Working == {"record", "write", "move", "check", "publish", "undo", "finish"}

FreshInv ==
    /\ name <= used
    /\ \A i \in mine : i <= used
    /\ \A t \in DOMAIN txn : txn[t].incoming <= used /\ txn[t].previous <= used
    /\ budget.edits <= MaxEdits
    /\ used + budget.edits + budget.applies <= MaxEdits + MaxApplies
    /\ pc = "stage" => used + budget.edits + budget.applies < MaxEdits + MaxApplies

NamedInv == \A i \in mine : i = name \/ \E t \in DOMAIN txn : txn[t].previous = i

TxnInv ==
    \A t \in Unfinished :
        /\ txn[t].after = target
        /\ txn[t].previous # 0 => txn[t].before # Absent

(* The incoming file is out of the applications' reach until it is published. *)
Prepared ==
    IF target = Absent THEN txn[at].incoming = 0
    ELSE /\ txn[at].incoming # 0 /\ txn[at].incoming # name
         /\ bytes[txn[at].incoming] = target

PhaseInv ==
    /\ pc \in {"open", "stage", "record", "clean", "ack", "tidy"} => Unfinished = {}
    /\ pc \in Working \cup {"clean", "relink", "settle", "tidy"} => at \in DOMAIN txn
    /\ pc \in (Working \ {"record"}) \cup {"relink", "settle"} => at \in Unfinished
    /\ pc \in Working => txn[at].before = known /\ txn[at].after = target
    /\ pc = "record" => ~txn[at].done
    /\ pc \in (Working \ {"record", "write"}) \cup {"relink", "settle"} => txn[at].record = "whole"
    /\ pc \in {"record", "write", "move"} => txn[at].previous = 0
    /\ pc \in {"record", "write", "move", "check", "publish"} => Prepared
    /\ pc \in {"check", "undo", "relink"} => txn[at].previous # 0
    /\ pc \in {"check", "publish"} => txn[at].previous = 0 \/ txn[at].previous # name
    /\ pc = "publish" =>
           IF known = Absent THEN txn[at].previous = 0
           ELSE txn[at].previous # 0 /\ bytes[txn[at].previous] = known

QuietInv ==
    Untouched =>
        /\ \A t \in Unfinished : txn[t].record = "whole" => ~Refused(t)
        /\ \A t \in Unfinished : txn[t].previous # 0 => bytes[txn[t].previous] = txn[t].before
        /\ pc \in {"stage", "record", "write", "move"} => Content(name) = known
        /\ pc \in {"check", "publish"} => name = 0
        /\ pc # "undo"

Inv ==
    TypeOK /\ FreshInv /\ NamedInv /\ OneUnfinished /\ TxnInv /\ PhaseInv /\ QuietInv
-----------------------------------------------------------------------------
(* Transactions and files *)

LEMMA TxnParts ==
    ASSUME TypeOK, NEW t \in DOMAIN txn
    PROVE  /\ t \in 1 .. Len(txn)
           /\ txn[t] \in Transaction
           /\ txn[t].incoming \in Inode \cup {0} /\ txn[t].previous \in Inode \cup {0}
           /\ txn[t].record \in {"none", "torn", "whole"} /\ txn[t].done \in BOOLEAN
           /\ txn[t].before \in Image /\ txn[t].after \in Image
           /\ txn[t].done => txn[t].record = "whole"
BY DEF TypeOK, Transaction

(* The transaction at hand is changed, and no other. *)
LEMMA TxnSet ==
    ASSUME TypeOK, at \in DOMAIN txn, NEW r \in Transaction, txn' = [txn EXCEPT ![at] = r]
    PROVE  /\ txn' \in Seq(Transaction)
           /\ DOMAIN txn' = DOMAIN txn /\ Len(txn') = Len(txn)
           /\ txn'[at] = r
           /\ \A t \in DOMAIN txn \ {at} : txn'[t] = txn[t]
BY DEF TypeOK

LEMMA Contents ==
    ASSUME TypeOK
    PROVE  /\ Content(name) \in Image
           /\ Content(name) = Absent <=> name = 0
           /\ \A i \in Inode : Content(i) = bytes[i] /\ bytes[i] \in Bytes /\ bytes[i] # Absent
BY FileAssumption DEF TypeOK, Content, Image, Inode

LEMMA BudgetTyped ==
    ASSUME TypeOK, NEW what \in {"edits", "faults", "applies"}, Spend(what)
    PROVE  /\ budget' \in [{"edits", "faults", "applies"} -> Nat]
           /\ budget[what] > 0 /\ budget'[what] = budget[what] - 1
           /\ \A x \in {"edits", "faults", "applies"} \ {what} : budget'[x] = budget[x]
BY DEF TypeOK, Spend

(* The next inode is new: no name links to it. *)
LEMMA Fresh ==
    ASSUME Inv, budget.edits > 0 \/ pc = "stage"
    PROVE  /\ used + 1 \in Inode /\ used + 1 # name
           /\ \A t \in DOMAIN txn : used + 1 # txn[t].incoming /\ used + 1 # txn[t].previous
<1>1. used \in Nat /\ budget.edits \in Nat /\ budget.applies \in Nat
  BY FileAssumption DEF Inv, TypeOK
<1>2. used + 1 <= MaxEdits + MaxApplies
  BY <1>1, FileAssumption DEF Inv, FreshInv
<1>3. name < used + 1
  BY <1>1, FileAssumption DEF Inv, FreshInv, TypeOK, Inode
<1>4. ASSUME NEW t \in DOMAIN txn
      PROVE  txn[t].incoming < used + 1 /\ txn[t].previous < used + 1
  <2>1. txn[t].incoming \in Nat /\ txn[t].previous \in Nat
    BY TxnParts DEF Inv, Inode
  <2>2. txn[t].incoming <= used /\ txn[t].previous <= used
    BY DEF Inv, FreshInv
  <2>3. QED
    BY <1>1, <2>1, <2>2
<1>5. used + 1 \in Inode /\ used + 1 # name
  <2>1. name \in Nat
    BY DEF Inv, TypeOK, Inode
  <2>2. used + 1 # name
    BY <1>1, <1>3, <2>1
  <2>3. used + 1 \in 1 .. MaxEdits + MaxApplies
    BY <1>1, <1>2, FileAssumption
  <2>4. QED
    BY <2>2, <2>3 DEF Inode
<1>6. ASSUME NEW t \in DOMAIN txn PROVE used + 1 # txn[t].incoming /\ used + 1 # txn[t].previous
  <2>1. txn[t].incoming < used + 1 /\ txn[t].previous < used + 1
    BY <1>4
  <2>2. QED
    BY <1>1, <2>1
<1> QED
  BY <1>5, <1>6
-----------------------------------------------------------------------------
(* Applications *)

LEMMA InitGood == Init => Inv
<1> SUFFICES ASSUME Init PROVE Inv
  OBVIOUS
<1>1. TypeOK
  <2>1. (CHOOSE b \in Bytes : TRUE) \in Bytes
    BY FileAssumption
  <2>2. txn \in Seq(Transaction) /\ Len(txn) = 0
    BY DEF Init
  <2>3. bytes \in [Inode -> Bytes]
    BY <2>1, Zenon DEF Init
  <2>4. mine \in SUBSET Inode /\ budget \in [{"edits", "faults", "applies"} -> Nat]
    BY FileAssumption DEF Init
  <2>5. /\ name \in Inode \cup {0} /\ at \in 0 .. Len(txn)
        /\ used \in 0 .. MaxEdits + MaxApplies
    BY <2>2, FileAssumption DEF Init
  <2>6. pc \in Step /\ target \in Image /\ known \in Image
    BY DEF Init, Step, Image
  <2> QED
    BY <2>2, <2>3, <2>4, <2>5, <2>6 DEF TypeOK
<1>2. Unfinished = {} /\ DOMAIN txn = {}
  BY DEF Init, Unfinished
<1> QED
  BY <1>1, <1>2, FileAssumption
     DEF Init, Inv, FreshInv, NamedInv, OneUnfinished, TxnInv, PhaseInv, QuietInv, Working

(* An application reaches the inode at the path and new ones, and no other. *)
LEMMA ApplicationKeeps ==
    ASSUME Inv, Spend("edits"),
           UNCHANGED <<txn, pc, at, target, known>>,
           bytes' \in [Inode -> Bytes], name' \in Inode \cup {0},
           used' \in 0 .. MaxEdits + MaxApplies, mine' \in SUBSET Inode,
           used' >= used, used' <= used + 1, name' <= used',
           \A i \in mine' : i = name' \/ (i \in mine /\ i # name),
           \A i \in Inode : i <= used /\ i # name => bytes'[i] = bytes[i] /\ i # name'
    PROVE  Inv'
<1> USE DEF Inv
<1>1. TypeOK'
  BY BudgetTyped DEF TypeOK
<1>2. /\ budget'.edits = budget.edits - 1 /\ budget'.applies = budget.applies
      /\ budget.edits \in Nat /\ budget.applies \in Nat
      /\ used \in Nat /\ used' \in Nat
  BY BudgetTyped, FileAssumption DEF TypeOK
<1>3. FreshInv'
  <2>0. Inode \subseteq Nat
    BY FileAssumption DEF Inode
  <2>1. ASSUME NEW i \in mine' PROVE i <= used'
    <3>1. i \in Nat
      BY <2>0
    <3>2. CASE i = name'
      BY <3>2
    <3>3. CASE i \in mine
      <4>1. i <= used
        BY <3>3 DEF FreshInv
      <4> QED
        BY <1>2, <3>1, <4>1
    <3> QED
      BY <3>2, <3>3
  <2>2. ASSUME NEW t \in DOMAIN txn
        PROVE  txn[t].incoming <= used' /\ txn[t].previous <= used'
    <3>1. txn[t].incoming \in Nat /\ txn[t].previous \in Nat
      BY <2>0, TxnParts
    <3>2. txn[t].incoming <= used /\ txn[t].previous <= used
      BY DEF FreshInv
    <3> QED
      BY <1>2, <3>1, <3>2
  <2>3. used' + budget'.edits + budget'.applies <= used + budget.edits + budget.applies
    BY <1>2
  <2>4. /\ budget.edits <= MaxEdits
        /\ used + budget.edits + budget.applies <= MaxEdits + MaxApplies
        /\ pc = "stage" => used + budget.edits + budget.applies < MaxEdits + MaxApplies
    BY DEF FreshInv
  <2>5. /\ budget'.edits <= MaxEdits
        /\ used' + budget'.edits + budget'.applies <= MaxEdits + MaxApplies
        /\ pc = "stage" => used' + budget'.edits + budget'.applies < MaxEdits + MaxApplies
    BY <1>2, <2>3, <2>4, FileAssumption
  <2> QED
    BY <2>1, <2>2, <2>5 DEF FreshInv
<1>4. NamedInv'
  BY DEF NamedInv
<1>5. Unfinished' = Unfinished
  BY DEF Unfinished
<1>6. OneUnfinished' /\ TxnInv'
  BY <1>5 DEF OneUnfinished, TxnInv
<1>7. PhaseInv'
  <2>1. ASSUME pc \in {"record", "write", "move", "check", "publish"} PROVE Prepared'
    <3>1. at \in DOMAIN txn /\ Prepared
      BY <2>1 DEF PhaseInv, Working
    <3>2. txn[at].incoming \in Inode \cup {0} /\ txn[at].incoming <= used
      BY <3>1, TxnParts DEF FreshInv
    <3> QED
      BY <3>1, <3>2 DEF Prepared
  <2>2. ASSUME pc \in {"check", "publish"}, txn[at].previous # 0
        PROVE  bytes'[txn[at].previous] = bytes[txn[at].previous] /\ txn[at].previous # name'
    <3>1. at \in DOMAIN txn /\ txn[at].previous # name
      BY <2>2 DEF PhaseInv, Working
    <3>2. txn[at].previous \in Inode /\ txn[at].previous <= used
      BY <2>2, <3>1, TxnParts DEF FreshInv
    <3> QED
      BY <3>1, <3>2
  <2> QED
    BY <1>5, <2>1, <2>2 DEF PhaseInv
<1>8. QuietInv'
  BY <1>2, FileAssumption DEF QuietInv, Untouched, FreshInv
<1> QED
  BY <1>1, <1>3, <1>4, <1>6, <1>7, <1>8

LEMMA ApplicationGood == Inv /\ Application => Inv'
<1>1. ASSUME Inv, NEW b \in Bytes, Replace(b) PROVE Inv'
  <2>1. budget.edits > 0
    BY <1>1 DEF Replace, Spend
  <2>2. used + 1 \in Inode /\ used \in Nat
    BY <1>1, <2>1, Fresh, FileAssumption DEF Inv, TypeOK
  <2> QED
    BY <1>1, <2>2, ApplicationKeeps, FileAssumption DEF Replace, Inv, TypeOK, Inode
<1>2. ASSUME Inv, NEW b \in Bytes, Rewrite(b) PROVE Inv'
  <2>1. /\ Spend("edits") /\ UNCHANGED <<name, txn, pc, at, target, known, used>>
        /\ name # 0 /\ bytes' = [bytes EXCEPT ![name] = b] /\ mine' = mine \cup {name}
    BY <1>2 DEF Rewrite
  <2>2. /\ bytes \in [Inode -> Bytes] /\ name \in Inode /\ mine \in SUBSET Inode
        /\ used \in 0 .. MaxEdits + MaxApplies /\ used \in Nat /\ name <= used
    BY <1>2, <2>1, FileAssumption DEF Inv, TypeOK, FreshInv
  <2>3. bytes' \in [Inode -> Bytes] /\ name' \in Inode \cup {0} /\ mine' \in SUBSET Inode
    BY <2>1, <2>2
  <2>4. used' >= used /\ used' <= used + 1 /\ name' <= used'
    BY <2>1, <2>2
  <2>5. /\ \A i \in mine' : i = name' \/ (i \in mine /\ i # name)
        /\ \A i \in Inode : i <= used /\ i # name => bytes'[i] = bytes[i] /\ i # name'
    BY <2>1, <2>2
  <2> QED
    BY <1>2, <2>1, <2>2, <2>3, <2>4, <2>5, ApplicationKeeps
<1>3. ASSUME Inv, Remove PROVE Inv'
  <2>1. /\ Spend("edits") /\ UNCHANGED <<bytes, txn, pc, at, target, known, used>>
        /\ name' = 0 /\ mine' = mine \ {name}
    BY <1>3 DEF Remove
  <2>2. /\ bytes \in [Inode -> Bytes] /\ mine \in SUBSET Inode
        /\ used \in 0 .. MaxEdits + MaxApplies /\ used \in Nat /\ 0 \notin Inode
    BY <1>3, FileAssumption DEF Inv, TypeOK, Inode
  <2>3. used' >= used /\ used' <= used + 1 /\ name' <= used'
    BY <2>1, <2>2
  <2>4. /\ \A i \in mine' : i = name' \/ (i \in mine /\ i # name)
        /\ \A i \in Inode : i <= used /\ i # name => bytes'[i] = bytes[i] /\ i # name'
    BY <2>1, <2>2
  <2> QED
    BY <1>3, <2>1, <2>2, <2>3, <2>4, ApplicationKeeps
<1> QED
  BY <1>1, <1>2, <1>3 DEF Application
-----------------------------------------------------------------------------
(* Steps that leave the files and the transactions alone *)

LEMMA FilesAlone ==
    ASSUME Inv, UNCHANGED <<bytes, name, txn, used, mine>>
    PROVE  /\ NamedInv' /\ OneUnfinished' /\ Unfinished' = Unfinished
           /\ Content(name)' = Content(name)
           /\ \A t \in Unfinished : Refused(t)' <=> Refused(t)
<1> USE DEF Inv
<1>1. Unfinished' = Unfinished /\ Content(name)' = Content(name)
  BY DEF Unfinished, Content
<1>2. \A t \in Unfinished : Refused(t)' <=> Refused(t)
  BY <1>1 DEF Refused, Readable, Settled, Returnable
<1> QED
  BY <1>1, <1>2 DEF NamedInv, OneUnfinished

LEMMA AgreeGood == ASSUME Inv, NEW goal \in Image, Agree(goal) PROVE Inv'
<1> USE DEF Inv, Agree
<1>1. TypeOK' /\ FreshInv'
  BY DEF TypeOK, FreshInv
<1>2. Unfinished = {} /\ Unfinished' = {}
  BY FilesAlone DEF PhaseInv
<1>3. TxnInv' /\ PhaseInv' /\ QuietInv'
  BY <1>2 DEF TxnInv, PhaseInv, QuietInv, Untouched, Working
<1> QED
  BY <1>1, <1>3, FilesAlone

LEMMA BeginGood == ASSUME Inv, NEW goal \in Image, Begin(goal) PROVE Inv'
<1> USE DEF Inv, Begin
<1>1. TypeOK'
  BY BudgetTyped DEF TypeOK, Go, Step
<1>2. FreshInv'
  <2>1. /\ budget'.applies = budget.applies - 1 /\ budget'.edits = budget.edits
        /\ budget.applies \in Nat /\ budget.edits \in Nat /\ used \in Nat
    BY BudgetTyped, FileAssumption DEF TypeOK
  <2> QED
    BY <2>1, FileAssumption DEF FreshInv
<1>3. Unfinished = {} /\ Unfinished' = {}
  BY FilesAlone DEF PhaseInv
<1>4. TxnInv' /\ PhaseInv'
  BY <1>3 DEF TxnInv, PhaseInv, Working, Go
<1>5. QuietInv'
  BY <1>3, FilesAlone DEF QuietInv, Go, MayReplace
<1> QED
  BY <1>1, <1>2, <1>4, <1>5, FilesAlone

LEMMA CheckGood == ASSUME Inv, Check PROVE Inv'
<1> USE DEF Inv, Check
<1>1. TypeOK' /\ FreshInv'
  BY DEF TypeOK, FreshInv, Go, Step
<1>2. at \in Unfinished /\ Unfinished' = Unfinished
  BY FilesAlone DEF PhaseInv, Working
<1>3. TxnInv'
  BY <1>2 DEF TxnInv
<1>4. PhaseInv'
  <2>1. pc' \in {"publish", "undo"}
    BY DEF Go
  <2>2. txn[at].before # Absent /\ txn[at].before = known
    BY <1>2 DEF TxnInv, PhaseInv, Working
  <2>3. pc' = "publish" => bytes[txn[at].previous] = known
    BY DEF Go, AsExpected
  <2> QED
    BY <1>2, <2>1, <2>2, <2>3 DEF PhaseInv, Working, Prepared
<1>5. QuietInv'
  <2>1. Untouched => AsExpected
    BY <1>2 DEF QuietInv, AsExpected, PhaseInv, Working
  <2> QED
    BY <1>2, <2>1, FilesAlone DEF QuietInv, Untouched, Go
<1> QED
  BY <1>1, <1>3, <1>4, <1>5, FilesAlone

LEMMA AcknowledgeGood == ASSUME Inv, Acknowledge PROVE Inv'
<1> USE DEF Inv, Acknowledge
<1>1. TypeOK' /\ FreshInv'
  BY DEF TypeOK, FreshInv, Go, Step
<1>2. Unfinished = {} /\ Unfinished' = {}
  BY FilesAlone DEF PhaseInv
<1>3. TxnInv' /\ PhaseInv' /\ QuietInv'
  BY <1>2 DEF TxnInv, PhaseInv, QuietInv, Untouched, Working, Go
<1> QED
  BY <1>1, <1>3, FilesAlone

(* The folder is closed or waits for recovery: nothing is relied upon. *)
LEMMA LetGo ==
    ASSUME Inv, pc' \in {"closed", "recover"}, budget'.edits = budget.edits,
           budget' \in [{"edits", "faults", "applies"} -> Nat],
           budget'.applies = budget.applies,
           UNCHANGED <<bytes, name, txn, at, target, known, used, mine>>
    PROVE  Inv'
<1> USE DEF Inv
<1>1. TypeOK' /\ FreshInv'
  BY DEF TypeOK, FreshInv, Step
<1>2. TxnInv' /\ PhaseInv'
  BY FilesAlone DEF TxnInv, PhaseInv, Working
<1>3. QuietInv'
  BY FilesAlone DEF QuietInv, Untouched
<1> QED
  BY <1>1, <1>2, <1>3, FilesAlone

LEMMA LettingGo == Inv /\ (Interrupt \/ Open \/ Close) => Inv'
<1>1. ASSUME Inv, Interrupt PROVE Inv'
  BY <1>1, LetGo, BudgetTyped DEF Interrupt, Go, Inv
<1>2. ASSUME Inv, Open \/ Close PROVE Inv'
  BY <1>2, LetGo DEF Open, Close, Go, Inv, TypeOK
<1> QED
  BY <1>1, <1>2

LEMMA RecoverOneGood == ASSUME Inv, NEW t \in Unfinished, RecoverOne(t) PROVE Inv'
<1> USE DEF Inv, RecoverOne
<1>1. t \in DOMAIN txn /\ Unfinished' = Unfinished /\ at' \in Unfinished' /\ at' \in DOMAIN txn'
  BY FilesAlone DEF Unfinished
<1>2. TypeOK' /\ FreshInv'
  BY <1>1, TxnParts DEF TypeOK, FreshInv, Go, Step
<1>3. TxnInv'
  BY <1>1 DEF TxnInv
<1>4. PhaseInv'
  <2>1. pc' \in {"settle", "relink", "closed"}
    BY DEF Go
  <2>2. pc' # "closed" => txn[t].record = "whole"
    BY DEF Go, Readable
  <2>3. pc' = "relink" => txn[t].previous # 0
    BY DEF Go, Returnable
  <2> QED
    BY <1>1, <2>1, <2>2, <2>3 DEF PhaseInv, Working
<1>5. QuietInv'
  BY <1>1, FilesAlone DEF QuietInv, Untouched, Go
<1> QED
  BY <1>2, <1>3, <1>4, <1>5, FilesAlone

LEMMA RecoveredGood == ASSUME Inv, Recovered PROVE Inv'
<1> USE DEF Inv, Recovered
<1>1. TypeOK' /\ FreshInv'
  BY Contents DEF TypeOK, FreshInv, Go, Step
<1>2. TxnInv' /\ PhaseInv' /\ QuietInv'
  BY FilesAlone DEF TxnInv, PhaseInv, QuietInv, Untouched, Working, Go
<1> QED
  BY <1>1, <1>2, FilesAlone
-----------------------------------------------------------------------------
(* Steps that write the transaction at hand *)

LEMMA StageGood == ASSUME Inv, Stage PROVE Inv'
<1> USE DEF Inv
<1> DEFINE file == target # Absent
           new == [incoming |-> IF file THEN used + 1 ELSE 0, previous |-> 0,
                   record |-> "none", before |-> known, after |-> target, done |-> FALSE]
<1>1. pc = "stage" /\ pc' = "record" /\ Unfinished = {}
  BY DEF Stage, Go, PhaseInv
<1>2. /\ used + 1 \in Inode /\ used + 1 # name /\ used \in Nat /\ used + 1 # 0
      /\ \A t \in DOMAIN txn : used + 1 # txn[t].incoming /\ used + 1 # txn[t].previous
  BY <1>1, Fresh, FileAssumption DEF TypeOK
<1>3. new \in Transaction
  BY <1>2 DEF TypeOK, Transaction
<1>4. /\ txn' = Append(txn, new) /\ at' = Len(txn) + 1
      /\ bytes' = IF file THEN [bytes EXCEPT ![used + 1] = target] ELSE bytes
      /\ used' = IF file THEN used + 1 ELSE used
      /\ UNCHANGED <<name, target, known, mine, budget>>
  BY DEF Stage
<1>5. /\ txn' \in Seq(Transaction) /\ Len(txn') = Len(txn) + 1
      /\ DOMAIN txn' = DOMAIN txn \cup {at'} /\ at' \notin DOMAIN txn
      /\ txn'[at'] = new /\ \A t \in DOMAIN txn : txn'[t] = txn[t]
  BY <1>3, <1>4 DEF TypeOK
<1>6. \A i \in Inode \cup {0} : i # used + 1 => Content(i)' = Content(i)
  BY <1>2, <1>4 DEF TypeOK, Content
<1>7. TypeOK'
  <2>1. bytes' \in [Inode -> Bytes]
    BY <1>4 DEF TypeOK, Image
  <2>2. used' \in 0 .. MaxEdits + MaxApplies
    BY <1>2, <1>4, FileAssumption DEF TypeOK, Inode
  <2> QED
    BY <1>1, <1>4, <1>5, <2>1, <2>2 DEF TypeOK, Step
<1>8. FreshInv'
  <2>0. used' \in Nat /\ used <= used' /\ used' <= used + 1
    BY <1>2, <1>4
  <2>1. name' <= used' /\ \A i \in mine' : i <= used'
    BY <1>2, <1>4, <2>0, FileAssumption DEF FreshInv, TypeOK, Inode
  <2>2. \A t \in DOMAIN txn : txn[t].incoming <= used' /\ txn[t].previous <= used'
    BY <1>2, <2>0, TxnParts, FileAssumption DEF FreshInv, Inode
  <2>3. new.incoming <= used' /\ new.previous <= used'
    BY <1>2, <1>4
  <2>4. \A t \in DOMAIN txn' : txn'[t].incoming <= used' /\ txn'[t].previous <= used'
    BY <1>5, <2>2, <2>3
  <2>5. budget.edits \in Nat /\ budget.applies \in Nat
    BY DEF TypeOK
  <2>6. used + budget.edits + budget.applies < MaxEdits + MaxApplies /\ budget.edits <= MaxEdits
    BY <1>1 DEF FreshInv
  <2>7. used + 1 + budget.edits + budget.applies <= MaxEdits + MaxApplies
    BY <1>2, <2>5, <2>6, FileAssumption
  <2>8. budget' = budget /\ (used' = used \/ used' = used + 1)
    BY <1>4
  <2>9. /\ budget'.edits <= MaxEdits
        /\ used' + budget'.edits + budget'.applies <= MaxEdits + MaxApplies
    BY <1>2, <2>5, <2>6, <2>7, <2>8, FileAssumption
  <2> QED
    BY <1>1, <2>1, <2>4, <2>9 DEF FreshInv
<1>9. NamedInv'
  BY <1>4, <1>5 DEF NamedInv
<1>10. Unfinished' = {}
  BY <1>1, <1>5 DEF Unfinished
<1>11. OneUnfinished' /\ TxnInv'
  BY <1>10 DEF OneUnfinished, TxnInv
<1>12. PhaseInv'
  <2>1. Prepared'
    BY <1>2, <1>4, <1>5 DEF Prepared, TypeOK
  <2> QED
    BY <1>1, <1>4, <1>5, <1>10, <2>1 DEF PhaseInv, Working
<1>13. QuietInv'
  <2>1. Content(name)' = Content(name)
    BY <1>2, <1>4, <1>6 DEF TypeOK, Content
  <2> QED
    BY <1>1, <1>4, <1>10, <2>1 DEF QuietInv, Untouched
<1> QED
  BY <1>7, <1>8, <1>9, <1>11, <1>12, <1>13

(* The transaction at hand after a step: the others are as they were. *)
LEMMA OthersUnfinished ==
    ASSUME TypeOK, at \in DOMAIN txn, NEW r \in Transaction, txn' = [txn EXCEPT ![at] = r]
    PROVE  Unfinished' = (Unfinished \ {at}) \cup
                             (IF ~r.done /\ r.record # "none" THEN {at} ELSE {})
BY TxnSet DEF Unfinished

LEMMA RecordGood == Inv /\ (CreateRecord \/ WriteRecord) => Inv'
<1> SUFFICES ASSUME Inv, CreateRecord \/ WriteRecord PROVE Inv'
  OBVIOUS
<1> USE DEF Inv
<1> DEFINE r == [txn[at] EXCEPT !.record = IF pc = "record" THEN "torn" ELSE "whole"]
<1>1. /\ pc \in {"record", "write"} /\ pc' = IF pc = "record" THEN "write" ELSE "move"
      /\ txn' = [txn EXCEPT ![at] = r]
      /\ UNCHANGED <<bytes, name, at, target, known, used, mine, budget>>
  BY DEF CreateRecord, WriteRecord, Go
<1>2. at \in DOMAIN txn
  BY <1>1 DEF PhaseInv, Working
<1>3. /\ ~txn[at].done /\ txn[at].previous = 0
      /\ txn[at].before = known /\ txn[at].after = target
  BY <1>1 DEF PhaseInv, Working, Unfinished
<1>4. r \in Transaction /\ ~r.done /\ r.record # "none"
  BY <1>2, <1>3, TxnParts DEF Transaction
<1>5. /\ r.before = known /\ r.after = target /\ r.previous = 0
      /\ r.incoming = txn[at].incoming
      /\ pc = "write" => r.record = "whole"
  BY <1>2, <1>3, TxnParts DEF Transaction
<1>6. /\ txn' \in Seq(Transaction) /\ DOMAIN txn' = DOMAIN txn /\ Len(txn') = Len(txn)
      /\ txn'[at] = r /\ \A t \in DOMAIN txn \ {at} : txn'[t] = txn[t]
  BY <1>1, <1>2, <1>4, TxnSet
<1>7. Unfinished \subseteq {at}
  BY <1>1 DEF PhaseInv, OneUnfinished, Working
<1>8. Unfinished' = {at}
  <2>1. Unfinished' = (Unfinished \ {at}) \cup (IF ~r.done /\ r.record # "none" THEN {at} ELSE {})
    BY <1>1, <1>2, <1>4, OthersUnfinished
  <2> QED
    BY <1>4, <1>7, <2>1
<1>9. TypeOK' /\ FreshInv'
  BY <1>1, <1>5, <1>6, <1>3 DEF TypeOK, FreshInv, Step
<1>10. NamedInv'
  BY <1>1, <1>3, <1>5, <1>6 DEF NamedInv
<1>11. OneUnfinished' /\ TxnInv'
  BY <1>1, <1>5, <1>6, <1>8 DEF OneUnfinished, TxnInv
<1>12. PhaseInv'
  <2>1. Prepared /\ Prepared'
    BY <1>1, <1>5, <1>6 DEF PhaseInv, Prepared
  <2> QED
    BY <1>1, <1>2, <1>4, <1>5, <1>6, <1>8, <2>1 DEF PhaseInv, Working
<1>13. QuietInv'
  <2>1. Content(name)' = Content(name)
    BY <1>1 DEF Content
  <2>2. Untouched => Content(name) = known
    BY <1>1 DEF QuietInv
  <2>3. Untouched' => Untouched
    BY <1>1 DEF Untouched
  <2> QED
    BY <1>1, <1>5, <1>6, <1>8, <2>1, <2>2, <2>3 DEF QuietInv, Refused, Readable, Settled
<1> QED
  BY <1>9, <1>10, <1>11, <1>12, <1>13

LEMMA MoveAsideGood == Inv /\ MoveAside => Inv'
<1> SUFFICES ASSUME Inv, MoveAside PROVE Inv'
  OBVIOUS
<1> USE DEF Inv
<1>1. /\ pc = "move" /\ UNCHANGED <<bytes, at, target, known, used, mine, budget>>
      /\ at \in DOMAIN txn /\ at \in Unfinished /\ Unfinished = {at}
      /\ txn[at].before = known /\ txn[at].after = target
      /\ txn[at].record = "whole" /\ txn[at].previous = 0 /\ Prepared
  BY DEF MoveAside, PhaseInv, OneUnfinished, Working
<1>2. CASE known # Absent /\ name = 0
  BY <1>1, <1>2, LetGo DEF MoveAside, Go, TypeOK
<1>3. CASE known = Absent
  <2>1. pc' = "publish" /\ UNCHANGED <<txn, name>>
    BY <1>3 DEF MoveAside, Go
  <2>2. TypeOK' /\ FreshInv'
    BY <1>1, <2>1 DEF TypeOK, FreshInv, Step
  <2>3. Unfinished' = Unfinished
    BY <1>1, <2>1, FilesAlone
  <2>4. TxnInv' /\ PhaseInv'
    BY <1>1, <1>3, <2>1, <2>3 DEF TxnInv, PhaseInv, Prepared, Working
  <2>5. QuietInv'
    <3>1. Untouched' => Untouched /\ name = 0
      BY <1>1, <1>3, Contents DEF QuietInv, Untouched
    <3> QED
      BY <1>1, <2>1, <2>3, <3>1, FilesAlone DEF QuietInv
  <2> QED
    BY <1>1, <2>1, <2>2, <2>4, <2>5, FilesAlone
<1>4. CASE known # Absent /\ name # 0
  <2> DEFINE r == [txn[at] EXCEPT !.previous = name]
  <2>1. pc' = "check" /\ txn' = [txn EXCEPT ![at] = r] /\ name' = 0
    BY <1>4 DEF MoveAside, Go
  <2>2. r \in Transaction /\ ~r.done
    BY <1>1, TxnParts DEF Transaction, TypeOK, Unfinished
  <2>3. /\ r.before = known /\ r.after = target /\ r.record = "whole"
        /\ r.incoming = txn[at].incoming /\ r.previous = name
    BY <1>1, TxnParts DEF Transaction
  <2>4. /\ txn' \in Seq(Transaction) /\ DOMAIN txn' = DOMAIN txn /\ Len(txn') = Len(txn)
        /\ txn'[at] = r /\ \A t \in DOMAIN txn \ {at} : txn'[t] = txn[t]
    BY <1>1, <2>1, <2>2, TxnSet
  <2>5. Unfinished' = {at}
    <3>1. Unfinished' = (Unfinished \ {at}) \cup (IF ~r.done /\ r.record # "none" THEN {at} ELSE {})
      BY <1>1, <2>1, <2>2, OthersUnfinished
    <3> QED
      BY <1>1, <2>2, <2>3, <3>1
  <2>6. TypeOK' /\ FreshInv'
    <3>1. 0 <= used
      BY FileAssumption DEF TypeOK
    <3> QED
      BY <1>1, <2>1, <2>3, <2>4, <3>1 DEF TypeOK, FreshInv, Step
  <2>7. NamedInv'
    BY <1>1, <2>1, <2>3, <2>4 DEF NamedInv
  <2>8. OneUnfinished' /\ TxnInv'
    BY <1>1, <1>4, <2>3, <2>4, <2>5 DEF OneUnfinished, TxnInv
  <2>9. PhaseInv'
    <3>1. Prepared'
      BY <1>1, <2>1, <2>3, <2>4 DEF Prepared
    <3> QED
      BY <1>1, <1>4, <2>1, <2>3, <2>4, <2>5, <3>1 DEF PhaseInv, Working
  <2>10. QuietInv'
    <3>1. Untouched' => bytes[name] = known
      BY <1>1, <1>4 DEF QuietInv, Untouched, Content
    <3>2. ~Refused(at)'
      BY <1>1, <1>4, <2>1, <2>3, <2>4 DEF Refused, Readable, Settled, Returnable
    <3> QED
      BY <1>1, <2>1, <2>3, <2>4, <2>5, <3>1, <3>2 DEF QuietInv
  <2> QED
    BY <2>6, <2>7, <2>8, <2>9, <2>10
<1> QED
  BY <1>2, <1>3, <1>4

(* A link is made at the path, unless something is there. *)
LEMMA LinkKeeps ==
    ASSUME Inv, at \in DOMAIN txn,
           name' \in {Linked(name, txn[at].incoming), Linked(name, txn[at].previous)},
           UNCHANGED <<bytes, txn, at, target, known, used, mine, budget>>,
           pc' \in Step \ {"stage"}
    PROVE  /\ TypeOK' /\ FreshInv' /\ NamedInv' /\ OneUnfinished' /\ TxnInv'
           /\ Unfinished' = Unfinished
<1> USE DEF Inv
<1>1. /\ name' \in Inode \cup {0} /\ name' <= used
      /\ name # 0 => name' = name
  BY TxnParts DEF Linked, TypeOK, FreshInv
<1>2. TypeOK' /\ FreshInv'
  BY <1>1 DEF TypeOK, FreshInv
<1>3. Unfinished' = Unfinished
  BY DEF Unfinished
<1>4. NamedInv'
  BY <1>1, FileAssumption DEF NamedInv, TypeOK, Inode
<1> QED
  BY <1>2, <1>3, <1>4 DEF OneUnfinished, TxnInv

LEMMA PublishGood == Inv /\ Publish => Inv'
<1> SUFFICES ASSUME Inv, Publish PROVE Inv'
  OBVIOUS
<1> USE DEF Inv
<1>1. /\ pc = "publish" /\ UNCHANGED <<bytes, txn, at, target, known, used, mine, budget>>
      /\ name' = Linked(name, txn[at].incoming)
      /\ at \in DOMAIN txn /\ at \in Unfinished /\ Unfinished = {at}
      /\ txn[at].before = known /\ txn[at].after = target
      /\ txn[at].record = "whole" /\ Prepared
      /\ known # Absent => txn[at].previous # 0
  BY DEF Publish, PhaseInv, OneUnfinished, Working
<1>2. pc' = IF name' = txn[at].incoming THEN "finish"
            ELSE IF target # Absent /\ known # Absent THEN "undo" ELSE "closed"
  BY DEF Publish, Go
<1>3. /\ TypeOK' /\ FreshInv' /\ NamedInv' /\ OneUnfinished' /\ TxnInv'
      /\ Unfinished' = Unfinished
  BY <1>1, <1>2, LinkKeeps DEF Step
<1>4. PhaseInv'
  BY <1>1, <1>2, <1>3 DEF PhaseInv, Working
<1>5. QuietInv'
  <2> SUFFICES ASSUME Untouched' PROVE QuietInv'
    BY DEF QuietInv
  <2>1. name = 0
    BY <1>1 DEF QuietInv, Untouched
  <2>2. name' = txn[at].incoming /\ pc' = "finish"
    BY <1>1, <1>2, <2>1 DEF Linked
  <2>3. Content(name)' = target
    BY <1>1, <2>2 DEF Prepared, Content
  <2>4. ~Refused(at)'
    BY <1>1, <2>3 DEF Refused, Readable, Settled
  <2> QED
    BY <1>1, <1>3, <2>2, <2>4 DEF QuietInv, Untouched
<1> QED
  BY <1>3, <1>4, <1>5

LEMMA UndoGood == Inv /\ Undo => Inv'
<1> SUFFICES ASSUME Inv, Undo PROVE Inv'
  OBVIOUS
<1> USE DEF Inv
<1>1. /\ pc = "undo" /\ pc' = "closed" /\ at \in DOMAIN txn
      /\ UNCHANGED <<bytes, txn, at, target, known, used, mine, budget>>
      /\ name' = Linked(name, txn[at].previous)
  BY DEF Undo, Go, PhaseInv, Working
<1>2. /\ TypeOK' /\ FreshInv' /\ NamedInv' /\ OneUnfinished' /\ TxnInv'
  BY <1>1, LinkKeeps DEF Step
<1>3. PhaseInv' /\ QuietInv'
  BY <1>1 DEF PhaseInv, QuietInv, Untouched, Working
<1> QED
  BY <1>2, <1>3

LEMMA RelinkGood == Inv /\ Relink => Inv'
<1> SUFFICES ASSUME Inv, Relink PROVE Inv'
  OBVIOUS
<1> USE DEF Inv
<1>1. /\ pc = "relink" /\ pc' = IF name = 0 THEN "settle" ELSE "closed"
      /\ at \in DOMAIN txn /\ at \in Unfinished /\ Unfinished = {at}
      /\ txn[at].record = "whole" /\ txn[at].previous # 0
      /\ UNCHANGED <<bytes, txn, at, target, known, used, mine, budget>>
      /\ name' = Linked(name, txn[at].previous)
  BY DEF Relink, Go, PhaseInv, OneUnfinished, Working
<1>2. /\ TypeOK' /\ FreshInv' /\ NamedInv' /\ OneUnfinished' /\ TxnInv'
      /\ Unfinished' = Unfinished
  BY <1>1, LinkKeeps DEF Step
<1>3. PhaseInv'
  BY <1>1, <1>2 DEF PhaseInv, Working
<1>4. QuietInv'
  <2> SUFFICES ASSUME Untouched' PROVE QuietInv'
    BY DEF QuietInv
  <2>1. bytes[txn[at].previous] = txn[at].before /\ ~Refused(at)
    BY <1>1 DEF QuietInv, Untouched
  <2>2. ~Refused(at)'
    BY <1>1, <2>1 DEF Refused, Readable, Settled, Returnable, Content, Linked
  <2> QED
    BY <1>1, <1>2, <2>1, <2>2 DEF QuietInv, Untouched
<1> QED
  BY <1>2, <1>3, <1>4

LEMMA FinishGood == Inv /\ (MarkDone \/ Unstage) => Inv'
<1> SUFFICES ASSUME Inv, MarkDone \/ Unstage PROVE Inv'
  OBVIOUS
<1> USE DEF Inv
<1> DEFINE r == IF pc \in {"finish", "settle"} THEN [txn[at] EXCEPT !.done = TRUE]
                ELSE [txn[at] EXCEPT !.incoming = 0]
<1>1. /\ pc \in {"finish", "settle", "clean", "tidy"}
      /\ pc' \in {"clean", "tidy", "ack", "recover"}
      /\ pc' \in {"clean", "tidy"} <=> pc \in {"finish", "settle"}
      /\ txn' = [txn EXCEPT ![at] = r]
      /\ UNCHANGED <<bytes, name, at, target, known, used, mine, budget>>
  BY DEF MarkDone, Unstage, Go
<1>2. at \in DOMAIN txn /\ Unfinished \subseteq {at}
  BY <1>1 DEF PhaseInv, OneUnfinished, Working
<1>3. r \in Transaction
  BY <1>1, <1>2, TxnParts, FileAssumption DEF PhaseInv, Working, Transaction
<1>4. /\ txn' \in Seq(Transaction) /\ DOMAIN txn' = DOMAIN txn /\ Len(txn') = Len(txn)
      /\ txn'[at] = r /\ \A t \in DOMAIN txn \ {at} : txn'[t] = txn[t]
  BY <1>1, <1>2, <1>3, TxnSet
<1>5. Unfinished' = {}
  <2>1. ~r.done /\ r.record # "none" => at \in Unfinished /\ pc \in {"clean", "tidy"}
    BY <1>1, <1>2, TxnParts DEF Transaction, Unfinished
  <2>2. Unfinished' = (Unfinished \ {at}) \cup (IF ~r.done /\ r.record # "none" THEN {at} ELSE {})
    BY <1>1, <1>2, <1>3, OthersUnfinished
  <2> QED
    BY <1>2, <2>1, <2>2 DEF PhaseInv
<1>6. r.previous = txn[at].previous /\ r.incoming \in {0, txn[at].incoming}
  BY <1>1, <1>2, TxnParts DEF Transaction
<1>7. TypeOK' /\ FreshInv'
  <2>1. 0 <= used
    BY FileAssumption DEF TypeOK
  <2> QED
    BY <1>1, <1>4, <1>6, <2>1 DEF TypeOK, FreshInv, Step
<1>8. NamedInv'
  BY <1>1, <1>4, <1>6 DEF NamedInv
<1>9. OneUnfinished' /\ TxnInv' /\ PhaseInv' /\ QuietInv'
  BY <1>1, <1>2, <1>4, <1>5 DEF OneUnfinished, TxnInv, PhaseInv, QuietInv, Working
<1> QED
  BY <1>7, <1>8, <1>9
-----------------------------------------------------------------------------
(* The theorems *)

LEMMA NextGood == Inv /\ [Next]_vars => Inv'
<1>1. ASSUME Inv, Apply PROVE Inv'
  BY <1>1, AgreeGood, BeginGood, StageGood, RecordGood, MoveAsideGood, CheckGood,
     PublishGood, UndoGood, FinishGood, AcknowledgeGood DEF Apply
<1>2. ASSUME Inv, Recover PROVE Inv'
  BY <1>2, LettingGo, RelinkGood, RecoveredGood, RecoverOneGood DEF Recover
<1>3. ASSUME Inv, UNCHANGED vars PROVE Inv'
  BY <1>3 DEF vars, Inv, TypeOK, FreshInv, NamedInv, OneUnfinished, TxnInv, PhaseInv,
       QuietInv, Unfinished, Prepared, Untouched, Refused, Readable, Settled, Returnable,
       Content
<1> QED
  BY <1>1, <1>2, <1>3, ApplicationGood, LettingGo DEF Next

(* Root::apply and Root::recover keep what they rely on between their steps. *)
THEOREM InvHolds == Spec => []Inv
BY InitGood, NextGood, PTL DEF Spec

(* The variables keep their types for any number of edits, stops and
   publications; only a transaction whose record was written is marked done
   (finish_record, root.rs). *)
THEOREM TypeCorrect == Spec => []TypeOK
<1>1. Inv => TypeOK
  BY DEF Inv
<1> QED
  BY <1>1, InvHolds, PTL

(* What applications wrote, and did not remove themselves, keeps a name: apply
   moves a displaced file aside and links, never renames, over the path. *)
THEOREM NothingLosesItsName == Spec => []NothingUnlinked
<1>1. Inv => NothingUnlinked
  BY DEF Inv, NamedInv, NothingUnlinked
<1> QED
  BY <1>1, InvHolds, PTL

(* At most one transaction awaits recovery: apply begins only in a folder whose
   transactions Root::recover has finished. *)
THEOREM OneAwaits == Spec => []OneUnfinished
<1>1. Inv => OneUnfinished
  BY DEF Inv
<1> QED
  BY <1>1, InvHolds, PTL

(* While no application touches the folder, Root::recover refuses no
   transaction whose record was written. *)
THEOREM InterruptionsRecover == Spec => []InterruptionRecovers
<1>1. Inv => InterruptionRecovers
  BY DEF Inv, QuietInv, InterruptionRecovers
<1> QED
  BY <1>1, InvHolds, PTL
-----------------------------------------------------------------------------
(* The path as its users see it *)

Shipped == pc \in {"finish", "clean", "ack"}

(* What is moved aside is still shown, until its transaction is settled. *)
ShownGood ==
    /\ name # 0 \/ pc \in {"finish", "settle"} \/ Displaced = {} => Shown = Content(name)
    /\ \A t \in Displaced :
           /\ Displaced = {t}
           /\ name = 0 /\ pc \notin {"finish", "settle"} => Shown = bytes[txn[t].previous]
    /\ \A t \in Displaced : bytes[txn[t].previous] \in Bytes
    /\ Shown \in Image

LEMMA ShownIs == Inv => ShownGood
<1> SUFFICES ASSUME Inv PROVE ShownGood
  OBVIOUS
<1> USE DEF Inv
<1>1. name # 0 \/ pc \in {"finish", "settle"} \/ Displaced = {} => Shown = Content(name)
  BY DEF Shown
<1>2. ASSUME NEW t \in Displaced
      PROVE  /\ Displaced = {t}
             /\ name = 0 /\ pc \notin {"finish", "settle"} => Shown = bytes[txn[t].previous]
  <2>1. Displaced = {t}
    BY DEF Displaced, OneUnfinished
  <2>2. (CHOOSE u \in Displaced : TRUE) = t
    BY <2>1
  <2> QED
    BY <2>1, <2>2 DEF Shown
<1>3. ASSUME NEW t \in Displaced PROVE bytes[txn[t].previous] \in Bytes
  <2>1. txn[t].previous \in Inode
    BY TxnParts DEF Displaced, Unfinished
  <2> QED
    BY <2>1, Contents
<1>4. Shown \in Image
  <2>1. CASE name # 0 \/ pc \in {"finish", "settle"} \/ Displaced = {}
    BY <1>1, <2>1, Contents
  <2>2. CASE ~(name # 0 \/ pc \in {"finish", "settle"} \/ Displaced = {})
    BY <1>2, <1>3, <2>2 DEF Image
  <2> QED
    BY <2>1, <2>2
<1> QED
  BY <1>1, <1>2, <1>3, <1>4 DEF ShownGood

LEMMA ShownNext == Inv' => ShownGood'
BY ShownIs, PTL

LEMMA InitMaps == Init => Visible!Init
<1> SUFFICES ASSUME Init PROVE Visible!Init
  OBVIOUS
<1>1. Displaced = {}
  BY DEF Init, Displaced, Unfinished
<1>2. Shown = Absent
  BY <1>1 DEF Init, Shown, Content
<1> QED
  BY <1>2, FileAssumption DEF Init, Visible!Init

(* A step that users and the index do not see. *)
LEMMA Unseen ==
    ASSUME Shown' = Shown, Shipped' = Shipped, UNCHANGED <<target, known, budget>>
    PROVE  UNCHANGED Visible!vars
BY DEF Visible!vars, Shipped

LEMMA ApplicationMaps == Inv /\ Inv' /\ Application => Visible!Edit
<1> SUFFICES ASSUME Inv, Inv', Application PROVE Visible!Edit
  OBVIOUS
<1>1. Spend("edits") /\ UNCHANGED <<txn, pc, target, known>>
  BY DEF Application, Replace, Rewrite, Remove
<1>2. budget'.edits = budget.edits - 1 /\ budget'.faults = budget.faults
  BY <1>1, BudgetTyped DEF Inv
<1>3. Shown' \in Image
  BY ShownNext DEF ShownGood, Image
<1> QED
  BY <1>1, <1>2, <1>3 DEF Visible!Edit, Visible!Image, Image

(* With no transaction awaiting recovery, the path shows what is there. *)
LEMMA NothingDisplaced ==
    /\ Inv /\ Unfinished = {} => Shown = Content(name)
    /\ Inv' /\ Unfinished' = {} => Shown' = Content(name)'
BY ShownIs, ShownNext DEF ShownGood, Displaced, Content

(* Only the process's place has changed, to one that shows what it did. *)
LEMMA PlaceMaps ==
    ASSUME UNCHANGED <<bytes, name, txn>>,
           pc \in {"finish", "settle"} <=> pc' \in {"finish", "settle"}
    PROVE  Shown' = Shown
BY DEF Shown, Displaced, Unfinished, Content

LEMMA IndexMaps ==
    /\ \A goal \in Image : Inv /\ Inv' /\ Agree(goal) => Visible!Learn
    /\ \A goal \in Image : Inv /\ Inv' /\ Begin(goal) => Visible!Choose
    /\ Inv /\ Inv' /\ Acknowledge => Visible!Learn
    /\ Inv /\ Inv' /\ Recovered => Visible!Learn \/ UNCHANGED Visible!vars
<1>1. ASSUME NEW goal \in Image, Inv, Inv', Agree(goal) PROVE Visible!Learn
  <2>1. Unfinished = {} /\ Shown' = Shown /\ Shown = Content(name)
    BY <1>1, NothingDisplaced, PlaceMaps DEF Agree, Inv, PhaseInv
  <2> QED
    BY <1>1, <2>1 DEF Agree, Visible!Learn
<1>2. ASSUME NEW goal \in Image, Inv, Inv', Begin(goal) PROVE Visible!Choose
  <2>1. Unfinished = {} /\ Shown' = Shown /\ Shown = Content(name)
    BY <1>2, NothingDisplaced, PlaceMaps DEF Begin, Go, Inv, PhaseInv
  <2>2. budget'.edits = budget.edits /\ budget'.faults = budget.faults
    BY <1>2, BudgetTyped DEF Begin, Inv
  <2> QED
    BY <1>2, <2>1, <2>2 DEF Begin, Go, MayReplace, Visible!Choose, Visible!Image, Image
<1>3. ASSUME Inv, Inv', Acknowledge PROVE Visible!Learn
  <2>1. Shown' = Shown
    BY <1>3, PlaceMaps DEF Acknowledge, Go
  <2> QED
    BY <1>3, <2>1 DEF Acknowledge, Go, Visible!Learn
<1>4. ASSUME Inv, Inv', Recovered PROVE Visible!Learn \/ UNCHANGED Visible!vars
  <2>1. Shown' = Shown /\ Shown = Content(name) /\ pc = "recover" /\ pc' = "open"
    BY <1>4, NothingDisplaced, PlaceMaps DEF Recovered, Go
  <2>2. CASE known' = Content(name)
    BY <1>4, <2>1, <2>2 DEF Recovered, Visible!Learn
  <2>3. CASE known' = known
    BY <1>4, <2>1, <2>3, Unseen DEF Recovered, Shipped
  <2> QED
    BY <1>4, <2>2, <2>3 DEF Recovered
<1> QED
  BY <1>1, <1>2, <1>3, <1>4

LEMMA PlaceUnseen == Inv /\ Inv' /\ (Check \/ Open \/ Close) => UNCHANGED Visible!vars
<1> SUFFICES ASSUME Inv, Check \/ Open \/ Close PROVE UNCHANGED Visible!vars
  OBVIOUS
<1>1. /\ UNCHANGED <<bytes, name, txn, target, known, budget>>
      /\ {pc, pc'} \subseteq {"check", "publish", "undo", "open", "closed", "recover"}
  BY DEF Check, Open, Close, Go
<1>2. Shown' = Shown
  BY <1>1, PlaceMaps
<1> QED
  BY <1>1, <1>2, Unseen DEF Shipped

LEMMA StageUnseen == Inv /\ Inv' /\ Stage => UNCHANGED Visible!vars
<1> SUFFICES ASSUME Inv, Inv', Stage PROVE UNCHANGED Visible!vars
  OBVIOUS
<1>1. pc = "stage" /\ pc' = "record" /\ UNCHANGED <<name, target, known, budget>>
  BY DEF Stage, Go
<1>2. Unfinished = {} /\ Unfinished' = {}
  BY <1>1 DEF Inv, PhaseInv
<1>3. Content(name)' = Content(name)
  <2>1. used + 1 # name
    BY <1>1, Fresh
  <2> QED
    BY <1>1, <2>1 DEF Stage, Content, Inv, TypeOK
<1> QED
  BY <1>1, <1>2, <1>3, NothingDisplaced, Unseen DEF Shipped

LEMMA RecordUnseen ==
    Inv /\ Inv' /\ (CreateRecord \/ WriteRecord) => UNCHANGED Visible!vars
<1> SUFFICES ASSUME Inv, Inv', CreateRecord \/ WriteRecord PROVE UNCHANGED Visible!vars
  OBVIOUS
<1>1. /\ pc \in {"record", "write"} /\ pc' \in {"write", "move"}
      /\ UNCHANGED <<bytes, name, at, target, known, budget>>
  BY DEF CreateRecord, WriteRecord, Go
<1>2. Displaced = {} /\ Displaced' = {}
  BY <1>1 DEF Inv, PhaseInv, OneUnfinished, Displaced, Working
<1>3. Shown' = Shown
  BY <1>1, <1>2, ShownIs, ShownNext DEF ShownGood, Content
<1> QED
  BY <1>1, <1>3, Unseen DEF Shipped

(* What was at the path is still shown once it has been moved aside. *)
LEMMA MoveAsideUnseen == Inv /\ Inv' /\ MoveAside => UNCHANGED Visible!vars
<1> SUFFICES ASSUME Inv, Inv', MoveAside PROVE UNCHANGED Visible!vars
  OBVIOUS
<1>1. /\ pc = "move" /\ pc' \in {"publish", "check", "closed"}
      /\ UNCHANGED <<bytes, at, target, known, budget>> /\ at \in DOMAIN txn
  BY DEF MoveAside, Go, Inv, PhaseInv, Working
<1>2. Shown' = Shown
  <2>1. CASE known # Absent /\ name # 0
    <3>1. /\ pc' = "check" /\ name' = 0
          /\ txn' = [txn EXCEPT ![at] = [txn[at] EXCEPT !.previous = name]]
      BY <2>1 DEF MoveAside, Go
    <3>2. txn'[at].previous = name
      BY <1>1, <3>1, TxnParts DEF Inv, TypeOK, Transaction
    <3>3. at \in Displaced'
      BY <1>1, <2>1, <3>1, <3>2 DEF Inv, PhaseInv, Working, Displaced
    <3>4. Shown' = bytes[name]
      BY <1>1, <3>1, <3>2, <3>3, ShownNext DEF ShownGood
    <3> QED
      BY <2>1, <3>4, ShownIs DEF ShownGood, Content
  <2>2. CASE ~(known # Absent /\ name # 0)
    BY <1>1, <2>2, PlaceMaps DEF MoveAside
  <2> QED
    BY <2>1, <2>2
<1> QED
  BY <1>1, <1>2, Unseen DEF Shipped

(* The link that publishes shows the goal in place of what the index knows. *)
LEMMA PublishMaps ==
    Inv /\ Inv' /\ Publish => Visible!Publish \/ UNCHANGED Visible!vars
<1> SUFFICES ASSUME Inv, Inv', Publish PROVE Visible!Publish \/ UNCHANGED Visible!vars
  OBVIOUS
<1>1. /\ pc = "publish" /\ UNCHANGED <<bytes, txn, at, target, known, budget>>
      /\ name' = Linked(name, txn[at].incoming)
      /\ at \in Unfinished /\ Unfinished = {at} /\ Prepared
      /\ IF known = Absent THEN txn[at].previous = 0
         ELSE txn[at].previous # 0 /\ bytes[txn[at].previous] = known
  BY DEF Publish, Inv, PhaseInv, OneUnfinished, Working
<1>2. pc' = IF name' = txn[at].incoming THEN "finish"
            ELSE IF target # Absent /\ known # Absent THEN "undo" ELSE "closed"
  BY DEF Publish, Go
<1>3. CASE name = 0
  <2>1. Shown = known
    <3>1. CASE known = Absent
      <4>1. Displaced = {}
        BY <1>1, <3>1 DEF Displaced
      <4> QED
        BY <1>3, <3>1, <4>1, ShownIs DEF ShownGood, Content
    <3>2. CASE known # Absent
      <4>1. at \in Displaced
        BY <1>1, <3>2 DEF Displaced
      <4> QED
        BY <1>1, <1>3, <3>2, <4>1, ShownIs DEF ShownGood
    <3> QED
      BY <3>1, <3>2
  <2>2. name' = txn[at].incoming /\ pc' = "finish"
    BY <1>1, <1>2, <1>3 DEF Linked
  <2>3. Content(name)' = target
    BY <1>1, <2>2 DEF Prepared, Content
  <2>4. Shown' = target
    BY <2>2, <2>3, ShownNext DEF ShownGood
  <2> QED
    BY <1>1, <2>1, <2>2, <2>4 DEF Visible!Publish
<1>4. CASE name # 0
  <2>1. name' = name /\ pc' \in {"undo", "closed"}
    BY <1>1, <1>2, <1>4 DEF Linked, Prepared
  <2>2. Shown' = Shown
    BY <1>1, <2>1, PlaceMaps
  <2> QED
    BY <1>1, <2>1, <2>2, Unseen DEF Shipped
<1> QED
  BY <1>3, <1>4

(* What is put back was shown already. *)
LEMMA PutBackUnseen == Inv /\ Inv' /\ (Undo \/ Relink) => UNCHANGED Visible!vars
<1> SUFFICES ASSUME Inv, Inv', Undo \/ Relink PROVE UNCHANGED Visible!vars
  OBVIOUS
<1>1. /\ pc \in {"undo", "relink"} /\ pc' \in {"closed", "settle"}
      /\ UNCHANGED <<bytes, txn, at, target, known, budget>>
      /\ name' = Linked(name, txn[at].previous)
      /\ name # 0 => pc' = "closed"
      /\ at \in Displaced
  BY DEF Undo, Relink, Go, Inv, PhaseInv, Working, Displaced
<1>2. Shown' = Shown
  <2>1. CASE name = 0
    <3>1. Shown = bytes[txn[at].previous]
      BY <1>1, <2>1, ShownIs DEF ShownGood
    <3>2. name' = txn[at].previous /\ name' # 0
      BY <1>1, <2>1 DEF Linked, Displaced
    <3> QED
      BY <1>1, <3>1, <3>2, ShownNext DEF ShownGood, Content
  <2>2. CASE name # 0
    BY <1>1, <2>2, PlaceMaps DEF Linked
  <2> QED
    BY <2>1, <2>2
<1> QED
  BY <1>1, <1>2, Unseen DEF Shipped

LEMMA FinishUnseen == Inv /\ Inv' /\ (MarkDone \/ Unstage) => UNCHANGED Visible!vars
<1> SUFFICES ASSUME Inv, Inv', MarkDone \/ Unstage PROVE UNCHANGED Visible!vars
  OBVIOUS
<1>1. /\ pc \in {"finish", "settle", "clean", "tidy"}
      /\ pc' = CASE pc = "finish" -> "clean" [] pc = "settle" -> "tidy"
                  [] pc = "clean" -> "ack" [] pc = "tidy" -> "recover"
      /\ UNCHANGED <<bytes, name, target, known, budget>>
  BY DEF MarkDone, Unstage, Go
<1>2. Shown = Content(name)
  BY <1>1, ShownIs, NothingDisplaced DEF ShownGood, Inv, PhaseInv
<1>3. Unfinished' = {}
  <2>1. CASE pc # "tidy"
    BY <1>1, <2>1 DEF Inv, PhaseInv
  <2>2. CASE pc = "tidy"
    <3>1. at \in DOMAIN txn /\ Unfinished = {}
      BY <2>2 DEF Inv, PhaseInv
    <3>2. /\ txn' = [txn EXCEPT ![at] = [txn[at] EXCEPT !.incoming = 0]]
          /\ [txn[at] EXCEPT !.incoming = 0] \in Transaction
      BY <2>2, <3>1, TxnParts DEF Unstage, MarkDone, Inv, Transaction
    <3>3. txn[at].done \/ txn[at].record = "none"
      BY <3>1 DEF Unfinished
    <3> QED
      BY <3>1, <3>2, <3>3, OthersUnfinished, TxnParts DEF Inv, Transaction
  <2> QED
    BY <2>1, <2>2
<1>4. Shown' = Shown
  BY <1>1, <1>2, <1>3, NothingDisplaced DEF Content
<1> QED
  BY <1>1, <1>4, Unseen DEF Shipped

(* A stop leaves what users see, or gives back what was to be replaced. *)
LEMMA InterruptMaps == Inv /\ Inv' /\ Interrupt => Visible!Interrupt
<1> SUFFICES ASSUME Inv, Inv', Interrupt PROVE Visible!Interrupt
  OBVIOUS
<1>1. pc' = "closed" /\ UNCHANGED <<bytes, name, txn, target, known>>
  BY DEF Interrupt, Go
<1>2. budget'.edits = budget.edits /\ budget'.faults = budget.faults - 1
  BY BudgetTyped DEF Interrupt, Inv
<1>3. Shown' = Shown \/ (Shown = Absent /\ Shown' \in Bytes)
  <2>1. CASE name = 0 /\ pc \in {"finish", "settle"} /\ Displaced # {}
    <3>1. Shown = Absent
      BY <2>1, ShownIs DEF ShownGood, Content
    <3>2. PICK t \in Displaced : TRUE
      BY <2>1
    <3>3. t \in Displaced'
      BY <1>1, <3>2 DEF Displaced, Unfinished
    <3>4. Shown' = bytes'[txn'[t].previous] /\ Shown' \in Bytes
      BY <1>1, <2>1, <3>3, ShownNext DEF ShownGood
    <3> QED
      BY <3>1, <3>4
  <2>2. CASE ~(name = 0 /\ pc \in {"finish", "settle"} /\ Displaced # {})
    BY <1>1, <2>2 DEF Shown, Displaced, Unfinished, Content
  <2> QED
    BY <2>1, <2>2
<1> QED
  BY <1>1, <1>2, <1>3 DEF Visible!Interrupt

(* Recovery takes an empty path for the end of a deletion. *)
LEMMA RecoverMaps ==
    ASSUME Inv, Inv', NEW t \in Unfinished, RecoverOne(t)
    PROVE  Visible!LateDeletion \/ UNCHANGED Visible!vars
<1>1. /\ pc = "recover" /\ pc' \in {"settle", "relink", "closed"}
      /\ UNCHANGED <<bytes, name, txn, target, known, budget>>
      /\ pc' = "settle" => Settled(t)
  BY DEF RecoverOne, Go
<1>2. CASE pc' = "settle" /\ name = 0 /\ Displaced # {}
  <2>1. txn[t].after = target /\ txn[t].before # Absent
    BY <1>2 DEF Displaced, Inv, TxnInv, OneUnfinished
  <2>2. Content(name) = Absent /\ Content(name) \in {txn[t].before, txn[t].after}
    BY <1>1, <1>2 DEF Content, Settled
  <2>3. Shown' = Absent
    BY <1>1, <1>2, ShownNext DEF ShownGood, Content
  <2> QED
    BY <1>1, <2>1, <2>2, <2>3 DEF Visible!LateDeletion
<1>3. CASE ~(pc' = "settle" /\ name = 0 /\ Displaced # {})
  <2>1. Shown' = Shown
    BY <1>1, <1>3 DEF Shown, Displaced, Unfinished, Content
  <2> QED
    BY <1>1, <2>1, Unseen DEF Shipped
<1> QED
  BY <1>2, <1>3

LEMMA StepMaps == Inv /\ Inv' /\ [Next]_vars => [Visible!Next]_(Visible!vars)
<1> SUFFICES ASSUME Inv, Inv', [Next]_vars PROVE Visible!Next \/ UNCHANGED Visible!vars
  OBVIOUS
<1>1. CASE Application
  BY <1>1, ApplicationMaps DEF Visible!Next
<1>2. CASE Apply
  BY <1>2, IndexMaps, StageUnseen, RecordUnseen, MoveAsideUnseen, PlaceUnseen,
     PublishMaps, PutBackUnseen, FinishUnseen DEF Apply, Visible!Next
<1>3. CASE Recover
  BY <1>3, IndexMaps, PlaceUnseen, PutBackUnseen, RecoverMaps DEF Recover, Visible!Next
<1>4. CASE Interrupt
  BY <1>4, InterruptMaps DEF Visible!Next
<1>5. CASE UNCHANGED vars
  BY <1>5 DEF vars, Visible!vars, Shown, Displaced, Unfinished, Content
<1> QED
  BY <1>1, <1>2, <1>3, <1>4, <1>5 DEF Next

(* With any number of edits, stops and publications, Root::apply replaces what
   the index knows and nothing else, in one step as its users see it, and the
   index learns only what is there or what was published. *)
THEOREM ApplyImplementsVisibleFile == Spec => ImplementsVisibleFile
<1>1. Spec => Visible!Spec
  BY InvHolds, InitMaps, StepMaps, PTL DEF Spec, Visible!Spec
<1> QED
  BY <1>1 DEF ImplementsVisibleFile
=============================================================================
