---------------------------- MODULE TransferProofs ----------------------------
(***************************************************************************)
(* Proofs about Transfer and Receiver: whatever the number of blocks, the  *)
(* window, the contents and the bounds on edits and faults, the file at    *)
(* the target is whole, nothing that an application saved is lost, what    *)
(* was acknowledged is stored and what is reported complete was published. *)
(***************************************************************************)
EXTENDS Transfer, FiniteSetTheorems, SequenceTheorems, WellFoundedInduction, TLAPS

(* What a transfer goes through, as its two ends see it. *)
Asking == {"recover", "recovered", "open", "journal", "survey", "surveyed"}
Storing == {"blocks", "put", "stored"}
Checked == {"archive", "recheck", "intent", "write", "displace", "compare", "link"}
Linked == {"unintend", "unpart", "unjournal", "installed"}
Installing == {"verify"} \cup Checked \cup Linked

(* The partial data of the transfer at work, and the files of applications:
   the one at the target and those that were moved aside. *)
Mine == part[rx.manifest]
PublicFiles == {target} \cup {intent[f].previous : f \in File}

(* No two contents share partial data. *)
PartsDistinct == \A f, g \in File : part[f] = part[g] /\ part[f] # 0 => f = g

(* A file of applications is whole; partial data that is one of them is what
   it should become. *)
FilesInv ==
    \A k \in PublicFiles \ {0} :
        /\ k \in 1 .. Len(bytes)
        /\ bytes[k] \in File
        /\ \A f \in File : part[f] = k => bytes[k] = f

(* There is partial data from the survey on, until it is removed. *)
Holding == {"surveyed", "verify", "unintend", "unpart"} \cup Storing \cup Checked
PartPresent == rx.phase \in Holding => Mine # 0

(* What was verified stays so until it is linked. *)
CheckedInv == rx.phase \in Checked => bytes[Mine] = rx.manifest

(* Only a blocking task outlives its connection. *)
WaitInv ==
    /\ At("listening") => ~rx.open
    /\ rx.phase \in Waiting \ {"listening"} => rx.open
    /\ rx.phase \in {"put", "stored"} => rx.missing # <<>>

(* What holds of the disk, and of the receiver on it. *)
DiskTypeOK ==
    /\ bytes \in Seq(Bytes) /\ Len(bytes) <= 1 + MaxEdits + MaxParts
    /\ target \in 0 .. Len(bytes)
    /\ part \in [File -> 0 .. Len(bytes)]
    /\ journal \in [File -> Journal] /\ intent \in [File -> Intent]
    /\ kept \subseteq 1 .. Len(bytes) /\ archive \subseteq Image

DiskInv == DiskTypeOK /\ PartsDistinct /\ FilesInv
PhaseInv == rx \in Rx /\ PartPresent /\ CheckedInv /\ WaitInv
ReceiverInv == DiskInv /\ PhaseInv /\ published \subseteq File

-----------------------------------------------------------------------------
(* The connection, phase by phase of the sender: where the receiver is then,
   and what is under way. *)

Messages == [kind : {"manifest", "block", "commit", "missing", "ack", "complete"},
             value : File \cup Index \cup Seq(Index) \cup {0}]

Quiet == ~rx.open /\ up = <<>> /\ down = <<>>

IdleInv == tx.phase = "idle" => Quiet

Announced ==
    /\ ~rx.open
    /\ up = <<Message("manifest", tx.manifest)>> /\ down = <<>>

Answering ==
    /\ rx.open /\ rx.manifest = tx.manifest /\ up = <<>>
    /\ \/ rx.phase \in Asking /\ down = <<>>
       \/ At("blocks") /\ down = <<Message("missing", rx.missing)>>

AskedInv ==
    tx.phase = "asked" => tx.sent = 0 /\ tx.acked = 0 /\ (Announced \/ Answering)

(* The number of blocks that the receiver is through with; it is where the
   list of the sender and the rest of it that the receiver has differ, and the
   blocks and acknowledgements under way fill what the counters leave. *)
Through == Len(tx.missing) - Len(rx.missing)

Blocking ==
    /\ rx.open /\ rx.manifest = tx.manifest /\ rx.phase \in Storing
    /\ Len(rx.missing) <= Len(tx.missing)
    /\ \A k \in 1 .. Len(rx.missing) : rx.missing[k] = tx.missing[Through + k]
    /\ Len(down) = Through - tx.acked
    /\ Len(up) + (IF At("blocks") THEN 0 ELSE 1) = tx.sent - Through
    /\ \A k \in 1 .. Len(up) : up[k].kind = "block"

SendingInv == tx.phase = "sending" => Blocking

Committing ==
    /\ rx.open /\ rx.manifest = tx.manifest /\ down = <<>>
    /\ \/ At("blocks") /\ rx.missing = <<>> /\ up = <<Message("commit", 0)>>
       \/ rx.phase \in Installing /\ up = <<>>
    /\ rx.phase \in Linked => tx.manifest \in published

Answered ==
    /\ ~rx.open /\ up = <<>> /\ down = <<Message("complete", 0)>>
    /\ tx.manifest \in published

CommittedInv == tx.phase = "committed" => Committing \/ Answered

DoneInv == tx.phase = "done" => Quiet /\ tx.manifest \in published

ConnectionTypeOK ==
    /\ source \in File /\ tx \in Tx
    /\ tx.acked <= tx.sent /\ tx.sent <= Len(tx.missing)
    /\ tx.sent - tx.acked <= Window
    /\ up \in Seq(Messages) /\ down \in Seq(Messages)
    /\ Len(up) <= Capacity /\ Len(down) <= Capacity
    /\ budget \in [{"edits", "sources", "faults", "damage"} -> Nat] /\ budget["damage"] <= MaxDamage

ConnectionInv ==
    ConnectionTypeOK /\ IdleInv /\ AskedInv /\ SendingInv /\ CommittedInv /\ DoneInv

Inv == ReceiverInv /\ ConnectionInv

(* What the receiver has of the blocks that were asked for: those that it is
   through with, and the one that it is about to acknowledge.  Only damage
   undoes it. *)
Taken == Through + (IF At("stored") THEN 1 ELSE 0)

StoredInv ==
    (tx.phase = "sending" /\ budget["damage"] = MaxDamage) =>
        \A k \in 1 .. Taken : bytes[Mine][tx.missing[k]] = tx.manifest[tx.missing[k]]

-----------------------------------------------------------------------------
(* Contents, records and orders *)

LEMMA FileType ==
    /\ File \subseteq Bytes /\ Bytes \subseteq Image /\ Absent \notin Bytes
    /\ \A f \in File : f \in [Index -> Block \cup {Hole}]
    /\ (CHOOSE f \in File : TRUE) \in File
<1>1. File \subseteq [Index -> Block] /\ File # {}
  BY ReceiverAssumption
<1>2. [Index -> Block] \subseteq Bytes
  BY DEF Bytes
<1>3. Bytes \subseteq Image /\ Absent \notin Bytes
  BY ReceiverAssumption DEF Bytes, Image
<1>4. (CHOOSE f \in File : TRUE) \in File
  BY <1>1
<1>5. QED
  BY <1>1, <1>2, <1>3, <1>4 DEF Bytes

LEMMA ListeningType ==
    /\ Listening \in Rx
    /\ Listening.phase = "listening" /\ Listening.open = FALSE
<1>1. (CHOOSE f \in File : TRUE) \in File /\ Absent \in Image
  BY FileType DEF Image
<1>2. <<>> \in Seq(Index)
  OBVIOUS
<1>3. QED
  BY <1>1, <1>2 DEF Listening, Rx, Waiting

(* The order of a set of block numbers exists: take the least bound under
   which there is a set without one, and put the bound at the end of an order
   of the others. *)
LEMMA OrderExists ==
    \A n \in Nat : \A S \in SUBSET (1 .. n) :
        \E s \in [1 .. Cardinality(S) -> S] :
            \A j, k \in DOMAIN s : j < k => s[j] < s[k]
<1> DEFINE Has(S) == \E s \in [1 .. Cardinality(S) -> S] :
                        \A j, k \in DOMAIN s : j < k => s[j] < s[k]
           Bad == {n \in Nat : \E S \in SUBSET (1 .. n) : ~Has(S)}
<1>1. SUFFICES ASSUME Bad # {} PROVE FALSE
  OBVIOUS
<1>2. PICK n \in Bad : \A k \in Bad : <<k, n>> \notin OpToRel(<, Nat)
  <2>1. Bad \subseteq Nat
    OBVIOUS
  <2> HIDE DEF Bad
  <2>2. QED
    BY <1>1, <2>1, NatLessThanWellFounded, WFMin
<1>3. \A k \in Bad : ~(k < n)
  BY <1>2 DEF OpToRel
<1>4. PICK S \in SUBSET (1 .. n) : ~Has(S)
  OBVIOUS
<1>5. n \in Nat
  OBVIOUS
<1>6. IsFiniteSet(S)
  <2>1. IsFiniteSet(1 .. n)
    BY <1>5, FS_Interval
  <2>2. QED
    BY <2>1, FS_Subset
<1> HIDE DEF Bad
<1>7. CASE n \notin S
  <2>1. n # 0
    <3>1. SUFFICES ASSUME n = 0 PROVE FALSE
      OBVIOUS
    <3>2. S = {} /\ Cardinality(S) = 0
      <4>1. S = {}
        BY <3>1
      <4>2. QED
        BY <4>1, FS_EmptySet
    <3>3. <<>> \in [1 .. 0 -> S] /\ DOMAIN <<>> = {}
      OBVIOUS
    <3>4. QED
      BY <1>4, <3>2, <3>3
  <2>2. n - 1 \in Nat /\ S \in SUBSET (1 .. n - 1)
    BY <1>5, <1>7, <2>1
  <2>3. n - 1 \in Bad
    BY <1>4, <2>2 DEF Bad
  <2>4. n - 1 < n
    BY <1>5
  <2>5. QED
    BY <1>3, <2>3, <2>4
<1>8. CASE n \in S
  <2> DEFINE R == S \ {n}
  <2>1. n # 0 /\ n - 1 \in Nat /\ R \in SUBSET (1 .. n - 1)
    BY <1>5, <1>8
  <2>2. Has(R)
    <3>1. n - 1 < n
      BY <1>5
    <3>2. n - 1 \notin Bad
      BY <1>3, <3>1
    <3>3. QED
      BY <2>1, <3>2 DEF Bad
  <2>3. Cardinality(S) \in Nat /\ Cardinality(R) = Cardinality(S) - 1
        /\ Cardinality(R) \in Nat
    BY <1>6, <1>8, FS_RemoveElement, FS_CardinalityType
  <2> DEFINE c == Cardinality(R)
  <2>4. PICK s \in [1 .. c -> R] : \A j, k \in DOMAIN s : j < k => s[j] < s[k]
    BY <2>2
  <2> HIDE DEF R, c
  <2>5. c \in Nat /\ Cardinality(S) = c + 1
    BY <2>3 DEF c
  <2> DEFINE t == [j \in 1 .. c + 1 |-> IF j = c + 1 THEN n ELSE s[j]]
  <2>6. \A j \in 1 .. c : s[j] \in R /\ s[j] \in S /\ s[j] \in Int /\ s[j] < n
    <3>1. ASSUME NEW j \in 1 .. c
          PROVE  s[j] \in R
      BY <2>4
    <3>2. \A i \in R : i \in S /\ i \in Int /\ i < n
      BY <1>5, <2>1 DEF R
    <3>3. QED
      BY <3>1, <3>2
  <2>7. t \in [1 .. Cardinality(S) -> S] /\ DOMAIN t = 1 .. c + 1
    BY <1>8, <2>5, <2>6
  <2>8. ASSUME NEW j \in 1 .. c + 1, NEW k \in 1 .. c + 1, j < k
        PROVE  t[j] < t[k]
    <3>1. j \in 1 .. c /\ t[j] = s[j]
      BY <2>5, <2>8
    <3>2. CASE k = c + 1
      BY <2>6, <3>1, <3>2
    <3>3. CASE k # c + 1
      <4>1. k \in 1 .. c /\ t[k] = s[k]
        BY <2>5, <3>3
      <4>2. QED
        BY <2>4, <2>8, <3>1, <4>1
    <3>4. QED
      BY <3>2, <3>3
  <2> HIDE DEF t
  <2>9. Has(S)
    BY <2>7, <2>8
  <2>10. QED
    BY <1>4, <2>9
<1>9. QED
  BY <1>7, <1>8

LEMMA OrderedType ==
    ASSUME NEW S \in SUBSET Index
    PROVE  Ordered(S) \in Seq(Index)
<1>1. Blocks \in Nat /\ IsFiniteSet(S) /\ Cardinality(S) \in Nat
  <2>1. Blocks \in Nat /\ Blocks \in Int /\ 1 \in Int
    BY ReceiverAssumption
  <2>2. IsFiniteSet(Index)
    BY <2>1, FS_Interval DEF Index
  <2>3. QED
    BY <2>1, <2>2, FS_Subset, FS_CardinalityType
<1>2. \E s \in [1 .. Cardinality(S) -> S] :
         \A j, k \in DOMAIN s : j < k => s[j] < s[k]
  BY <1>1, OrderExists DEF Index
<1>3. Ordered(S) \in [1 .. Cardinality(S) -> S]
  BY <1>2 DEF Ordered
<1>4. QED
  BY <1>1, <1>3

-----------------------------------------------------------------------------
(* The disk and the receiver's phase *)

(* The content of the target is an image. *)
LEMMA VisibleType ==
    ASSUME DiskInv
    PROVE  Visible \in Image /\ (target # 0 => Visible \in File)
<1>1. CASE target = 0
  BY <1>1, ReceiverAssumption DEF Visible, Image
<1>2. CASE target # 0
  <2>1. bytes[target] \in File
    BY <1>2 DEF DiskInv, FilesInv, PublicFiles
  <2>2. QED
    BY <1>2, <2>1, FileType DEF Visible
<1>3. QED
  BY <1>1, <1>2

(* What no step but a write, a link and a new file has to show. *)
LEMMA DiskKept ==
    ASSUME DiskInv, UNCHANGED bytes,
           target' \in PublicFiles \cup {0},
           part' \in [File -> 0 .. Len(bytes)],
           \A f \in File : part'[f] \in {part[f], 0},
           journal' \in [File -> Journal], intent' \in [File -> Intent],
           \A f \in File : intent'[f].previous \in PublicFiles \cup {0},
           kept' \subseteq 1 .. Len(bytes), archive' \subseteq Image
    PROVE  DiskInv'
<1>1. \A k \in PublicFiles' \ {0} : k \in PublicFiles \ {0}
  BY DEF PublicFiles
<1>2. FilesInv'
  <2>1. ASSUME NEW k \in PublicFiles' \ {0}
        PROVE  /\ k \in 1 .. Len(bytes')
               /\ bytes'[k] \in File
               /\ \A f \in File : part'[f] = k => bytes'[k] = f
    <3>1. /\ k \in 1 .. Len(bytes) /\ bytes[k] \in File
          /\ \A f \in File : part[f] = k => bytes[k] = f
      BY <1>1, <2>1 DEF DiskInv, FilesInv
    <3>2. QED
      BY <2>1, <3>1
  <2>2. QED
    BY <2>1 DEF FilesInv
<1>3. PartsDistinct'
  BY DEF DiskInv, PartsDistinct
<1>4. target' \in 0 .. Len(bytes)
  <2>1. \A k \in PublicFiles : k \in 0 .. Len(bytes)
    <3>1. ASSUME NEW k \in PublicFiles PROVE k \in 0 .. Len(bytes)
      <4>1. CASE k = 0
        BY <4>1, LenProperties DEF DiskInv, DiskTypeOK
      <4>2. CASE k # 0
        BY <4>2 DEF DiskInv, FilesInv
      <4>3. QED
        BY <4>1, <4>2
    <3>2. QED
      BY <3>1
  <2>2. 0 \in 0 .. Len(bytes)
    BY LenProperties DEF DiskInv, DiskTypeOK
  <2>3. QED
    BY <2>1, <2>2
<1>5. DiskTypeOK'
  BY <1>4 DEF DiskInv, DiskTypeOK
<1>6. QED
  BY <1>2, <1>3, <1>5 DEF DiskInv

(* A receiver that has no connection and no work needs nothing. *)
LEMMA Resting ==
    ASSUME rx' = Listening
    PROVE  PhaseInv' /\ rx'.phase = "listening" /\ rx'.open = FALSE
<1>1. rx' \in Rx /\ rx'.phase = "listening" /\ rx'.open = FALSE
  BY ListeningType
<1>2. rx'.phase \notin Holding /\ rx'.phase \notin Checked
      /\ rx'.phase \notin {"put", "stored"}
  BY <1>1 DEF Holding, Storing, Checked
<1>3. QED
  BY <1>1, <1>2 DEF PhaseInv, PartPresent, CheckedInv, WaitInv, At

(* The receiver goes on: it has the partial data that it needs. *)
LEMMA Going ==
    ASSUME PhaseInv, NEW p \in Working \cup Waiting, Go(p), p # "listening",
           p \in Waiting => rx.open,
           p \in Holding => part'[rx.manifest] # 0,
           p \in Checked => bytes'[part'[rx.manifest]] = rx.manifest,
           p \in {"put", "stored"} => rx.missing # <<>>
    PROVE  /\ PhaseInv'
           /\ rx'.phase = p /\ rx'.open = rx.open /\ rx'.manifest = rx.manifest
           /\ rx'.missing = rx.missing /\ rx'.original = rx.original
<1>1. /\ rx' \in Rx
      /\ rx'.phase = p /\ rx'.open = rx.open /\ rx'.manifest = rx.manifest
      /\ rx'.missing = rx.missing /\ rx'.original = rx.original
  BY DEF PhaseInv, Rx, Go
<1>2. PartPresent' /\ CheckedInv'
  BY <1>1 DEF PartPresent, CheckedInv, Mine
<1>3. WaitInv'
  BY <1>1 DEF WaitInv, At
<1>4. QED
  BY <1>1, <1>2, <1>3 DEF PhaseInv

-----------------------------------------------------------------------------
(* The steps of the receiver *)

(* What the connection has to know of such a step. *)
Progress ==
    /\ published \subseteq published'
    /\ \/ rx' = Listening
       \/ /\ rx'.open = rx.open /\ rx'.manifest = rx.manifest
          /\ \/ rx.phase \in Asking /\ rx'.phase \in Asking
             \/ At("put") /\ rx'.phase = "stored" /\ rx'.missing = rx.missing
             \/ rx.phase \in Installing /\ rx'.phase \in Installing
          /\ rx'.phase \in Linked => rx.phase \in Linked \/ rx.manifest \in published'

LEMMA Manifest ==
    ASSUME ReceiverInv
    PROVE  /\ rx.manifest \in File /\ rx.original \in Image /\ rx.missing \in Seq(Index)
           /\ Len(bytes) \in Nat
           /\ part[rx.manifest] \in 0 .. Len(bytes)
           /\ intent[rx.manifest] \in Intent /\ journal[rx.manifest] \in Journal
           /\ intent[rx.manifest].previous \in PublicFiles
<1>1. rx.manifest \in File /\ rx.original \in Image /\ rx.missing \in Seq(Index)
  BY DEF ReceiverInv, PhaseInv, Rx
<1>2. Len(bytes) \in Nat
  BY LenProperties DEF ReceiverInv, DiskInv, DiskTypeOK
<1>3. QED
  BY <1>1, <1>2 DEF ReceiverInv, DiskInv, DiskTypeOK, PublicFiles

LEMMA Refusing ==
    ASSUME ReceiverInv, DiskInv', Refuse, UNCHANGED published
    PROVE  ReceiverInv' /\ Progress
BY Resting DEF Refuse, ReceiverInv, Progress

LEMMA AskingGoes ==
    ASSUME ReceiverInv, DiskInv', rx.phase \in Asking, UNCHANGED published,
           NEW p \in {"recovered", "open", "journal", "survey"}, Go(p)
    PROVE  ReceiverInv' /\ Progress
<1>1. p \in Working /\ p \notin Waiting /\ p \notin Holding /\ p \notin Checked
      /\ p \in Asking /\ p \notin Linked /\ p \notin {"put", "stored", "listening"}
  BY DEF Working, Waiting, Holding, Storing, Checked, Asking, Linked
<1>2. PhaseInv' /\ rx'.phase = p /\ rx'.open = rx.open /\ rx'.manifest = rx.manifest
  BY <1>1, Going DEF ReceiverInv
<1>3. QED
  BY <1>1, <1>2 DEF ReceiverInv, Progress

LEMMA InstallingGoes ==
    ASSUME ReceiverInv, DiskInv', rx.phase \in Installing,
           published' \in SUBSET File, published \subseteq published',
           NEW p \in Checked \cup {"unintend", "unpart", "unjournal"}, Go(p),
           p # "unjournal" => part'[rx.manifest] # 0,
           p \in Checked => bytes'[part'[rx.manifest]] = rx.manifest,
           p \in Linked => rx.phase \in Linked \/ rx.manifest \in published'
    PROVE  ReceiverInv' /\ Progress
<1>1. p \in Working /\ p \notin Waiting /\ p \in Installing
      /\ p \notin {"put", "stored", "listening"} /\ (p \in Holding => p # "unjournal")
  BY DEF Working, Waiting, Holding, Storing, Checked, Installing, Linked
<1>2. PhaseInv' /\ rx'.phase = p /\ rx'.open = rx.open /\ rx'.manifest = rx.manifest
  BY <1>1, Going DEF ReceiverInv
<1>3. QED
  BY <1>1, <1>2 DEF ReceiverInv, Progress

(* The recovery link puts back a file that was displaced (recover_install). *)
LEMMA RecoverKeeps ==
    ASSUME ReceiverInv, Recover
    PROVE  ReceiverInv' /\ Progress
<1>1. DiskInv'
  <2>1. target' \in PublicFiles
    BY Manifest DEF Recover, PublicFiles
  <2>2. QED
    BY <2>1, DiskKept DEF Recover, ReceiverInv, DiskInv, DiskTypeOK, PublicFiles
<1>2. Go("open") \/ Go("recovered") \/ Refuse
  BY DEF Recover
<1>3. rx.phase \in Asking /\ UNCHANGED published
  BY DEF Recover, Asking, At
<1>4. QED
  BY <1>1, <1>2, <1>3, Refusing, AskingGoes

(* An intent that is dropped displaced nothing that is still aside. *)
LEMMA DropIntentKeeps ==
    ASSUME ReceiverInv, DropIntent
    PROVE  ReceiverInv' /\ Progress
<1>1. DiskInv'
  <2>1. NoIntent \in Intent /\ NoIntent.previous = 0
    BY DEF NoIntent, Intent, Image
  <2>2. /\ intent' \in [File -> Intent]
        /\ \A f \in File : intent'[f].previous \in PublicFiles \cup {0}
    BY <2>1 DEF DropIntent, ReceiverInv, DiskInv, DiskTypeOK, PublicFiles
  <2>3. QED
    BY <2>2, DiskKept DEF DropIntent, ReceiverInv, DiskInv, DiskTypeOK, PublicFiles
<1>2. Go("open") \/ Refuse
  BY DEF DropIntent
<1>3. rx.phase \in Asking /\ UNCHANGED published
  BY DEF DropIntent, Asking, At
<1>4. QED
  BY <1>1, <1>2, <1>3, Refusing, AskingGoes

LEMMA OpenJournalKeeps ==
    ASSUME ReceiverInv, OpenJournal
    PROVE  ReceiverInv' /\ Progress
<1> DEFINE n(p) == [rx EXCEPT !.phase = p, !.original = Visible]
<1>1. DiskInv'
  <2>1. journal' \in [File -> Journal]
    BY DEF OpenJournal, ReceiverInv, DiskInv, DiskTypeOK, Journal
  <2>2. QED
    BY <2>1, DiskKept DEF OpenJournal, ReceiverInv, DiskInv, DiskTypeOK, PublicFiles
<1>2. rx' = n("journal") \/ rx' = n("survey") \/ Refuse
  BY DEF OpenJournal
<1>3. rx.phase \in Asking /\ UNCHANGED published
  BY DEF OpenJournal, Asking, At
<1>4. CASE Refuse
  BY <1>1, <1>3, <1>4, Refusing
<1>5. ASSUME NEW p \in {"journal", "survey"}, rx' = n(p)
      PROVE  ReceiverInv' /\ Progress
  <2>1. p \in Working /\ p \notin Waiting /\ p \notin Holding /\ p \notin Checked
        /\ p \in Asking /\ p \notin Linked /\ p \notin {"put", "stored", "listening"}
    BY DEF Working, Waiting, Holding, Storing, Checked, Asking, Linked
  <2>2. Visible \in Image
    BY VisibleType DEF ReceiverInv
  <2>3. rx' \in Rx /\ rx'.phase = p /\ rx'.open = rx.open /\ rx'.manifest = rx.manifest
    BY <1>5, <2>1, <2>2 DEF ReceiverInv, PhaseInv, Rx
  <2>4. PhaseInv'
    BY <2>1, <2>3 DEF PhaseInv, PartPresent, CheckedInv, WaitInv, At
  <2>5. QED
    BY <1>1, <1>3, <2>1, <2>3, <2>4 DEF ReceiverInv, Progress
<1>6. QED
  BY <1>2, <1>4, <1>5

LEMMA WriteJournalKeeps ==
    ASSUME ReceiverInv, WriteJournal
    PROVE  ReceiverInv' /\ Progress
<1>1. DiskInv'
  <2>1. journal' \in [File -> Journal]
    BY Manifest DEF WriteJournal, ReceiverInv, DiskInv, DiskTypeOK, Journal
  <2>2. QED
    BY <2>1, DiskKept DEF WriteJournal, ReceiverInv, DiskInv, DiskTypeOK, PublicFiles
<1>2. rx.phase \in Asking /\ UNCHANGED published /\ Go("survey")
  BY DEF WriteJournal, Asking, At
<1>3. QED
  BY <1>1, <1>2, AskingGoes

LEMMA VerifyKeeps ==
    ASSUME ReceiverInv, Verify
    PROVE  ReceiverInv' /\ Progress
<1>1. DiskInv'
  BY DiskKept DEF Verify, disk, ReceiverInv, DiskInv, DiskTypeOK, PublicFiles
<1>2. rx.phase \in Installing /\ UNCHANGED <<published, part, bytes>>
      /\ part[rx.manifest] # 0
  BY DEF Verify, disk, Installing, At, ReceiverInv, PhaseInv, PartPresent, Holding, Mine
<1>3. published \subseteq File
  BY DEF ReceiverInv
<1>4. CASE Refuse
  BY <1>1, <1>2, <1>4, Refusing
<1>5. ASSUME NEW p \in {"recheck", "archive"}, Go(p), Verified(rx.manifest)
      PROVE  ReceiverInv' /\ Progress
  <2>1. p \in Checked /\ p \notin Linked /\ p # "unjournal"
    BY DEF Checked, Linked
  <2>2. bytes'[part'[rx.manifest]] = rx.manifest
    BY <1>2, <1>5 DEF Verified
  <2>3. QED
    BY <1>1, <1>2, <1>3, <1>5, <2>1, <2>2, InstallingGoes
<1>6. QED
  BY <1>4, <1>5 DEF Verify

(* A step within the installation that changes neither files nor data. *)
LEMMA CheckedGoes ==
    ASSUME ReceiverInv, DiskInv', rx.phase \in Checked,
           UNCHANGED <<published, part, bytes>>, NEW p \in Checked, Go(p)
    PROVE  ReceiverInv' /\ Progress
<1>1. rx.phase \in Installing /\ rx.phase \in Holding
  BY DEF Installing, Holding
<1>2. part[rx.manifest] # 0 /\ bytes[part[rx.manifest]] = rx.manifest
  BY <1>1 DEF ReceiverInv, PhaseInv, PartPresent, CheckedInv, Mine
<1>3. p \notin Linked /\ p # "unjournal"
  BY DEF Checked, Linked
<1>4. published \subseteq File
  BY DEF ReceiverInv
<1>5. QED
  BY <1>1, <1>2, <1>3, <1>4, InstallingGoes

(* The version that will be replaced is archived while it is the target. *)
LEMMA ArchiveKeeps ==
    ASSUME ReceiverInv, Archive
    PROVE  ReceiverInv' /\ Progress
<1>1. archive' \subseteq Image
  BY Manifest DEF Archive, ReceiverInv, DiskInv, DiskTypeOK
<1>2. DiskInv'
  BY <1>1, DiskKept DEF Archive, ReceiverInv, DiskInv, DiskTypeOK, PublicFiles
<1>3. rx.phase \in Checked /\ "recheck" \in Checked
  BY DEF Archive, At, Checked
<1>4. UNCHANGED <<published, part, bytes>> /\ (Refuse \/ Go("recheck"))
  BY DEF Archive
<1>5. QED
  BY <1>2, <1>3, <1>4, Refusing, CheckedGoes

LEMMA RecheckKeeps ==
    ASSUME ReceiverInv, Recheck
    PROVE  ReceiverInv' /\ Progress
<1>1. DiskInv'
  BY DiskKept DEF Recheck, disk, ReceiverInv, DiskInv, DiskTypeOK, PublicFiles
<1>2. rx.phase \in Checked /\ "link" \in Checked /\ "intent" \in Checked
  BY DEF Recheck, At, Checked
<1>3. UNCHANGED <<published, part, bytes>> /\ (Refuse \/ Go("link") \/ Go("intent"))
  BY DEF Recheck, disk
<1>4. QED
  BY <1>1, <1>2, <1>3, Refusing, CheckedGoes

(* The incoming file is linked into the recovery directory before the target
   is touched (prepare_install). *)
LEMMA CreateIntentKeeps ==
    ASSUME ReceiverInv, CreateIntent
    PROVE  ReceiverInv' /\ Progress
<1>1. rx.phase \in Checked /\ "write" \in Checked
  BY DEF CreateIntent, At, Checked
<1>2. part[rx.manifest] # 0
  BY <1>1 DEF ReceiverInv, PhaseInv, PartPresent, Holding, Mine
<1>3. kept' \subseteq 1 .. Len(bytes)
  BY <1>2, Manifest DEF CreateIntent, ReceiverInv, DiskInv, DiskTypeOK
<1>4. /\ intent' \in [File -> Intent]
      /\ \A f \in File : intent'[f].previous \in PublicFiles \cup {0}
  <2>1. /\ intent' = [intent EXCEPT ![rx.manifest].state = "torn"]
        /\ intent \in [File -> Intent]
    BY DEF CreateIntent, ReceiverInv, DiskInv, DiskTypeOK
  <2>2. QED
    BY <2>1 DEF Intent, PublicFiles
<1>5. DiskInv'
  BY <1>3, <1>4, DiskKept DEF CreateIntent, ReceiverInv, DiskInv, DiskTypeOK, PublicFiles
<1>6. UNCHANGED <<published, part, bytes>> /\ Go("write")
  BY DEF CreateIntent
<1>7. QED
  BY <1>1, <1>5, <1>6, CheckedGoes

LEMMA WriteIntentKeeps ==
    ASSUME ReceiverInv, WriteIntent
    PROVE  ReceiverInv' /\ Progress
<1>1. rx.phase \in Checked /\ "displace" \in Checked
  BY DEF WriteIntent, At, Checked
<1>2. /\ intent' \in [File -> Intent]
      /\ \A f \in File : intent'[f].previous \in PublicFiles \cup {0}
  <2>1. /\ intent' = [intent EXCEPT ![rx.manifest] =
                        [state |-> "whole", original |-> rx.original, previous |-> 0]]
        /\ intent \in [File -> Intent]
    BY DEF WriteIntent, ReceiverInv, DiskInv, DiskTypeOK
  <2>2. QED
    BY <2>1, Manifest DEF Intent, PublicFiles
<1>3. DiskInv'
  BY <1>2, DiskKept DEF WriteIntent, ReceiverInv, DiskInv, DiskTypeOK, PublicFiles
<1>4. UNCHANGED <<published, part, bytes>> /\ Go("displace")
  BY DEF WriteIntent
<1>5. QED
  BY <1>1, <1>3, <1>4, CheckedGoes

LEMMA DisplaceKeeps ==
    ASSUME ReceiverInv, Displace
    PROVE  ReceiverInv' /\ Progress
<1>1. rx.phase \in Checked /\ "compare" \in Checked
  BY DEF Displace, At, Checked
<1>2. UNCHANGED <<published, part, bytes>>
  BY DEF Displace
<1>3. CASE target = 0
  <2>1. Refuse /\ UNCHANGED <<target, intent, kept, journal, archive>>
    BY <1>3 DEF Displace
  <2>2. DiskInv'
    BY <1>2, <2>1, DiskKept DEF ReceiverInv, DiskInv, DiskTypeOK, PublicFiles
  <2>3. QED
    BY <1>2, <2>1, <2>2, Refusing
<1>4. CASE target # 0
  <2>1. /\ kept' = kept \cup {target} /\ target' = 0 /\ Go("compare")
        /\ intent' = [intent EXCEPT ![rx.manifest].previous = target]
        /\ UNCHANGED <<journal, archive>>
    BY <1>4 DEF Displace
  <2>2. target \in 1 .. Len(bytes) /\ target \in Inode /\ intent \in [File -> Intent]
    BY <1>4, Manifest, ReceiverAssumption DEF ReceiverInv, DiskInv, DiskTypeOK, Inode
  <2>3. /\ intent' \in [File -> Intent]
        /\ \A f \in File : intent'[f].previous \in PublicFiles \cup {0}
    BY <2>1, <2>2 DEF Intent, PublicFiles
  <2>4. kept' \subseteq 1 .. Len(bytes)
    BY <2>1, <2>2 DEF ReceiverInv, DiskInv, DiskTypeOK
  <2>5. DiskInv'
    BY <1>2, <2>1, <2>3, <2>4, DiskKept DEF ReceiverInv, DiskInv, DiskTypeOK, PublicFiles
  <2>6. QED
    BY <1>1, <1>2, <2>1, <2>5, CheckedGoes
<1>5. QED
  BY <1>3, <1>4

LEMMA CompareKeeps ==
    ASSUME ReceiverInv, Compare
    PROVE  ReceiverInv' /\ Progress
<1>1. rx.phase \in Checked /\ "link" \in Checked
  BY DEF Compare, At, Checked
<1>2. UNCHANGED <<published, part, bytes>> /\ (Go("link") \/ Refuse)
  BY DEF Compare
<1>3. target' \in PublicFiles
  BY Manifest DEF Compare, PublicFiles
<1>4. DiskInv'
  BY <1>3, DiskKept DEF Compare, ReceiverInv, DiskInv, DiskTypeOK, PublicFiles
<1>5. QED
  BY <1>1, <1>2, <1>4, Refusing, CheckedGoes

LEMMA LinkRefusedKeeps ==
    ASSUME ReceiverInv, LinkRefused
    PROVE  ReceiverInv' /\ Progress
<1>1. /\ intent' \in [File -> Intent]
      /\ \A f \in File : intent'[f].previous \in PublicFiles \cup {0}
  <2>1. NoIntent \in Intent /\ NoIntent.previous = 0
    BY DEF NoIntent, Intent, Image
  <2>2. QED
    BY <2>1 DEF LinkRefused, ReceiverInv, DiskInv, DiskTypeOK, PublicFiles
<1>2. DiskInv'
  BY <1>1, DiskKept DEF LinkRefused, ReceiverInv, DiskInv, DiskTypeOK, PublicFiles
<1>3. QED
  BY <1>2, Refusing DEF LinkRefused

(* The verified data becomes the target, under a name that was free. *)
LEMMA LinkKeeps ==
    ASSUME ReceiverInv, Link
    PROVE  ReceiverInv' /\ Progress
<1> DEFINE m == rx.manifest
<1>1. rx.phase \in Checked /\ rx.phase \in Holding /\ rx.phase \in Installing
  BY DEF Link, At, Checked, Holding, Installing
<1>2. m \in File /\ part[m] \in 1 .. Len(bytes) /\ bytes[part[m]] = m
  <2>1. part[m] # 0 /\ bytes[part[m]] = m
    BY <1>1 DEF ReceiverInv, PhaseInv, PartPresent, CheckedInv, Mine
  <2>2. QED
    BY <2>1, Manifest
<1> HIDE DEF m
<1>3. target' = part[m] /\ UNCHANGED <<bytes, part, journal, intent, kept, archive>>
  BY DEF Link, m
<1>4. \A k \in PublicFiles' \ {0} : k \in PublicFiles \ {0} \/ k = part[m]
  BY <1>3 DEF PublicFiles
<1>5. FilesInv'
  <2>1. ASSUME NEW k \in PublicFiles' \ {0}
        PROVE  /\ k \in 1 .. Len(bytes) /\ bytes[k] \in File
               /\ \A f \in File : part[f] = k => bytes[k] = f
    <3>1. CASE k \in PublicFiles \ {0}
      BY <3>1 DEF ReceiverInv, DiskInv, FilesInv
    <3>2. CASE k = part[m]
      <4>1. \A f \in File : part[f] = k => f = m
        BY <1>2, <2>1, <3>2 DEF ReceiverInv, DiskInv, PartsDistinct
      <4>2. QED
        BY <1>2, <3>2, <4>1
    <3>3. QED
      BY <1>4, <2>1, <3>1, <3>2
  <2>2. QED
    BY <1>3, <2>1 DEF FilesInv
<1>6. PartsDistinct' /\ DiskTypeOK'
  <2>1. target' \in 0 .. Len(bytes)
    BY <1>2, <1>3, Manifest
  <2>2. QED
    BY <1>3, <2>1 DEF ReceiverInv, DiskInv, PartsDistinct, DiskTypeOK
<1>7. /\ published' = published \cup {m} /\ Go("unintend")
      /\ "unintend" \notin Checked /\ "unintend" \in Linked
  BY DEF Link, m, Checked, Linked
<1>8. /\ published' \in SUBSET File /\ published \subseteq published' /\ m \in published'
      /\ DiskInv' /\ part'[m] # 0
  BY <1>2, <1>3, <1>5, <1>6, <1>7 DEF ReceiverInv, DiskInv
<1>9. QED
  BY <1>1, <1>7, <1>8, InstallingGoes DEF m

LEMMA RemoveIntentKeeps ==
    ASSUME ReceiverInv, RemoveIntent
    PROVE  ReceiverInv' /\ Progress
<1>1. /\ intent' \in [File -> Intent]
      /\ \A f \in File : intent'[f].previous \in PublicFiles \cup {0}
  <2>1. NoIntent \in Intent /\ NoIntent.previous = 0
    BY DEF NoIntent, Intent, Image
  <2>2. QED
    BY <2>1 DEF RemoveIntent, ReceiverInv, DiskInv, DiskTypeOK, PublicFiles
<1>2. DiskInv'
  BY <1>1, DiskKept DEF RemoveIntent, ReceiverInv, DiskInv, DiskTypeOK, PublicFiles
<1>3. /\ rx.phase \in Linked /\ rx.phase \in Installing /\ rx.phase \in Holding
      /\ "unpart" \notin Checked /\ Go("unpart") /\ UNCHANGED <<part, published>>
  BY DEF RemoveIntent, At, Linked, Installing, Holding, Checked
<1>4. part'[rx.manifest] # 0 /\ published \subseteq File
  BY <1>3 DEF ReceiverInv, PhaseInv, PartPresent, Mine
<1>5. QED
  BY <1>2, <1>3, <1>4, InstallingGoes

LEMMA RemovePartKeeps ==
    ASSUME ReceiverInv, RemovePart
    PROVE  ReceiverInv' /\ Progress
<1>1. DiskInv'
  <2>1. /\ part' \in [File -> 0 .. Len(bytes)]
        /\ \A f \in File : part'[f] \in {part[f], 0}
    BY Manifest DEF RemovePart, ReceiverInv, DiskInv, DiskTypeOK
  <2>2. QED
    BY <2>1, DiskKept DEF RemovePart, ReceiverInv, DiskInv, DiskTypeOK, PublicFiles
<1>2. /\ rx.phase \in Linked /\ rx.phase \in Installing
      /\ "unjournal" \notin Checked /\ Go("unjournal") /\ UNCHANGED published
  BY DEF RemovePart, At, Linked, Installing, Checked
<1>3. published \subseteq File
  BY DEF ReceiverInv
<1>4. QED
  BY <1>1, <1>2, <1>3, InstallingGoes

LEMMA RemoveJournalKeeps ==
    ASSUME ReceiverInv, RemoveJournal
    PROVE  ReceiverInv' /\ Progress
<1>1. DiskInv'
  <2>1. journal' \in [File -> Journal]
    BY DEF RemoveJournal, ReceiverInv, DiskInv, DiskTypeOK, Journal, NoJournal, Image
  <2>2. QED
    BY <2>1, DiskKept DEF RemoveJournal, ReceiverInv, DiskInv, DiskTypeOK, PublicFiles
<1>2. rx.phase \in Linked /\ rx.phase \in Installing /\ UNCHANGED published
  BY DEF RemoveJournal, At, Linked, Installing
<1>3. CASE rx' = Listening
  BY <1>1, <1>2, <1>3, Refusing DEF Refuse
<1>4. CASE rx.open /\ Go("installed")
  <2>1. /\ "installed" \in Waiting /\ "installed" \notin Holding /\ "installed" \notin Checked
        /\ "installed" \in Installing
    BY DEF Waiting, Holding, Storing, Checked, Installing, Linked
  <2>2. PhaseInv' /\ rx'.phase = "installed" /\ rx'.open = rx.open /\ rx'.manifest = rx.manifest
    BY <1>4, <2>1, Going DEF ReceiverInv
  <2>3. QED
    BY <1>1, <1>2, <2>1, <2>2 DEF ReceiverInv, Progress
<1>5. QED
  BY <1>3, <1>4 DEF RemoveJournal, Done, Go

(* What a step that writes data leaves alone. *)
FilesStay == \A k \in PublicFiles \ {0} : bytes'[k] = bytes[k]

LEMMA DiskWritten ==
    ASSUME DiskInv, UNCHANGED <<target, journal, intent, kept, archive>>,
           bytes' \in Seq(Bytes), Len(bytes) <= Len(bytes'),
           Len(bytes') <= 1 + MaxEdits + MaxParts,
           part' \in [File -> 0 .. Len(bytes')], PartsDistinct',
           \A k \in PublicFiles \ {0}, f \in File : part'[f] = k => part[f] = k,
           FilesStay
    PROVE  DiskInv'
<1>1. Len(bytes) \in Nat /\ Len(bytes') \in Nat
  BY LenProperties DEF DiskInv, DiskTypeOK
<1>2. DiskTypeOK'
  BY <1>1 DEF DiskInv, DiskTypeOK
<1>3. PublicFiles' = PublicFiles
  BY DEF PublicFiles
<1>4. ASSUME NEW k \in PublicFiles \ {0}
      PROVE  /\ k \in 1 .. Len(bytes') /\ bytes'[k] \in File
             /\ \A f \in File : part'[f] = k => bytes'[k] = f
  <2>1. /\ k \in 1 .. Len(bytes) /\ bytes[k] \in File /\ bytes'[k] = bytes[k]
        /\ \A f \in File : part[f] = k => bytes[k] = f
    BY <1>4 DEF DiskInv, FilesInv, FilesStay
  <2>2. QED
    BY <1>1, <1>4, <2>1
<1>5. FilesInv'
  BY <1>3, <1>4 DEF FilesInv
<1>6. QED
  BY <1>2, <1>5 DEF DiskInv

(* Partial data is written over with other bytes. *)
LEMMA PartWritten ==
    ASSUME DiskInv, UNCHANGED <<target, part, journal, intent, kept, archive>>,
           NEW k \in 1 .. Len(bytes), NEW new \in Bytes,
           bytes' = [bytes EXCEPT ![k] = new],
           k \in PublicFiles => new = bytes[k]
    PROVE  DiskInv' /\ FilesStay
<1>1. bytes \in Seq(Bytes) /\ Len(bytes) \in Nat
  BY LenProperties DEF DiskInv, DiskTypeOK
<1>2. /\ bytes' \in Seq(Bytes) /\ Len(bytes') = Len(bytes)
      /\ \A j \in 1 .. Len(bytes) : bytes'[j] = IF j = k THEN new ELSE bytes[j]
  BY <1>1, ExceptSeq
<1>3. FilesStay
  <2>1. ASSUME NEW j \in PublicFiles \ {0} PROVE bytes'[j] = bytes[j]
    <3>1. j \in 1 .. Len(bytes)
      BY DEF DiskInv, FilesInv
    <3>2. QED
      BY <1>2, <3>1
  <2>2. QED
    BY <2>1 DEF FilesStay
<1>4. PartsDistinct' /\ part' \in [File -> 0 .. Len(bytes)]
  BY DEF DiskInv, PartsDistinct, DiskTypeOK
<1>5. Len(bytes) <= 1 + MaxEdits + MaxParts
  BY DEF DiskInv, DiskTypeOK
<1>6. QED
  BY <1>1, <1>2, <1>3, <1>4, <1>5, DiskWritten

(* The next block is written; data that has been linked already has it. *)
LEMMA PutKeeps ==
    ASSUME ReceiverInv, Put
    PROVE  ReceiverInv' /\ Progress /\ FilesStay
<1> DEFINE m == rx.manifest
           k == part[m]
           i == Head(rx.missing)
           new == [bytes[k] EXCEPT ![i] = m[i]]
<1>1. rx.phase = "put" /\ rx.phase \in Holding /\ rx.missing # <<>>
  <2>1. rx.phase = "put"
    BY DEF Put, At
  <2>2. QED
    BY <2>1 DEF Holding, Storing, ReceiverInv, PhaseInv, WaitInv
<1>2. m \in File /\ k \in 1 .. Len(bytes) /\ i \in Index
  <2>1. k # 0 /\ rx.missing \in Seq(Index)
    BY <1>1, Manifest DEF ReceiverInv, PhaseInv, PartPresent, Mine
  <2>2. i \in Index
    BY <1>1, <2>1, HeadTailProperties
  <2>3. QED
    BY <2>1, <2>2, Manifest
<1>3. /\ bytes' = [bytes EXCEPT ![k] = new]
      /\ UNCHANGED <<target, part, journal, intent, kept, archive, published>>
      /\ rx' = Listening \/ (rx.open /\ Go("stored"))
  BY DEF Put, Done, Go
<1>4. bytes[k] \in Bytes /\ m \in Bytes
  BY <1>2, ElementOfSeq, FileType DEF ReceiverInv, DiskInv, DiskTypeOK
<1>5. new \in Bytes
  BY <1>2, <1>4 DEF Bytes
<1>6. ASSUME k \in PublicFiles PROVE new = bytes[k]
  <2>1. bytes[k] = m
    BY <1>2, <1>6 DEF ReceiverInv, DiskInv, FilesInv
  <2>2. QED
    BY <1>4, <2>1 DEF Bytes
<1> HIDE DEF new, i, k, m
<1>7. DiskInv' /\ FilesStay
  BY <1>2, <1>3, <1>5, <1>6, PartWritten DEF ReceiverInv
<1>8. CASE rx' = Listening
  BY <1>3, <1>7, <1>8, Refusing DEF Refuse
<1>9. CASE rx.open /\ Go("stored")
  <2>1. /\ "stored" \in Waiting /\ "stored" \in Holding /\ "stored" \notin Checked
        /\ "stored" \notin Linked
    BY DEF Waiting, Holding, Storing, Checked, Linked
  <2>2. part'[rx.manifest] # 0
    BY <1>2, <1>3 DEF k, m
  <2>3. /\ PhaseInv' /\ rx'.phase = "stored" /\ rx'.open = rx.open
        /\ rx'.manifest = rx.manifest /\ rx'.missing = rx.missing
    BY <1>1, <1>9, <2>1, <2>2, Going DEF ReceiverInv
  <2>4. QED
    BY <1>1, <1>3, <1>7, <2>1, <2>3 DEF ReceiverInv, Progress, At
<1>10. QED
  BY <1>3, <1>7, <1>8, <1>9

(* Partial data is made, or completed from the target. *)
LEMMA SurveyKeeps ==
    ASSUME ReceiverInv, Survey
    PROVE  ReceiverInv' /\ Progress /\ FilesStay
<1> DEFINE m == rx.manifest
           own  == IF part[m] = 0 THEN Len(bytes) + 1 ELSE part[m]
           old  == IF part[m] = 0 THEN [i \in Index |-> Hole] ELSE bytes[part[m]]
           have == {i \in Index : old[i] = m[i] \/ (target # 0 /\ bytes[target][i] = m[i])}
           new  == [i \in Index |-> IF i \in have THEN m[i] ELSE old[i]]
           next == [rx EXCEPT !.phase = "surveyed", !.missing = Ordered(Index \ have)]
<1>1. /\ At("survey") /\ own \in Inode
      /\ part' = [part EXCEPT ![m] = own]
      /\ bytes' = IF part[m] = 0 THEN Append(bytes, new) ELSE [bytes EXCEPT ![own] = new]
      /\ rx' = IF rx.open THEN next ELSE Listening
      /\ UNCHANGED <<target, journal, intent, kept, archive, published>>
  BY DEF Survey, Done
<1>2. /\ m \in File /\ part[m] \in 0 .. Len(bytes) /\ Len(bytes) \in Nat
      /\ bytes \in Seq(Bytes) /\ part \in [File -> 0 .. Len(bytes)]
  BY Manifest DEF ReceiverInv, DiskInv, DiskTypeOK
<1>3. old \in Bytes /\ m \in Bytes
  <2>1. CASE part[m] = 0
    BY <1>2, <2>1, FileType DEF Bytes
  <2>2. CASE part[m] # 0
    <3>1. part[m] \in 1 .. Len(bytes)
      BY <1>2, <2>2
    <3>2. QED
      BY <1>2, <2>2, <3>1, ElementOfSeq, FileType
  <2>3. QED
    BY <2>1, <2>2
<1>4. new \in Bytes
  <2> HIDE DEF have, old, m
  <2>1. QED
    BY <1>3 DEF Bytes
<1>5. old = m => new = m
  <2> HIDE DEF old, m
  <2>1. QED
    BY <1>3 DEF Bytes
<1>6. Index \ have \in SUBSET Index
  OBVIOUS
<1> HIDE DEF new, have
<1>7. DiskInv' /\ FilesStay
  <2>1. CASE part[m] = 0
    <3>1. /\ bytes' = Append(bytes, new) /\ own = Len(bytes) + 1
          /\ part' = [part EXCEPT ![m] = Len(bytes) + 1]
          /\ Len(bytes) + 1 <= 1 + MaxEdits + MaxParts
      BY <1>1, <2>1, ReceiverAssumption DEF Inode
    <3>2. /\ bytes' \in Seq(Bytes) /\ Len(bytes') = Len(bytes) + 1
          /\ \A j \in 1 .. Len(bytes) : bytes'[j] = bytes[j]
      BY <1>2, <1>4, <3>1, AppendProperties
    <3>3. part' \in [File -> 0 .. Len(bytes')]
      BY <1>2, <3>1, <3>2
    <3>4. PartsDistinct'
      <4>1. \A f \in File : part[f] # Len(bytes) + 1
        BY <1>2
      <4>2. \A f, g \in File : part[f] = part[g] /\ part[f] # 0 => f = g
        BY DEF ReceiverInv, DiskInv, PartsDistinct
      <4>3. \A f \in File : part'[f] = IF f = m THEN Len(bytes) + 1 ELSE part[f]
        BY <1>2, <3>1
      <4>4. QED
        BY <4>1, <4>2, <4>3 DEF PartsDistinct
    <3>5. \A k \in PublicFiles \ {0} : k \in 1 .. Len(bytes)
      BY DEF ReceiverInv, DiskInv, FilesInv
    <3>6. \A k \in PublicFiles \ {0}, f \in File : part'[f] = k => part[f] = k
      BY <1>2, <3>1, <3>5
    <3>7. FilesStay
      BY <3>2, <3>5 DEF FilesStay
    <3>8. Len(bytes) <= Len(bytes') /\ Len(bytes') <= 1 + MaxEdits + MaxParts
      BY <1>2, <3>1, <3>2
    <3>9. UNCHANGED <<target, journal, intent, kept, archive>> /\ DiskInv
      BY <1>1 DEF ReceiverInv
    <3>10. QED
      BY <3>2, <3>3, <3>4, <3>6, <3>7, <3>8, <3>9, DiskWritten
  <2>2. CASE part[m] # 0
    <3>1. /\ part[m] \in 1 .. Len(bytes)
          /\ bytes' = [bytes EXCEPT ![part[m]] = new] /\ part' = part /\ old = bytes[part[m]]
      BY <1>1, <1>2, <2>2
    <3>2. ASSUME part[m] \in PublicFiles PROVE new = bytes[part[m]]
      <4>1. bytes[part[m]] = m
        BY <1>2, <2>2, <3>2 DEF ReceiverInv, DiskInv, FilesInv
      <4>2. QED
        BY <1>5, <3>1, <4>1
    <3>3. UNCHANGED <<target, part, journal, intent, kept, archive>> /\ DiskInv
      BY <1>1, <3>1 DEF ReceiverInv
    <3>4. QED
      BY <1>4, <3>1, <3>2, <3>3, PartWritten
  <2>3. QED
    BY <2>1, <2>2
<1>8. part'[m] # 0
  BY <1>1, <1>2
<1>9. CASE ~rx.open
  BY <1>1, <1>7, <1>9, Refusing DEF Refuse
<1>10. CASE rx.open
  <2>1. Ordered(Index \ have) \in Seq(Index)
    BY <1>6, OrderedType
  <2>2. /\ rx' \in Rx /\ rx'.phase = "surveyed" /\ rx'.open = rx.open
        /\ rx'.manifest = rx.manifest
    BY <1>1, <1>10, <2>1 DEF ReceiverInv, PhaseInv, Rx, Waiting
  <2>3. "surveyed" \notin Checked /\ "surveyed" \in Asking /\ "surveyed" \notin Linked
    BY DEF Checked, Asking, Linked
  <2>4. PhaseInv'
    BY <1>8, <1>10, <2>2, <2>3 DEF PhaseInv, PartPresent, CheckedInv, WaitInv, At, Mine
  <2>5. rx.phase \in Asking
    BY <1>1 DEF At, Asking
  <2>6. QED
    BY <1>1, <1>7, <2>2, <2>3, <2>4, <2>5 DEF ReceiverInv, Progress
<1>11. QED
  BY <1>7, <1>9, <1>10

LEMMA WorkKeeps ==
    ASSUME ReceiverInv, Work
    PROVE  ReceiverInv' /\ Progress
BY RecoverKeeps, DropIntentKeeps, OpenJournalKeeps, WriteJournalKeeps, SurveyKeeps,
   PutKeeps, VerifyKeeps, ArchiveKeeps, RecheckKeeps, CreateIntentKeeps, WriteIntentKeeps,
   DisplaceKeeps, CompareKeeps, LinkKeeps, LinkRefusedKeeps, RemoveIntentKeeps,
   RemovePartKeeps, RemoveJournalKeeps
   DEF Work

-----------------------------------------------------------------------------
(* What applications and the world do to the disk *)

LEMMA ReplaceKeeps ==
    ASSUME ReceiverInv, NEW f \in File, Replace(f)
    PROVE  ReceiverInv'
<1>1. /\ bytes' = Append(bytes, f) /\ target' = Len(bytes) + 1
      /\ Len(bytes) + 1 <= 1 + MaxEdits + MaxParts
      /\ UNCHANGED <<part, journal, intent, kept, archive, rx, published>>
  BY DEF Replace, Inode
<1>2. bytes \in Seq(Bytes) /\ Len(bytes) \in Nat /\ f \in Bytes
  BY LenProperties, FileType DEF ReceiverInv, DiskInv, DiskTypeOK
<1>3. /\ bytes' \in Seq(Bytes) /\ Len(bytes') = Len(bytes) + 1
      /\ \A j \in 1 .. Len(bytes) : bytes'[j] = bytes[j]
      /\ bytes'[Len(bytes) + 1] = f
  BY <1>1, <1>2, AppendProperties
<1>4. PartsDistinct'
  BY <1>1 DEF ReceiverInv, DiskInv, PartsDistinct
<1>5. DiskTypeOK'
  BY <1>1, <1>2, <1>3 DEF ReceiverInv, DiskInv, DiskTypeOK
<1>6. ASSUME NEW k \in PublicFiles' \ {0}
      PROVE  /\ k \in 1 .. Len(bytes') /\ bytes'[k] \in File
             /\ \A g \in File : part'[g] = k => bytes'[k] = g
  <2>1. CASE k = Len(bytes) + 1
    <3>1. \A g \in File : part'[g] # k
      BY <1>1, <1>2, <2>1 DEF ReceiverInv, DiskInv, DiskTypeOK
    <3>2. QED
      BY <1>2, <1>3, <2>1, <3>1
  <2>2. CASE k # Len(bytes) + 1
    <3>1. k \in PublicFiles \ {0}
      BY <1>1, <1>6, <2>2 DEF PublicFiles
    <3>2. /\ k \in 1 .. Len(bytes) /\ bytes[k] \in File
          /\ \A g \in File : part[g] = k => bytes[k] = g
      BY <3>1 DEF ReceiverInv, DiskInv, FilesInv
    <3>3. QED
      BY <1>1, <1>2, <1>3, <3>2
  <2>3. QED
    BY <2>1, <2>2
<1>7. DiskInv'
  BY <1>4, <1>5, <1>6 DEF DiskInv, FilesInv
<1>8. PhaseInv'
  <2>1. rx.manifest \in File /\ part[rx.manifest] \in 0 .. Len(bytes)
    BY Manifest
  <2>2. PartPresent' /\ WaitInv' /\ rx' \in Rx
    BY <1>1 DEF ReceiverInv, PhaseInv, PartPresent, WaitInv, At, Mine
  <2>3. ASSUME rx.phase \in Checked PROVE bytes'[part[rx.manifest]] = rx.manifest
    <3>1. part[rx.manifest] # 0 /\ bytes[part[rx.manifest]] = rx.manifest
      BY <2>3 DEF ReceiverInv, PhaseInv, PartPresent, CheckedInv, Mine, Holding
    <3>2. QED
      BY <1>2, <1>3, <2>1, <3>1
  <2>4. QED
    BY <1>1, <2>2, <2>3 DEF PhaseInv, CheckedInv, Mine
<1>9. QED
  BY <1>1, <1>7, <1>8 DEF ReceiverInv

LEMMA RemoveTargetKeeps ==
    ASSUME ReceiverInv, RemoveTarget
    PROVE  ReceiverInv'
<1>1. DiskInv'
  BY DiskKept DEF RemoveTarget, ReceiverInv, DiskInv, DiskTypeOK, PublicFiles
<1>2. PhaseInv' /\ published' = published
  BY DEF RemoveTarget, ReceiverInv, PhaseInv, PartPresent, CheckedInv, WaitInv, At, Mine
<1>3. QED
  BY <1>1, <1>2 DEF ReceiverInv

(* Damage hits partial data that is no file of applications and that is not
   about to become one. *)
LEMMA DamageKeeps ==
    ASSUME ReceiverInv, NEW f \in File, NEW i \in Index, Damage(f, i)
    PROVE  ReceiverInv' /\ FilesStay
<1> DEFINE k == part[f]
           new == [bytes[k] EXCEPT ![i] = Hole]
<1>1. /\ bytes' = [bytes EXCEPT ![k] = new] /\ k # 0 /\ k \notin PublicFiles
      /\ ~Verifying(f)
      /\ UNCHANGED <<target, part, journal, intent, kept, archive, rx, published>>
  BY DEF Damage, PublicFiles
<1>2. k \in 1 .. Len(bytes) /\ bytes \in Seq(Bytes)
  BY <1>1, Manifest DEF ReceiverInv, DiskInv, DiskTypeOK
<1>3. bytes[k] \in Bytes
  BY <1>2, ElementOfSeq
<1>4. new \in Bytes
  BY <1>3 DEF Bytes
<1> HIDE DEF k, new
<1>5. DiskInv' /\ FilesStay
  BY <1>1, <1>2, <1>4, PartWritten DEF ReceiverInv
<1>6. PhaseInv'
  <2>1. PartPresent' /\ WaitInv' /\ rx' \in Rx
    BY <1>1 DEF ReceiverInv, PhaseInv, PartPresent, WaitInv, At, Mine
  <2>2. ASSUME rx.phase \in Checked PROVE bytes'[part[rx.manifest]] = rx.manifest
    <3>1. part[rx.manifest] # 0 /\ bytes[part[rx.manifest]] = rx.manifest
      BY <2>2 DEF ReceiverInv, PhaseInv, PartPresent, CheckedInv, Mine, Holding
    <3>2. rx.manifest # f
      BY <1>1, <2>2 DEF Verifying, Checked
    <3>3. part[rx.manifest] # k
      BY <3>1, <3>2, Manifest DEF k, ReceiverInv, DiskInv, PartsDistinct
    <3>4. part[rx.manifest] \in 1 .. Len(bytes)
      BY <3>1, Manifest
    <3>5. bytes'[part[rx.manifest]] = bytes[part[rx.manifest]]
      BY <1>1, <1>2, <1>4, <3>3, <3>4, ExceptSeq
    <3>6. QED
      BY <3>1, <3>5
  <2>3. QED
    BY <1>1, <2>1, <2>2 DEF PhaseInv, CheckedInv, Mine
<1>7. QED
  BY <1>1, <1>5, <1>6 DEF ReceiverInv

-----------------------------------------------------------------------------
(* The receiver while the disk is left alone *)

LEMMA DiskSame ==
    ASSUME DiskInv, UNCHANGED disk
    PROVE  DiskInv'
BY DEF disk, DiskInv, DiskTypeOK, PartsDistinct, FilesInv, PublicFiles

LEMMA ReceiverSame ==
    ASSUME ReceiverInv, UNCHANGED <<disk, rx>>, published' \subseteq File
    PROVE  ReceiverInv'
<1>1. DiskInv'
  BY DiskSame DEF ReceiverInv
<1>2. PhaseInv'
  BY DEF ReceiverInv, PhaseInv, PartPresent, CheckedInv, WaitInv, At, Mine, disk
<1>3. QED
  BY <1>1, <1>2 DEF ReceiverInv

LEMMA RestingKeeps ==
    ASSUME ReceiverInv, UNCHANGED <<disk, published>>, rx' = Listening
    PROVE  ReceiverInv' /\ rx'.open = FALSE
<1>1. DiskInv'
  BY DiskSame DEF ReceiverInv
<1>2. QED
  BY <1>1, Resting DEF ReceiverInv

(* A lost connection: the blocking task, if there is one, runs on. *)
LEMMA DroppedKeeps ==
    ASSUME ReceiverInv, UNCHANGED <<disk, published>>, Dropped
    PROVE  ReceiverInv' /\ rx'.open = FALSE
<1>1. CASE rx.phase \in Waiting
  BY <1>1, RestingKeeps DEF Dropped
<1>2. CASE rx.phase \notin Waiting
  <2>1. /\ rx' = [rx EXCEPT !.open = FALSE] /\ rx \in Rx
        /\ UNCHANGED <<bytes, part>>
    BY <1>2 DEF Dropped, ReceiverInv, PhaseInv, disk
  <2>2. /\ rx' \in Rx /\ rx'.phase = rx.phase /\ rx'.open = FALSE
        /\ rx'.manifest = rx.manifest /\ rx'.missing = rx.missing
    BY <2>1 DEF Rx
  <2>3. PhaseInv'
    BY <1>2, <2>1, <2>2 DEF ReceiverInv, PhaseInv, PartPresent, CheckedInv, WaitInv, At, Mine
  <2>4. DiskInv'
    BY DiskSame DEF ReceiverInv
  <2>5. QED
    BY <2>2, <2>3, <2>4 DEF ReceiverInv
<1>3. QED
  BY <1>1, <1>2

(* The receiver, which holds partial data, turns to another phase. *)
LEMMA GoKeeps ==
    ASSUME ReceiverInv, UNCHANGED <<disk, published>>, rx.phase \in Holding, rx.open,
           NEW p \in {"blocks", "put", "verify"}, Go(p), p = "put" => rx.missing # <<>>
    PROVE  /\ ReceiverInv'
           /\ rx'.phase = p /\ rx'.open = rx.open /\ rx'.manifest = rx.manifest
           /\ rx'.missing = rx.missing
<1>1. DiskInv'
  BY DiskSame DEF ReceiverInv
<1>2. /\ p \in Working \cup Waiting /\ p # "listening" /\ p \notin Checked
      /\ p # "stored"
  BY DEF Working, Waiting, Checked
<1>3. part'[rx.manifest] # 0
  BY DEF disk, ReceiverInv, PhaseInv, PartPresent, Mine
<1>4. /\ PhaseInv'
      /\ rx'.phase = p /\ rx'.open = rx.open /\ rx'.manifest = rx.manifest
      /\ rx'.missing = rx.missing
  BY <1>2, <1>3, Going DEF ReceiverInv
<1>5. QED
  BY <1>1, <1>4 DEF ReceiverInv

-----------------------------------------------------------------------------
(* The steps of the connection *)

LEMMA IdleType ==
    /\ Idle \in Tx /\ Idle.phase = "idle" /\ Idle.manifest \in File
    /\ Idle.missing = <<>> /\ Idle.sent = 0 /\ Idle.acked = 0
<1>1. (CHOOSE f \in File : TRUE) \in File /\ <<>> \in Seq(Index)
  BY FileType
<1>2. QED
  BY <1>1 DEF Idle, Tx

LEMMA MessageType ==
    /\ \A f \in File : Message("manifest", f) \in Messages
    /\ \A i \in Index : Message("block", i) \in Messages /\ Message("ack", i) \in Messages
    /\ \A s \in Seq(Index) : Message("missing", s) \in Messages
    /\ Message("commit", 0) \in Messages /\ Message("complete", 0) \in Messages
    /\ \A v : /\ Message("manifest", v).kind = "manifest" /\ Message("block", v).kind = "block"
             /\ Message("ack", v).kind = "ack" /\ Message("missing", v).kind = "missing"
             /\ Message("commit", v).kind = "commit" /\ Message("complete", v).kind = "complete"
             /\ Message("manifest", v).value = v /\ Message("missing", v).value = v
BY DEF Message, Messages

LEMMA OneMessage ==
    ASSUME NEW m \in Messages
    PROVE  /\ <<m>> \in Seq(Messages) /\ Len(<<m>>) = 1 /\ <<m>> # <<>>
           /\ Head(<<m>>) = m /\ Tail(<<m>>) = <<>>
           /\ Append(<<>>, m) = <<m>>
OBVIOUS

(* A connection that is gone. *)
LEMMA ClosedKeeps ==
    ASSUME ConnectionInv, Closed, rx'.open = FALSE, source' \in File,
           budget' \in [{"edits", "sources", "faults", "damage"} -> Nat],
           budget'["damage"] <= budget["damage"]
    PROVE  ConnectionInv'
<1>1. tx' = Idle /\ up' = <<>> /\ down' = <<>>
  BY DEF Closed
<1>2. ConnectionTypeOK'
  <2>1. <<>> \in Seq(Messages) /\ Len(<<>>) = 0 /\ Window \in Nat /\ Capacity \in Nat
    BY TransferAssumption
  <2>2. budget \in [{"edits", "sources", "faults", "damage"} -> Nat] /\ budget["damage"] <= MaxDamage
    BY DEF ConnectionInv, ConnectionTypeOK
  <2>3. budget'["damage"] <= MaxDamage
    BY <2>2, TransferAssumption
  <2>4. QED
    BY <1>1, <2>1, <2>3, IdleType DEF ConnectionTypeOK
<1>3. tx'.phase = "idle"
  BY <1>1, IdleType
<1>4. QED
  BY <1>1, <1>2, <1>3
     DEF ConnectionInv, IdleInv, Quiet, AskedInv, SendingInv, CommittedInv, DoneInv

(* The ends of the streams are sequences of messages, and their lengths
   numbers. *)
LEMMA StreamType ==
    ASSUME Inv
    PROVE  /\ up \in Seq(Messages) /\ down \in Seq(Messages)
           /\ Len(up) \in Nat /\ Len(down) \in Nat
           /\ Len(tx.missing) \in Nat /\ Len(rx.missing) \in Nat
           /\ tx.sent \in Nat /\ tx.acked \in Nat
           /\ tx.missing \in Seq(Index) /\ rx.missing \in Seq(Index)
           /\ Window \in Nat \ {0} /\ Capacity \in Nat \ {0}
           /\ tx \in Tx /\ tx.manifest \in File
<1>1. up \in Seq(Messages) /\ down \in Seq(Messages) /\ tx \in Tx
  BY DEF Inv, ConnectionInv, ConnectionTypeOK
<1>2. rx.missing \in Seq(Index)
  BY Manifest DEF Inv
<1>3. /\ tx.missing \in Seq(Index) /\ tx.sent \in Nat /\ tx.acked \in Nat
      /\ tx.manifest \in File
  BY <1>1 DEF Tx
<1>4. QED
  BY <1>1, <1>2, <1>3, LenProperties, TransferAssumption

LEMMA StartKeeps ==
    ASSUME Inv, Start
    PROVE  Inv'
<1>1. Quiet
  BY DEF Start, Inv, ConnectionInv, IdleInv, DoneInv
<1>2. /\ tx' = [Idle EXCEPT !.phase = "asked", !.manifest = source]
      /\ up' = <<Message("manifest", source)>> /\ down' = <<>>
      /\ UNCHANGED <<disk, rx, source, budget>> /\ published' \subseteq published
      /\ source \in File
  BY <1>1 DEF Start, Quiet, Inv, ConnectionInv, ConnectionTypeOK
<1>3. /\ tx' \in Tx /\ tx'.phase = "asked" /\ tx'.manifest = source
      /\ tx'.missing = <<>> /\ tx'.sent = 0 /\ tx'.acked = 0
  BY <1>2, IdleType DEF Tx
<1>4. ReceiverInv'
  BY <1>2, ReceiverSame DEF Inv, ReceiverInv
<1>5. ConnectionTypeOK'
  <2>1. /\ up' \in Seq(Messages) /\ Len(up') = 1
        /\ down' \in Seq(Messages) /\ Len(down') = 0
    BY <1>2, MessageType, OneMessage
  <2>2. Len(tx'.missing) = 0
    BY <1>3
  <2>3. QED
    BY <1>2, <1>3, <2>1, <2>2, TransferAssumption DEF Inv, ConnectionInv, ConnectionTypeOK
<1>6. Announced'
  BY <1>1, <1>2, <1>3 DEF Announced, Quiet
<1>7. QED
  BY <1>3, <1>4, <1>5, <1>6
     DEF Inv, ConnectionInv, IdleInv, AskedInv, SendingInv, CommittedInv, DoneInv

LEMMA RequestedKeeps ==
    ASSUME Inv, Requested
    PROVE  Inv'
<1> DEFINE m == Message("missing", rx.missing)
<1>1. /\ rx.open /\ rx.manifest = tx.manifest /\ up = <<>> /\ At("blocks")
      /\ down = <<m>>
  <2>1. Announced \/ Answering
    BY DEF Requested, Inv, ConnectionInv, AskedInv
  <2>2. down # <<>>
    BY DEF Requested, Reads
  <2>3. QED
    BY <2>1, <2>2 DEF Announced, Answering
<1>2. m \in Messages /\ m.value = rx.missing
  BY StreamType, MessageType
<1> HIDE DEF m
<1>3. Head(down) = m /\ Tail(down) = <<>>
  BY <1>1, <1>2, OneMessage
<1>4. /\ tx' = [tx EXCEPT !.phase = "sending", !.missing = rx.missing] /\ down' = <<>>
      /\ UNCHANGED <<disk, rx, published, source, up, budget>>
  BY <1>2, <1>3 DEF Requested, receiverVars
<1>5. /\ tx' \in Tx /\ tx'.phase = "sending" /\ tx'.missing = rx.missing
      /\ tx'.manifest = tx.manifest /\ tx'.sent = tx.sent /\ tx'.acked = tx.acked
  BY <1>4, StreamType DEF Tx
<1>6. ReceiverInv'
  BY <1>4, ReceiverSame DEF Inv, ReceiverInv
<1>7. tx.sent = 0 /\ tx.acked = 0 /\ Len(up) = 0
  <2>1. tx.sent = 0 /\ tx.acked = 0
    BY DEF Requested, Inv, ConnectionInv, AskedInv
  <2>2. QED
    BY <1>1, <2>1
<1>8. ConnectionTypeOK'
  <2>1. down' \in Seq(Messages) /\ Len(down') = 0
    BY <1>4
  <2>2. Len(tx'.missing) \in Nat
    BY <1>5, StreamType
  <2>3. QED
    BY <1>4, <1>5, <1>7, <2>1, <2>2, TransferAssumption DEF Inv, ConnectionInv, ConnectionTypeOK
<1>9. Blocking'
  <2>1. Through' = 0 /\ Len(rx'.missing) <= Len(tx'.missing)
    BY <1>4, <1>5, StreamType DEF Through
  <2>2. Len(down') = 0 /\ Len(up') = 0
    BY <1>4, <1>7
  <2>3. rx' = rx /\ rx.phase = "blocks" /\ rx.phase \in Storing
    BY <1>1, <1>4 DEF At, Storing
  <2>4. \A k \in 1 .. Len(rx'.missing) : rx'.missing[k] = tx'.missing[Through' + k]
    BY <1>5, <2>1, <2>3
  <2>5. QED
    BY <1>1, <1>5, <1>7, <2>1, <2>2, <2>3, <2>4 DEF Blocking, At
<1>10. QED
  BY <1>5, <1>6, <1>8, <1>9
     DEF Inv, ConnectionInv, IdleInv, AskedInv, SendingInv, CommittedInv, DoneInv

(* A sending sender, whose counters and the stream agree. *)
LEMMA SendingStep ==
    ASSUME Inv, tx.phase = "sending"
    PROVE  /\ Blocking /\ Through \in Nat /\ Through <= Len(tx.missing)
           /\ tx.acked <= Through /\ Through <= tx.sent
           /\ Len(down) = Through - tx.acked
           /\ Len(up) + (IF At("blocks") THEN 0 ELSE 1) = tx.sent - Through
           /\ ~At("blocks") => Through < tx.sent
           /\ Len(rx.missing) = Len(tx.missing) - Through
<1>1. Blocking
  BY DEF Inv, ConnectionInv, SendingInv
<1>2. /\ Len(up) \in Nat /\ Len(down) \in Nat
      /\ Len(tx.missing) \in Nat /\ Len(rx.missing) \in Nat
      /\ tx.sent \in Nat /\ tx.acked \in Nat
  BY StreamType
<1>3. /\ Len(rx.missing) <= Len(tx.missing) /\ Len(down) = Through - tx.acked
      /\ Len(up) + (IF At("blocks") THEN 0 ELSE 1) = tx.sent - Through
  BY <1>1 DEF Blocking
<1>4. /\ Through \in Nat /\ Through <= Len(tx.missing)
      /\ Len(rx.missing) = Len(tx.missing) - Through
  <2> DEFINE a == Len(tx.missing)
             b == Len(rx.missing)
  <2>1. Through = a - b
    BY DEF Through
  <2>2. a \in Nat /\ b \in Nat /\ b <= a
    BY <1>2, <1>3
  <2> HIDE DEF a, b
  <2>3. Through \in Nat /\ Through <= a /\ b = a - Through
    BY <2>1, <2>2
  <2>4. QED
    BY <2>3 DEF a, b
<1>5. tx.acked <= Through
  BY <1>2, <1>3, <1>4
<1>6. CASE At("blocks")
  <2>1. Len(up) + 0 = tx.sent - Through
    BY <1>3, <1>6
  <2>2. QED
    BY <1>1, <1>2, <1>3, <1>4, <1>5, <1>6, <2>1
<1>7. CASE ~At("blocks")
  <2>1. Len(up) + 1 = tx.sent - Through
    BY <1>3, <1>7
  <2>2. Through < tx.sent
    BY <1>2, <1>4, <2>1
  <2>3. QED
    BY <1>1, <1>2, <1>3, <1>4, <1>5, <2>2
<1>8. QED
  BY <1>6, <1>7

LEMMA SendBlockKeeps ==
    ASSUME Inv, SendBlock
    PROVE  Inv'
<1> DEFINE i == tx.missing[tx.sent + 1]
           m == Message("block", i)
<1>1. /\ tx.phase = "sending" /\ tx.sent < Len(tx.missing) /\ tx.sent - tx.acked < Window
      /\ Len(up) < Capacity /\ up' = Append(up, m)
      /\ tx' = [tx EXCEPT !.sent = @ + 1]
      /\ UNCHANGED <<disk, rx, published, source, down, budget>>
  BY DEF SendBlock, WindowOpen, Room, receiverVars
<1>2. /\ tx' \in Tx /\ tx'.phase = "sending" /\ tx'.missing = tx.missing
      /\ tx'.manifest = tx.manifest /\ tx'.sent = tx.sent + 1 /\ tx'.acked = tx.acked
  <2>1. tx \in Tx /\ tx.sent + 1 \in Nat
    BY StreamType
  <2>2. tx' = [tx EXCEPT !.sent = tx.sent + 1]
    BY <1>1
  <2>3. tx.phase = "sending"
    BY <1>1
  <2>4. QED
    BY <2>1, <2>2, <2>3 DEF Tx
<1>3. i \in Index
  <2>1. tx.sent + 1 \in 1 .. Len(tx.missing)
    BY <1>1, StreamType
  <2>2. QED
    BY <2>1, StreamType, ElementOfSeq
<1>4. m \in Messages /\ m.kind = "block"
  BY <1>3, MessageType
<1> HIDE DEF i, m
<1>5. /\ up' \in Seq(Messages) /\ Len(up') = Len(up) + 1
      /\ \A k \in 1 .. Len(up) : up'[k] = up[k]
      /\ up'[Len(up) + 1] = m
  BY <1>1, <1>4, StreamType, AppendProperties
<1>6. ReceiverInv'
  BY <1>1, ReceiverSame DEF Inv, ReceiverInv
<1>7. ConnectionTypeOK'
  <2>1. tx'.acked <= tx'.sent /\ tx'.sent <= Len(tx'.missing) /\ tx'.sent - tx'.acked <= Window
        /\ Len(up') <= Capacity
    <3>1. tx.acked <= tx.sent
      BY DEF Inv, ConnectionInv, ConnectionTypeOK
    <3>2. QED
      BY <1>1, <1>2, <1>5, <3>1, StreamType
  <2>2. QED
    BY <1>1, <1>2, <1>5, <2>1 DEF Inv, ConnectionInv, ConnectionTypeOK
<1>8. Blocking'
  <2>1. Blocking /\ Through' = Through /\ Through \in Nat
    BY <1>1, <1>2, SendingStep DEF Through
  <2>2. Len(up') + (IF At("blocks") THEN 0 ELSE 1) = tx'.sent - Through
    <3>1. /\ Len(up) + (IF At("blocks") THEN 0 ELSE 1) = tx.sent - Through
          /\ Len(up) \in Nat /\ tx.sent \in Nat
      BY <1>1, SendingStep, StreamType
    <3>2. Len(up') = Len(up) + 1 /\ tx'.sent = tx.sent + 1
      BY <1>2, <1>5
    <3>3. CASE At("blocks")
      BY <2>1, <3>1, <3>2, <3>3
    <3>4. CASE ~At("blocks")
      BY <2>1, <3>1, <3>2, <3>4
    <3>5. QED
      BY <3>3, <3>4
  <2>3. ASSUME NEW k \in 1 .. Len(up') PROVE up'[k].kind = "block"
    <3>1. Len(up) \in Nat
      BY StreamType
    <3>2. CASE k = Len(up) + 1
      BY <1>4, <1>5, <3>2
    <3>3. CASE k # Len(up) + 1
      <4>1. k \in 1 .. Len(up)
        BY <1>5, <3>1, <3>3
      <4>2. QED
        BY <1>5, <2>1, <4>1 DEF Blocking
    <3>4. QED
      BY <3>2, <3>3
  <2>4. QED
    BY <1>1, <1>2, <2>1, <2>2, <2>3 DEF Blocking, At
<1>9. QED
  BY <1>2, <1>6, <1>7, <1>8
     DEF Inv, ConnectionInv, IdleInv, AskedInv, SendingInv, CommittedInv, DoneInv

LEMMA AcknowledgedKeeps ==
    ASSUME Inv, Acknowledged
    PROVE  Inv'
<1>1. /\ tx.phase = "sending" /\ down # <<>> /\ down' = Tail(down)
      /\ tx' = [tx EXCEPT !.acked = @ + 1]
      /\ UNCHANGED <<disk, rx, published, source, up, budget>>
  BY DEF Acknowledged, Reads, receiverVars
<1>2. /\ tx' \in Tx /\ tx'.phase = "sending" /\ tx'.missing = tx.missing
      /\ tx'.manifest = tx.manifest /\ tx'.sent = tx.sent /\ tx'.acked = tx.acked + 1
  <2>1. tx \in Tx /\ tx.acked + 1 \in Nat
    BY StreamType
  <2>2. tx' = [tx EXCEPT !.acked = tx.acked + 1]
    BY <1>1
  <2>3. tx.phase = "sending"
    BY <1>1
  <2>4. QED
    BY <2>1, <2>2, <2>3 DEF Tx
<1>3. /\ down' \in Seq(Messages) /\ Len(down') = Len(down) - 1 /\ Len(down) # 0
  <2>1. Len(down) # 0
    BY <1>1, StreamType, EmptySeq
  <2>2. QED
    BY <1>1, <2>1, StreamType, HeadTailProperties
<1>4. ReceiverInv'
  BY <1>1, ReceiverSame DEF Inv, ReceiverInv
<1>5. /\ Blocking /\ Through' = Through /\ Through \in Nat /\ Through <= tx.sent
      /\ Len(down) = Through - tx.acked
  BY <1>1, <1>2, SendingStep DEF Through, Blocking
<1>6. ConnectionTypeOK'
  <2>1. tx'.acked <= tx'.sent /\ tx'.sent <= Len(tx'.missing) /\ tx'.sent - tx'.acked <= Window
        /\ Len(down') <= Capacity
    <3>1. /\ tx.sent <= Len(tx.missing) /\ tx.sent - tx.acked <= Window
          /\ Len(down) <= Capacity
      BY DEF Inv, ConnectionInv, ConnectionTypeOK
    <3>2. /\ tx.acked \in Nat /\ tx.sent \in Nat /\ Len(down) \in Nat
          /\ Capacity \in Nat /\ Window \in Nat
      BY StreamType
    <3>3. tx.acked + 1 <= tx.sent
      BY <1>3, <1>5, <3>2
    <3>4. Len(down') <= Capacity
      BY <1>3, <3>1, <3>2
    <3>5. tx.sent - (tx.acked + 1) <= Window
      BY <3>1, <3>2
    <3>6. QED
      BY <1>2, <3>1, <3>3, <3>4, <3>5
  <2>2. QED
    BY <1>1, <1>2, <1>3, <2>1 DEF Inv, ConnectionInv, ConnectionTypeOK
<1>7. Blocking'
  <2>1. Len(down') = Through - tx'.acked
    BY <1>2, <1>3, <1>5, StreamType
  <2>2. QED
    BY <1>1, <1>2, <1>5, <2>1 DEF Blocking, At
<1>8. QED
  BY <1>2, <1>4, <1>6, <1>7
     DEF Inv, ConnectionInv, IdleInv, AskedInv, SendingInv, CommittedInv, DoneInv

(* When everything is acknowledged, both streams are empty. *)
LEMMA SendCommitKeeps ==
    ASSUME Inv, SendCommit
    PROVE  Inv'
<1>1. /\ tx.phase = "sending" /\ tx.acked = Len(tx.missing)
      /\ up' = Append(up, Message("commit", 0))
      /\ tx' = [tx EXCEPT !.phase = "committed"]
      /\ UNCHANGED <<disk, rx, published, source, down, budget>>
  BY DEF SendCommit, receiverVars
<1>2. /\ tx' \in Tx /\ tx'.phase = "committed" /\ tx'.missing = tx.missing
      /\ tx'.manifest = tx.manifest /\ tx'.sent = tx.sent /\ tx'.acked = tx.acked
  BY <1>1, StreamType DEF Tx
<1>3. /\ Len(down) = 0 /\ Len(up) = 0 /\ Len(rx.missing) = 0 /\ At("blocks") /\ Blocking
  <2>1. tx.sent <= Len(tx.missing)
    BY DEF Inv, ConnectionInv, ConnectionTypeOK
  <2>2. /\ tx.sent \in Nat /\ Len(tx.missing) \in Nat /\ Through \in Nat
        /\ tx.acked <= Through /\ Through <= tx.sent
        /\ Len(down) = Through - tx.acked
        /\ Len(up) + (IF At("blocks") THEN 0 ELSE 1) = tx.sent - Through
        /\ ~At("blocks") => Through < tx.sent
        /\ Len(rx.missing) = Len(tx.missing) - Through /\ Blocking
        /\ Len(up) \in Nat
    BY <1>1, SendingStep, StreamType
  <2>3. Through = Len(tx.missing) /\ Through = tx.sent
    BY <1>1, <2>1, <2>2
  <2>4. At("blocks")
    BY <2>2, <2>3
  <2>5. QED
    BY <1>1, <2>2, <2>3, <2>4
<1>4. down = <<>> /\ up = <<>> /\ rx.missing = <<>>
  BY <1>3, StreamType, EmptySeq
<1>5. up' = <<Message("commit", 0)>> /\ up' \in Seq(Messages) /\ Len(up') = 1
  BY <1>1, <1>4, MessageType, OneMessage
<1>6. ReceiverInv'
  BY <1>1, ReceiverSame DEF Inv, ReceiverInv
<1>7. ConnectionTypeOK'
  BY <1>1, <1>2, <1>5, TransferAssumption DEF Inv, ConnectionInv, ConnectionTypeOK
<1>8. Committing'
  <2>1. rx.phase \notin Linked
    BY <1>3 DEF At, Linked
  <2>2. QED
    BY <1>1, <1>2, <1>3, <1>4, <1>5, <2>1 DEF Committing, Blocking, At
<1>9. QED
  BY <1>2, <1>6, <1>7, <1>8
     DEF Inv, ConnectionInv, IdleInv, AskedInv, SendingInv, CommittedInv, DoneInv

LEMMA SourceChangedKeeps ==
    ASSUME Inv, SourceChanged
    PROVE  Inv'
<1>1. Closed /\ Dropped /\ UNCHANGED <<disk, published, source, budget>>
  BY DEF SourceChanged
<1>2. ReceiverInv' /\ rx'.open = FALSE
  BY <1>1, DroppedKeeps DEF Inv
<1>3. /\ source' \in File /\ budget' \in [{"edits", "sources", "faults", "damage"} -> Nat]
      /\ budget'["damage"] <= budget["damage"]
  BY <1>1 DEF Inv, ConnectionInv, ConnectionTypeOK
<1>4. QED
  BY <1>1, <1>2, <1>3, ClosedKeeps DEF Inv

LEMMA CompletedKeeps ==
    ASSUME Inv, Completed
    PROVE  Inv'
<1>1. down # <<>> /\ tx.phase = "committed" /\ down' = Tail(down)
      /\ tx' = [tx EXCEPT !.phase = "done"]
      /\ UNCHANGED <<disk, rx, published, source, up, budget>>
  BY DEF Completed, Reads, receiverVars
<1>2. Answered
  BY <1>1 DEF Inv, ConnectionInv, CommittedInv, Committing
<1>3. /\ tx' \in Tx /\ tx'.phase = "done" /\ tx'.missing = tx.missing
      /\ tx'.manifest = tx.manifest /\ tx'.sent = tx.sent /\ tx'.acked = tx.acked
  BY <1>1, StreamType DEF Tx
<1>4. down' = <<>> /\ down' \in Seq(Messages) /\ Len(down') = 0
  BY <1>1, <1>2, MessageType, OneMessage DEF Answered
<1>5. ReceiverInv'
  BY <1>1, ReceiverSame DEF Inv, ReceiverInv
<1>6. ConnectionTypeOK'
  BY <1>1, <1>3, <1>4, TransferAssumption DEF Inv, ConnectionInv, ConnectionTypeOK
<1>7. Quiet' /\ (tx.manifest \in published)'
  BY <1>1, <1>2, <1>3, <1>4 DEF Quiet, Answered
<1>8. QED
  BY <1>3, <1>5, <1>6, <1>7
     DEF Inv, ConnectionInv, IdleInv, AskedInv, SendingInv, CommittedInv, DoneInv

LEMMA AcceptKeeps ==
    ASSUME Inv, Accept
    PROVE  Inv'
<1>1. /\ rx.phase = "listening" /\ up # <<>> /\ Head(up).kind = "manifest"
      /\ rx' = [Listening EXCEPT !.phase = "recover", !.open = TRUE,
                                 !.manifest = Head(up).value]
      /\ up' = Tail(up)
      /\ UNCHANGED <<disk, published, source, tx, down, budget>>
  BY DEF Accept, At, Reads
<1>2. ~rx.open
  BY <1>1 DEF Inv, ReceiverInv, PhaseInv, WaitInv, At
<1>3. tx.phase = "asked" /\ Announced
  <2>1. tx.phase \in {"idle", "asked", "sending", "committed", "done"}
    BY StreamType DEF Tx
  <2>2. tx.phase # "idle" /\ tx.phase # "done"
    BY <1>1 DEF Inv, ConnectionInv, IdleInv, DoneInv, Quiet
  <2>3. tx.phase # "sending"
    BY <1>2 DEF Inv, ConnectionInv, SendingInv, Blocking
  <2>4. tx.phase # "committed"
    BY <1>1, <1>2 DEF Inv, ConnectionInv, CommittedInv, Committing, Answered
  <2>5. tx.phase = "asked"
    BY <2>1, <2>2, <2>3, <2>4
  <2>6. QED
    BY <1>2, <2>5 DEF Inv, ConnectionInv, AskedInv, Answering
<1>4. /\ Head(up).value = tx.manifest /\ up' = <<>> /\ up' \in Seq(Messages) /\ Len(up') = 0
  <2>1. Message("manifest", tx.manifest) \in Messages
        /\ Message("manifest", tx.manifest).value = tx.manifest
    BY StreamType, MessageType
  <2>2. QED
    BY <1>1, <1>3, <2>1, OneMessage DEF Announced
<1>5. /\ rx' \in Rx /\ rx'.phase = "recover" /\ rx'.open = TRUE /\ rx'.manifest = tx.manifest
  <2>1. tx.manifest \in File /\ "recover" \in Working \cup Waiting
    BY StreamType DEF Working
  <2>2. QED
    BY <1>1, <1>4, <2>1, ListeningType DEF Rx
<1>6. ReceiverInv'
  <2>1. "recover" \notin Holding /\ "recover" \notin Checked /\ "recover" \notin Waiting
    BY DEF Holding, Storing, Checked, Waiting
  <2>2. PhaseInv'
    BY <1>5, <2>1 DEF PhaseInv, PartPresent, CheckedInv, WaitInv, At
  <2>3. DiskInv'
    BY <1>1, DiskSame DEF Inv, ReceiverInv
  <2>4. QED
    BY <1>1, <2>2, <2>3 DEF Inv, ReceiverInv
<1>7. ConnectionTypeOK'
  BY <1>1, <1>4, TransferAssumption DEF Inv, ConnectionInv, ConnectionTypeOK
<1>8. Answering'
  BY <1>1, <1>3, <1>4, <1>5 DEF Answering, Announced, Asking, At
<1>9. tx.sent = 0 /\ tx.acked = 0
  BY <1>3 DEF Inv, ConnectionInv, AskedInv
<1>10. QED
  BY <1>1, <1>3, <1>6, <1>7, <1>8, <1>9
     DEF Inv, ConnectionInv, IdleInv, AskedInv, SendingInv, CommittedInv, DoneInv

(* While the receiver waits for the connection, the sender is in the phase
   that the receiver's is an answer to. *)
LEMMA WhoWaits ==
    ASSUME Inv, rx.open
    PROVE  /\ tx.phase \in {"asked", "sending", "committed"}
           /\ tx.phase = "asked" => Answering
           /\ tx.phase = "sending" => Blocking
           /\ tx.phase = "committed" => Committing
<1>1. tx.phase \in {"idle", "asked", "sending", "committed", "done"}
  BY StreamType DEF Tx
<1>2. tx.phase # "idle" /\ tx.phase # "done"
  BY DEF Inv, ConnectionInv, IdleInv, DoneInv, Quiet
<1>3. QED
  BY <1>1, <1>2
     DEF Inv, ConnectionInv, AskedInv, SendingInv, CommittedInv, Announced, Answered

LEMMA SendMissingKeeps ==
    ASSUME Inv, SendMissing
    PROVE  Inv'
<1> DEFINE m == Message("missing", rx.missing)
<1>1. /\ rx.phase = "surveyed" /\ down' = Append(down, m) /\ Go("blocks")
      /\ UNCHANGED <<disk, published, source, tx, up, budget>>
  BY DEF SendMissing, At
<1>2. rx.open /\ rx.phase \in Holding
  BY <1>1 DEF Inv, ReceiverInv, PhaseInv, WaitInv, Waiting, Holding
<1>3. /\ ReceiverInv' /\ rx'.phase = "blocks" /\ rx'.open = rx.open
      /\ rx'.manifest = rx.manifest /\ rx'.missing = rx.missing
  BY <1>1, <1>2, GoKeeps DEF Inv
<1>4. tx.phase = "asked" /\ Answering /\ down = <<>>
  BY <1>1, <1>2, WhoWaits
     DEF Answering, Blocking, Committing, Asking, Storing, Installing, Checked, Linked, At
<1>5. m \in Messages
  BY StreamType, MessageType
<1> HIDE DEF m
<1>6. down' = <<m>> /\ down' \in Seq(Messages) /\ Len(down') = 1
  BY <1>1, <1>4, <1>5, OneMessage
<1>7. ConnectionTypeOK'
  BY <1>1, <1>6, TransferAssumption DEF Inv, ConnectionInv, ConnectionTypeOK
<1>8. Answering'
  BY <1>1, <1>2, <1>3, <1>4, <1>6 DEF Answering, At, m
<1>9. tx.sent = 0 /\ tx.acked = 0
  BY <1>4 DEF Inv, ConnectionInv, AskedInv
<1>10. QED
  BY <1>1, <1>3, <1>4, <1>7, <1>8, <1>9
     DEF Inv, ConnectionInv, IdleInv, AskedInv, SendingInv, CommittedInv, DoneInv

LEMMA ReceiveBlockKeeps ==
    ASSUME Inv, ReceiveBlock
    PROVE  Inv'
<1>1. /\ rx.phase = "blocks" /\ rx.missing # <<>> /\ up # <<>> /\ Head(up).kind = "block"
      /\ up' = Tail(up) /\ Go("put")
      /\ UNCHANGED <<disk, published, source, tx, down, budget>>
  BY DEF ReceiveBlock, At, Reads
<1>2. rx.open /\ rx.phase \in Holding
  BY <1>1 DEF Inv, ReceiverInv, PhaseInv, WaitInv, Waiting, Holding, Storing
<1>3. /\ ReceiverInv' /\ rx'.phase = "put" /\ rx'.open = rx.open
      /\ rx'.manifest = rx.manifest /\ rx'.missing = rx.missing
  BY <1>1, <1>2, GoKeeps DEF Inv
<1>4. tx.phase = "sending" /\ Blocking
  <2>1. tx.phase # "asked"
    BY <1>1, <1>2, WhoWaits DEF Answering
  <2>2. tx.phase # "committed"
    BY <1>1, <1>2, WhoWaits DEF Committing, Installing, Checked, Linked, At
  <2>3. QED
    BY <1>2, <2>1, <2>2, WhoWaits
<1>5. /\ up' \in Seq(Messages) /\ Len(up') = Len(up) - 1 /\ Len(up) \in Nat /\ Len(up) # 0
      /\ \A k \in 1 .. Len(up') : up'[k] = up[k + 1]
  BY <1>1, StreamType, HeadTailProperties, EmptySeq
<1>6. ConnectionTypeOK'
  <2>1. Len(up') <= Capacity
    BY <1>5, TransferAssumption DEF Inv, ConnectionInv, ConnectionTypeOK
  <2>2. QED
    BY <1>1, <1>5, <2>1 DEF Inv, ConnectionInv, ConnectionTypeOK
<1>7. Blocking'
  <2>1. Through' = Through /\ Through \in Nat
    BY <1>1, <1>3, <1>4, SendingStep DEF Through
  <2>2. Len(up') + 1 = tx.sent - Through
    <3>1. Len(up) + (IF At("blocks") THEN 0 ELSE 1) = tx.sent - Through
      BY <1>4 DEF Blocking
    <3>2. Len(up) + 0 = tx.sent - Through
      BY <1>1, <3>1 DEF At
    <3>3. QED
      BY <1>5, <2>1, <3>2, StreamType
  <2>3. \A k \in 1 .. Len(up') : up'[k].kind = "block"
    BY <1>4, <1>5 DEF Blocking
  <2>4. rx'.phase \in Storing
    BY <1>3 DEF Storing
  <2>5. QED
    BY <1>1, <1>3, <1>4, <2>1, <2>2, <2>3, <2>4 DEF Blocking, At
<1>8. QED
  BY <1>1, <1>3, <1>4, <1>6, <1>7
     DEF Inv, ConnectionInv, IdleInv, AskedInv, SendingInv, CommittedInv, DoneInv

LEMMA SendAckKeeps ==
    ASSUME Inv, SendAck
    PROVE  Inv'
<1> DEFINE m == Message("ack", Head(rx.missing))
<1>1. /\ rx.phase = "stored" /\ down' = Append(down, m) /\ Len(down) < Capacity
      /\ rx' = [rx EXCEPT !.phase = "blocks", !.missing = Tail(@)]
      /\ UNCHANGED <<disk, published, source, tx, up, budget>>
  BY DEF SendAck, At, Room
<1>2. rx.open /\ rx.phase \in Holding /\ rx.missing # <<>>
  BY <1>1 DEF Inv, ReceiverInv, PhaseInv, WaitInv, Waiting, Holding, Storing
<1>3. tx.phase = "sending" /\ Blocking
  BY <1>1, <1>2, WhoWaits
     DEF Answering, Committing, Asking, Installing, Checked, Linked, At
<1>4. /\ Head(rx.missing) \in Index /\ Tail(rx.missing) \in Seq(Index)
      /\ Len(Tail(rx.missing)) = Len(rx.missing) - 1
      /\ \A k \in 1 .. Len(Tail(rx.missing)) : Tail(rx.missing)[k] = rx.missing[k + 1]
  BY <1>2, StreamType, HeadTailProperties
<1>5. /\ rx' \in Rx /\ rx'.phase = "blocks" /\ rx'.open = rx.open
      /\ rx'.manifest = rx.manifest /\ rx'.missing = Tail(rx.missing)
  <2>1. rx \in Rx /\ "blocks" \in Working \cup Waiting
    BY DEF Inv, ReceiverInv, PhaseInv, Waiting
  <2>2. QED
    BY <1>1, <1>4, <2>1 DEF Rx
<1>6. m \in Messages
  BY <1>4, MessageType
<1> HIDE DEF m
<1>7. down' \in Seq(Messages) /\ Len(down') = Len(down) + 1
  BY <1>1, <1>6, StreamType, AppendProperties
<1>8. ReceiverInv'
  <2>1. "blocks" \notin Checked
    BY DEF Checked
  <2>2. part'[rx.manifest] # 0
    BY <1>1, <1>2 DEF disk, Inv, ReceiverInv, PhaseInv, PartPresent, Mine
  <2>3. PhaseInv'
    BY <1>2, <1>5, <2>1, <2>2 DEF PhaseInv, PartPresent, CheckedInv, WaitInv, At, Mine
  <2>4. DiskInv'
    BY <1>1, DiskSame DEF Inv, ReceiverInv
  <2>5. QED
    BY <1>1, <2>3, <2>4 DEF Inv, ReceiverInv
<1>9. ConnectionTypeOK'
  <2>1. Len(down') <= Capacity
    BY <1>1, <1>7, StreamType
  <2>2. QED
    BY <1>1, <1>7, <2>1 DEF Inv, ConnectionInv, ConnectionTypeOK
<1>10. Blocking'
  <2> DEFINE a == Len(tx.missing)
             b == Len(rx.missing)
  <2>1. Through = a - b /\ a \in Nat /\ b \in Nat /\ b <= a /\ b # 0
    BY <1>2, <1>3, StreamType, EmptySeq DEF Through, Blocking
  <2>2. Through' = a - (b - 1) /\ Len(rx'.missing) = b - 1 /\ Len(tx'.missing) = a
    BY <1>1, <1>4, <1>5 DEF Through
  <2>3. /\ \A k \in 1 .. b : rx.missing[k] = tx.missing[Through + k]
        /\ Len(down) = Through - tx.acked
        /\ Len(up) + 1 = tx.sent - Through
    <3>1. Len(up) + (IF At("blocks") THEN 0 ELSE 1) = tx.sent - Through
      BY <1>3 DEF Blocking
    <3>2. ~At("blocks")
      BY <1>1 DEF At
    <3>3. QED
      BY <1>3, <3>1, <3>2 DEF Blocking
  <2> HIDE DEF a, b
  <2>4. Through' = Through + 1 /\ Through \in Nat /\ Len(rx'.missing) <= Len(tx'.missing)
    BY <2>1, <2>2
  <2>5. ASSUME NEW k \in 1 .. Len(rx'.missing)
        PROVE  rx'.missing[k] = tx'.missing[Through' + k]
    <3>1. k \in Nat /\ k + 1 \in 1 .. b /\ k \in 1 .. Len(Tail(rx.missing))
      BY <1>5, <2>1, <2>2
    <3>2. rx'.missing[k] = rx.missing[k + 1]
      BY <1>4, <1>5, <3>1
    <3>3. Through + (k + 1) = Through' + k
      BY <2>4, <3>1
    <3>4. QED
      BY <1>1, <2>3, <3>1, <3>2, <3>3
  <2>6. Len(down') = Through' - tx'.acked
    <3>1. tx.acked \in Nat /\ tx'.acked = tx.acked /\ Len(down) \in Nat
      BY <1>1, StreamType
    <3>2. Len(down') = Len(down) + 1 /\ Len(down) = Through - tx.acked
      BY <1>7, <2>3
    <3>3. QED
      BY <2>4, <3>1, <3>2
  <2>7. Len(up') + 0 = tx'.sent - Through'
    <3>1. tx.sent \in Nat /\ tx'.sent = tx.sent /\ Len(up) \in Nat /\ up' = up
      BY <1>1, StreamType
    <3>2. Len(up) + 1 = tx.sent - Through
      BY <2>3
    <3>3. QED
      BY <2>4, <3>1, <3>2
  <2>8. At("blocks")' /\ rx'.phase \in Storing
    BY <1>5 DEF At, Storing
  <2>9. Len(up') + (IF At("blocks")' THEN 0 ELSE 1) = tx'.sent - Through'
    BY <2>7, <2>8
  <2>10. /\ rx'.open /\ rx'.manifest = tx'.manifest
         /\ \A k \in 1 .. Len(up') : up'[k].kind = "block"
    BY <1>1, <1>3, <1>5 DEF Blocking
  <2>11. QED
    BY <2>4, <2>5, <2>6, <2>8, <2>9, <2>10 DEF Blocking
<1>11. QED
  BY <1>1, <1>3, <1>8, <1>9, <1>10
     DEF Inv, ConnectionInv, IdleInv, AskedInv, SendingInv, CommittedInv, DoneInv

LEMMA ReceiveCommitKeeps ==
    ASSUME Inv, ReceiveCommit
    PROVE  Inv'
<1>1. /\ rx.phase = "blocks" /\ up # <<>> /\ Head(up).kind = "commit"
      /\ up' = Tail(up) /\ Go("verify")
      /\ UNCHANGED <<disk, published, source, tx, down, budget>>
  BY DEF ReceiveCommit, At, Reads
<1>2. rx.open /\ rx.phase \in Holding
  BY <1>1 DEF Inv, ReceiverInv, PhaseInv, WaitInv, Waiting, Holding, Storing
<1>3. /\ ReceiverInv' /\ rx'.phase = "verify" /\ rx'.open = rx.open
      /\ rx'.manifest = rx.manifest /\ rx'.missing = rx.missing
  BY <1>1, <1>2, GoKeeps DEF Inv
<1>4. tx.phase = "committed" /\ Committing
  <2>1. tx.phase # "asked"
    BY <1>1, <1>2, WhoWaits DEF Answering
  <2>2. tx.phase # "sending"
    <3>1. SUFFICES ASSUME tx.phase = "sending" PROVE FALSE
      OBVIOUS
    <3>2. Len(up) \in Nat /\ Len(up) # 0 /\ Head(up) = up[1]
      BY <1>1, StreamType, EmptySeq
    <3>3. up[1].kind = "block"
      BY <1>2, <3>1, <3>2, WhoWaits DEF Blocking
    <3>4. QED
      BY <1>1, <3>2, <3>3
  <2>3. QED
    BY <1>2, <2>1, <2>2, WhoWaits
<1>5. up' = <<>> /\ up' \in Seq(Messages) /\ Len(up') = 0
  <2>1. up = <<Message("commit", 0)>>
    BY <1>1, <1>4 DEF Committing
  <2>2. QED
    BY <1>1, <2>1, MessageType, OneMessage
<1>6. ConnectionTypeOK'
  BY <1>1, <1>5, TransferAssumption DEF Inv, ConnectionInv, ConnectionTypeOK
<1>7. Committing'
  <2>1. rx'.phase \in Installing /\ rx'.phase \notin Linked
    BY <1>3 DEF Installing, Linked
  <2>2. QED
    BY <1>1, <1>3, <1>4, <1>5, <2>1 DEF Committing
<1>8. QED
  BY <1>1, <1>3, <1>4, <1>6, <1>7
     DEF Inv, ConnectionInv, IdleInv, AskedInv, SendingInv, CommittedInv, DoneInv

LEMMA SendCompleteKeeps ==
    ASSUME Inv, SendComplete
    PROVE  Inv'
<1>1. /\ rx.phase = "installed" /\ down' = Append(down, Message("complete", 0))
      /\ rx' = Listening
      /\ UNCHANGED <<disk, published, source, tx, up, budget>>
  BY DEF SendComplete, At
<1>2. rx.open /\ rx.phase \in Linked
  BY <1>1 DEF Inv, ReceiverInv, PhaseInv, WaitInv, Waiting, Linked
<1>3. ReceiverInv' /\ rx'.open = FALSE
  BY <1>1, RestingKeeps DEF Inv
<1>4. tx.phase = "committed" /\ Committing
  BY <1>1, <1>2, WhoWaits DEF Answering, Blocking, Asking, Storing, At
<1>5. down' = <<Message("complete", 0)>> /\ down' \in Seq(Messages) /\ Len(down') = 1
  BY <1>1, <1>4, MessageType, OneMessage DEF Committing
<1>6. ConnectionTypeOK'
  BY <1>1, <1>5, TransferAssumption DEF Inv, ConnectionInv, ConnectionTypeOK
<1>7. Answered'
  BY <1>1, <1>2, <1>3, <1>4, <1>5 DEF Committing, Answered, At
<1>8. QED
  BY <1>1, <1>3, <1>4, <1>6, <1>7
     DEF Inv, ConnectionInv, IdleInv, AskedInv, SendingInv, CommittedInv, DoneInv

(* A connection that the receiver does not work for. *)
LEMMA Undisturbed ==
    ASSUME ConnectionInv, ConnectionTypeOK', ~rx.open, ~rx'.open,
           UNCHANGED <<tx, up, down>>, published \subseteq published'
    PROVE  ConnectionInv'
<1>1. tx.phase # "sending"
  BY DEF ConnectionInv, SendingInv, Blocking
<1>2. tx.phase = "asked" => Announced'
  BY DEF ConnectionInv, AskedInv, Announced, Answering
<1>3. tx.phase = "committed" => Answered'
  BY DEF ConnectionInv, CommittedInv, Committing, Answered
<1>4. IdleInv' /\ DoneInv'
  BY DEF ConnectionInv, IdleInv, DoneInv, Quiet
<1>5. AskedInv' /\ SendingInv' /\ CommittedInv'
  BY <1>1, <1>2, <1>3 DEF ConnectionInv, AskedInv, SendingInv, CommittedInv
<1>6. QED
  BY <1>4, <1>5 DEF ConnectionInv

(* A step of the receiver is followed by the connection: it is closed when the
   receiver refuses, and otherwise it stands as it was. *)
LEMMA ReceiverWorkKeeps ==
    ASSUME Inv, ReceiverWork
    PROVE  Inv'
<1>1. ReceiverInv' /\ Progress
  BY WorkKeeps DEF ReceiverWork, Inv
<1>2. UNCHANGED <<source, budget>>
  BY DEF ReceiverWork
<1>3. CASE rx.open /\ rx'.phase = "listening"
  <2>1. Closed
    BY <1>3 DEF ReceiverWork
  <2>2. rx'.open = FALSE
    BY <1>1, <1>3 DEF ReceiverInv, PhaseInv, WaitInv, At, Rx
  <2>3. /\ source' \in File /\ budget' \in [{"edits", "sources", "faults", "damage"} -> Nat]
        /\ budget'["damage"] <= budget["damage"]
    BY <1>2 DEF Inv, ConnectionInv, ConnectionTypeOK
  <2>4. QED
    BY <1>1, <2>1, <2>2, <2>3, ClosedKeeps DEF Inv
<1>4. CASE ~(rx.open /\ rx'.phase = "listening")
  <2>1. UNCHANGED <<tx, up, down>> /\ published \subseteq published'
    BY <1>1, <1>4 DEF ReceiverWork, Open, Progress
  <2>2. ConnectionTypeOK'
    BY <1>2, <2>1 DEF Inv, ConnectionInv, ConnectionTypeOK
  <2>3. CASE ~rx.open
    <3>1. ~rx'.open
      BY <1>1, <2>3, ListeningType DEF Progress
    <3>2. QED
      BY <1>1, <2>1, <2>2, <2>3, <3>1, Undisturbed DEF Inv
  <2>4. CASE rx.open
    <3>1. /\ rx'.open = rx.open /\ rx'.manifest = rx.manifest
          /\ \/ rx.phase \in Asking /\ rx'.phase \in Asking
             \/ rx.phase = "put" /\ rx'.phase = "stored" /\ rx'.missing = rx.missing
             \/ rx.phase \in Installing /\ rx'.phase \in Installing
          /\ rx'.phase \in Linked => rx.phase \in Linked \/ rx.manifest \in published'
      BY <1>1, <1>4, <2>4, ListeningType DEF Progress, At
    <3>2. /\ tx.phase \in {"asked", "sending", "committed"}
          /\ tx.phase = "asked" => Answering
          /\ tx.phase = "sending" => Blocking
          /\ tx.phase = "committed" => Committing
      BY <2>4, WhoWaits
    <3>3. ASSUME tx.phase = "asked" PROVE Answering'
      <4>1. rx.phase \in Asking \/ At("blocks")
        BY <3>2, <3>3 DEF Answering
      <4>2. rx.phase \in Asking /\ rx'.phase \in Asking /\ rx.phase # "blocks"
        BY <3>1, <4>1 DEF Asking, Installing, Checked, Linked, At
      <4>3. QED
        BY <2>1, <3>1, <3>2, <3>3, <4>2 DEF Answering, At
    <3>4. ASSUME tx.phase = "sending" PROVE Blocking'
      <4>1. /\ rx.phase = "put" /\ rx'.phase = "stored" /\ rx'.missing = rx.missing
        BY <3>1, <3>2, <3>4 DEF Blocking, Storing, Asking, Installing, Checked, Linked
      <4>2. Through' = Through /\ ~At("blocks") /\ ~At("blocks")' /\ rx'.phase \in Storing
        BY <2>1, <4>1 DEF Through, At, Storing
      <4>3. Len(up') + (IF At("blocks")' THEN 0 ELSE 1) = tx'.sent - Through'
        <5>1. Len(up) + (IF At("blocks") THEN 0 ELSE 1) = tx.sent - Through
          BY <3>2, <3>4 DEF Blocking
        <5>2. QED
          BY <2>1, <4>2, <5>1
      <4>4. QED
        BY <2>1, <3>1, <3>2, <3>4, <4>1, <4>2, <4>3 DEF Blocking
    <3>5. ASSUME tx.phase = "committed" PROVE Committing'
      <4>1. rx.phase \in Installing /\ rx'.phase \in Installing /\ rx.phase # "blocks"
        BY <3>1, <3>2, <3>5 DEF Committing, Asking, Installing, Checked, Linked, At
      <4>2. QED
        BY <2>1, <3>1, <3>2, <3>5, <4>1 DEF Committing, At
    <3>6. AskedInv' /\ SendingInv' /\ CommittedInv'
      BY <2>1, <3>3, <3>4, <3>5 DEF Inv, ConnectionInv, AskedInv, SendingInv, CommittedInv
    <3>7. IdleInv' /\ DoneInv'
      BY <2>1, <3>2 DEF IdleInv, DoneInv
    <3>8. QED
      BY <1>1, <2>2, <3>6, <3>7 DEF Inv, ConnectionInv
  <2>5. QED
    BY <2>3, <2>4
<1>5. QED
  BY <1>3, <1>4

LEMMA SpendType ==
    ASSUME ConnectionTypeOK, NEW what \in {"edits", "sources", "faults", "damage"}, Spend(what)
    PROVE  /\ budget' \in [{"edits", "sources", "faults", "damage"} -> Nat]
           /\ budget'["damage"] <= budget["damage"] /\ budget'["damage"] <= MaxDamage
           /\ what = "damage" => budget'["damage"] # MaxDamage
           /\ what # "edits" => budget'["edits"] = budget["edits"]
           /\ what = "edits" => budget'["edits"] # budget["edits"]
<1>1. /\ budget \in [{"edits", "sources", "faults", "damage"} -> Nat] /\ budget["damage"] <= MaxDamage
      /\ budget[what] > 0 /\ budget' = [budget EXCEPT ![what] = budget[what] - 1]
      /\ MaxDamage \in Nat
  BY TransferAssumption DEF ConnectionTypeOK, Spend
<1>2. budget[what] - 1 \in Nat
  BY <1>1
<1>3. /\ budget' \in [{"edits", "sources", "faults", "damage"} -> Nat]
      /\ budget'["damage"] = IF what = "damage" THEN budget[what] - 1 ELSE budget["damage"]
      /\ budget'["edits"] = IF what = "edits" THEN budget[what] - 1 ELSE budget["edits"]
  BY <1>1, <1>2
<1>4. CASE what = "damage"
  BY <1>1, <1>3, <1>4
<1>5. CASE what # "damage"
  <2>1. budget'["damage"] = budget["damage"] /\ budget["damage"] \in Nat
    BY <1>1, <1>3, <1>5
  <2>2. what = "edits" => budget'["edits"] # budget["edits"]
    BY <1>1, <1>3
  <2>3. QED
    BY <1>1, <1>3, <1>5, <2>1, <2>2
<1>6. QED
  BY <1>4, <1>5

(* The world changes the disk, the source or what is left to it. *)
LEMMA ConnectionSame ==
    ASSUME ConnectionInv, UNCHANGED <<rx, tx, up, down, published>>, source' \in File,
           budget' \in [{"edits", "sources", "faults", "damage"} -> Nat], budget'["damage"] <= MaxDamage
    PROVE  ConnectionInv'
<1>1. ConnectionTypeOK'
  BY DEF ConnectionInv, ConnectionTypeOK
<1>2. IdleInv' /\ AskedInv' /\ DoneInv'
  BY DEF ConnectionInv, IdleInv, AskedInv, DoneInv, Quiet, Announced, Answering, At
<1>3. SendingInv'
  BY DEF ConnectionInv, SendingInv, Blocking, Through, At
<1>4. CommittedInv'
  BY DEF ConnectionInv, CommittedInv, Committing, Answered, At
<1>5. QED
  BY <1>1, <1>2, <1>3, <1>4 DEF ConnectionInv

LEMMA EnvironmentKeeps ==
    ASSUME Inv, Environment
    PROVE  Inv'
<1>1. source \in File /\ ConnectionTypeOK /\ ConnectionInv /\ ReceiverInv
  BY DEF Inv, ConnectionInv, ConnectionTypeOK
<1>2. ASSUME NEW f \in File, Replace(f) PROVE Inv'
  <2>1. Spend("edits") /\ UNCHANGED <<rx, tx, up, down, published, source>>
    BY <1>2 DEF Replace, Open
  <2>2. ConnectionInv'
    BY <1>1, <2>1, SpendType, ConnectionSame
  <2>3. QED
    BY <1>1, <1>2, <2>2, ReplaceKeeps DEF Inv
<1>3. ASSUME NEW f \in File, EditSource(f) PROVE Inv'
  <2>1. Spend("sources") /\ UNCHANGED <<disk, rx, tx, up, down, published>> /\ source' = f
    BY <1>3 DEF EditSource, receiverVars
  <2>2. ConnectionInv'
    BY <1>1, <2>1, SpendType, ConnectionSame
  <2>3. ReceiverInv'
    BY <1>1, <2>1, ReceiverSame DEF ReceiverInv
  <2>4. QED
    BY <2>2, <2>3 DEF Inv
<1>4. CASE RemoveTarget
  <2>1. Spend("edits") /\ UNCHANGED <<rx, tx, up, down, published, source>>
    BY <1>4 DEF RemoveTarget, Open
  <2>2. ConnectionInv'
    BY <1>1, <2>1, SpendType, ConnectionSame
  <2>3. QED
    BY <1>1, <1>4, <2>2, RemoveTargetKeeps DEF Inv
<1>5. CASE HangUp
  <2>1. Spend("faults") /\ Closed /\ Dropped /\ UNCHANGED <<disk, published, source>>
    BY <1>5 DEF HangUp
  <2>2. ReceiverInv' /\ rx'.open = FALSE
    BY <1>1, <2>1, DroppedKeeps
  <2>3. ConnectionInv'
    BY <1>1, <2>1, <2>2, SpendType, ClosedKeeps
  <2>4. QED
    BY <2>2, <2>3 DEF Inv
<1>6. CASE Crash
  <2>1. /\ Spend("faults") /\ rx' = Listening /\ UNCHANGED <<disk, published, source>>
        /\ IF rx.open THEN Closed ELSE Open
    BY <1>6 DEF Crash
  <2>2. ReceiverInv' /\ rx'.open = FALSE
    BY <1>1, <2>1, RestingKeeps
  <2>3. CASE rx.open
    BY <1>1, <2>1, <2>2, <2>3, SpendType, ClosedKeeps DEF Inv
  <2>4. CASE ~rx.open
    <3>1. UNCHANGED <<tx, up, down>>
      BY <2>1, <2>4 DEF Open
    <3>2. ConnectionTypeOK'
      BY <1>1, <2>1, <3>1, SpendType DEF ConnectionTypeOK
    <3>3. QED
      BY <1>1, <2>1, <2>2, <2>4, <3>1, <3>2, Undisturbed DEF Inv
  <2>5. QED
    BY <2>3, <2>4
<1>7. ASSUME NEW f \in File, NEW i \in Index, Damage(f, i) PROVE Inv'
  <2>1. Spend("damage") /\ UNCHANGED <<rx, tx, up, down, published, source>>
    BY <1>7 DEF Damage, Open
  <2>2. ConnectionInv'
    BY <1>1, <2>1, SpendType, ConnectionSame
  <2>3. QED
    BY <1>1, <1>7, <2>2, DamageKeeps DEF Inv
<1>8. QED
  BY <1>2, <1>3, <1>4, <1>5, <1>6, <1>7 DEF Environment

LEMMA InitInv ==
    ASSUME Init
    PROVE  Inv
<1>1. PICK f \in File \cup {Absent} :
          /\ bytes = IF f = Absent THEN <<>> ELSE <<f>>
          /\ target = IF f = Absent THEN 0 ELSE 1
  BY DEF Init, ReceiverInit
<1>2. /\ part = [g \in File |-> 0] /\ journal = [g \in File |-> NoJournal]
      /\ intent = [g \in File |-> NoIntent]
      /\ kept = {} /\ archive = {} /\ published = {} /\ rx = Listening
      /\ source \in File /\ tx = Idle /\ up = <<>> /\ down = <<>>
      /\ budget = [edits |-> MaxEdits, sources |-> MaxSources, faults |-> MaxFaults,
                 damage |-> MaxDamage]
  BY DEF Init, ReceiverInit
<1>3. /\ bytes \in Seq(Bytes) /\ Len(bytes) <= 1 + MaxEdits + MaxParts
      /\ target \in 0 .. Len(bytes) /\ Len(bytes) \in Nat
      /\ target # 0 => target \in 1 .. Len(bytes) /\ bytes[target] \in File
  <2>1. CASE f = Absent
    BY <1>1, <2>1, ReceiverAssumption
  <2>2. CASE f # Absent
    <3>1. bytes = <<f>> /\ target = 1 /\ f \in File /\ f \in Bytes
      BY <1>1, <2>2, FileType
    <3>2. QED
      BY <3>1, ReceiverAssumption
  <2>3. QED
    BY <2>1, <2>2
<1>4. NoJournal \in Journal /\ NoIntent \in Intent /\ NoIntent.previous = 0
  BY DEF NoJournal, NoIntent, Journal, Intent, Image
<1>5. DiskTypeOK /\ PartsDistinct
  BY <1>2, <1>3, <1>4 DEF DiskTypeOK, PartsDistinct
<1>6. FilesInv
  <2>1. \A k \in PublicFiles : k \in {target, 0}
    BY <1>2, <1>4 DEF PublicFiles
  <2>2. QED
    BY <1>2, <1>3, <2>1 DEF FilesInv
<1>7. PhaseInv
  <2>1. rx.phase = "listening" /\ rx.open = FALSE /\ rx \in Rx
    BY <1>2, ListeningType
  <2>2. "listening" \notin Holding /\ "listening" \notin Checked
    BY DEF Holding, Storing, Checked
  <2>3. QED
    BY <2>1, <2>2 DEF PhaseInv, PartPresent, CheckedInv, WaitInv, At
<1>8. ReceiverInv
  BY <1>2, <1>5, <1>6, <1>7 DEF ReceiverInv, DiskInv
<1>9. ConnectionTypeOK
  <2>1. <<>> \in Seq(Messages) /\ Len(<<>>) = 0 /\ Window \in Nat /\ Capacity \in Nat
    BY TransferAssumption
  <2>2. budget \in [{"edits", "sources", "faults", "damage"} -> Nat] /\ budget["damage"] = MaxDamage
    BY <1>2, ReceiverAssumption, TransferAssumption
  <2>3. budget["damage"] <= MaxDamage
    BY <2>2, TransferAssumption
  <2>4. QED
    BY <1>2, <2>1, <2>2, <2>3, IdleType DEF ConnectionTypeOK
<1>10. tx.phase = "idle" /\ Quiet
  BY <1>2, IdleType, ListeningType DEF Quiet
<1>11. QED
  BY <1>8, <1>9, <1>10
     DEF Inv, ConnectionInv, IdleInv, AskedInv, SendingInv, CommittedInv, DoneInv

LEMMA NextKeeps ==
    ASSUME Inv, [Next]_vars
    PROVE  Inv'
<1>1. CASE Sender
  BY <1>1, StartKeeps, RequestedKeeps, SendBlockKeeps, AcknowledgedKeeps, SendCommitKeeps,
     SourceChangedKeeps, CompletedKeeps DEF Sender
<1>2. CASE ReceiverStep
  BY <1>2, AcceptKeeps, SendMissingKeeps, ReceiveBlockKeeps, SendAckKeeps, ReceiveCommitKeeps,
     SendCompleteKeeps, ReceiverWorkKeeps DEF ReceiverStep
<1>3. CASE Environment
  BY <1>3, EnvironmentKeeps
<1>4. CASE UNCHANGED vars
  <2>1. UNCHANGED <<disk, rx, published, source, tx, up, down, budget>>
    BY <1>4 DEF vars, receiverVars
  <2>2. ReceiverInv'
    BY <2>1, ReceiverSame DEF Inv, ReceiverInv
  <2>3. ConnectionInv'
    BY <2>1, ConnectionSame DEF Inv, ConnectionInv, ConnectionTypeOK
  <2>4. QED
    BY <2>2, <2>3 DEF Inv
<1>5. QED
  BY <1>1, <1>2, <1>3, <1>4 DEF Next

-----------------------------------------------------------------------------
(* Blocks that are acknowledged *)

LEMMA StoredSame ==
    ASSUME StoredInv, budget'["damage"] = MaxDamage => budget["damage"] = MaxDamage,
           tx'.phase = "sending" =>
              /\ tx.phase = "sending" /\ tx'.missing = tx.missing /\ tx'.manifest = tx.manifest
              /\ Taken' = Taken /\ bytes'[Mine'] = bytes[Mine]
    PROVE  StoredInv'
BY DEF StoredInv

LEMMA StoredGone ==
    ASSUME tx'.phase # "sending"
    PROVE  StoredInv'
BY DEF StoredInv

LEMMA SenderStores ==
    ASSUME Inv, StoredInv, Sender
    PROVE  StoredInv'
<1>1. CASE Start
  <2>1. tx'.phase = "asked"
    BY <1>1, IdleType DEF Start, Tx
  <2>2. QED
    BY <2>1, StoredGone
<1>2. CASE Requested
  <2>1. /\ tx.phase = "asked" /\ down # <<>> /\ UNCHANGED rx
        /\ tx'.missing = Head(down).value
    <3>1. tx \in Tx
      BY StreamType
    <3>2. QED
      BY <1>2, <3>1 DEF Requested, Reads, receiverVars, Tx
  <2>2. At("blocks") /\ down = <<Message("missing", rx.missing)>>
    BY <2>1 DEF Inv, ConnectionInv, AskedInv, Announced, Answering
  <2>3. tx'.missing = rx.missing
    BY <2>1, <2>2, StreamType, MessageType, OneMessage
  <2>4. Taken' = 0
    BY <2>1, <2>2, <2>3, StreamType DEF Taken, Through, At
  <2>5. QED
    BY <2>4 DEF StoredInv
<1>3. CASE SendBlock
  <2>1. /\ tx.phase = "sending" /\ tx'.missing = tx.missing /\ tx'.manifest = tx.manifest
        /\ UNCHANGED <<rx, bytes, part, budget>>
    BY <1>3 DEF SendBlock, receiverVars, disk
  <2>2. Taken' = Taken /\ bytes'[Mine'] = bytes[Mine]
    BY <2>1 DEF Taken, Through, At, Mine
  <2>3. QED
    BY <2>1, <2>2, StoredSame
<1>4. CASE Acknowledged
  <2>1. /\ tx.phase = "sending" /\ tx'.missing = tx.missing /\ tx'.manifest = tx.manifest
        /\ UNCHANGED <<rx, bytes, part, budget>>
    BY <1>4 DEF Acknowledged, receiverVars, disk
  <2>2. Taken' = Taken /\ bytes'[Mine'] = bytes[Mine]
    BY <2>1 DEF Taken, Through, At, Mine
  <2>3. QED
    BY <2>1, <2>2, StoredSame
<1>5. CASE SendCommit \/ SourceChanged \/ Completed
  <2>1. tx \in Tx
    BY StreamType
  <2>2. tx'.phase # "sending"
    BY <1>5, <2>1, IdleType DEF SendCommit, SourceChanged, Completed, Closed, Tx
  <2>3. QED
    BY <2>2, StoredGone
<1>6. QED
  BY <1>1, <1>2, <1>3, <1>4, <1>5 DEF Sender

(* The block that is put is the next that was asked for. *)
LEMMA PutStores ==
    ASSUME Inv, StoredInv, Put, rx.open, rx'.phase = "stored",
           UNCHANGED <<tx, up, down, source, budget>>
    PROVE  StoredInv'
<1> DEFINE m == rx.manifest
           k == part[m]
           i == Head(rx.missing)
<1>1. SUFFICES ASSUME tx.phase = "sending", budget["damage"] = MaxDamage,
                      NEW n \in 1 .. Taken'
               PROVE  bytes'[Mine'][tx.missing[n]] = tx.manifest[tx.missing[n]]
  BY DEF StoredInv
<1>2. Blocking /\ Through \in Nat /\ Len(rx.missing) = Len(tx.missing) - Through
  BY <1>1, SendingStep
<1>3. /\ rx.phase = "put" /\ bytes' = [bytes EXCEPT ![k][i] = m[i]]
      /\ UNCHANGED part
  BY DEF Put, At
<1>4. rx' = [rx EXCEPT !.phase = "stored"] /\ rx \in Rx
  BY DEF Put, Done, Inv, ReceiverInv, PhaseInv
<1>5. rx'.manifest = m /\ rx'.missing = rx.missing /\ m = tx.manifest
  BY <1>2, <1>4 DEF Rx, Blocking
<1>6. rx.missing # <<>> /\ Len(rx.missing) # 0 /\ k \in 1 .. Len(bytes) /\ i = rx.missing[1]
  <2>1. rx.missing # <<>>
    BY <1>3 DEF Inv, ReceiverInv, PhaseInv, WaitInv
  <2>2. Len(rx.missing) # 0 /\ i = rx.missing[1]
    BY <2>1, StreamType, EmptySeq
  <2>3. k # 0
    BY <1>3 DEF Inv, ReceiverInv, PhaseInv, PartPresent, Holding, Storing, Mine
  <2>4. k \in 0 .. Len(bytes) /\ Len(bytes) \in Nat
    BY Manifest DEF Inv
  <2>5. QED
    BY <2>1, <2>2, <2>3, <2>4
<1>7. Taken = Through /\ Taken' = Through + 1
  <2>1. Through' = Through
    BY <1>5 DEF Through
  <2>2. ~At("stored") /\ At("stored")'
    BY <1>3 DEF At
  <2>3. QED
    BY <1>2, <2>1, <2>2 DEF Taken
<1>8. i = tx.missing[Through + 1]
  <2>1. 1 \in 1 .. Len(rx.missing)
    BY <1>6, StreamType
  <2>2. rx.missing[1] = tx.missing[Through + 1]
    BY <1>2, <2>1 DEF Blocking
  <2>3. QED
    BY <1>6, <2>2
<1>9. tx.missing[n] \in Index
  <2>1. n \in 1 .. Len(tx.missing)
    BY <1>1, <1>2, <1>6, <1>7, StreamType
  <2>2. QED
    BY <2>1, StreamType, ElementOfSeq
<1>10. bytes[k] \in Bytes /\ Mine' = k
  <2>1. bytes \in Seq(Bytes)
    BY DEF Inv, ReceiverInv, DiskInv, DiskTypeOK
  <2>2. QED
    BY <1>3, <1>5, <1>6, <2>1, ElementOfSeq DEF Mine
<1>11. bytes'[k] = [bytes[k] EXCEPT ![i] = m[i]]
  <2>1. bytes \in Seq(Bytes) /\ DOMAIN bytes = 1 .. Len(bytes)
    BY LenProperties DEF Inv, ReceiverInv, DiskInv, DiskTypeOK
  <2>2. QED
    BY <1>3, <1>6, <2>1
<1> HIDE DEF k, i, m
<1>12. bytes'[k][tx.missing[n]] = IF tx.missing[n] = i THEN m[i] ELSE bytes[k][tx.missing[n]]
  BY <1>9, <1>10, <1>11 DEF Bytes
<1>13. CASE tx.missing[n] = i
  BY <1>5, <1>10, <1>12, <1>13
<1>14. CASE tx.missing[n] # i
  <2>1. n \in 1 .. Taken
    BY <1>1, <1>2, <1>7, <1>8, <1>14
  <2>2. bytes[Mine][tx.missing[n]] = tx.manifest[tx.missing[n]]
    BY <1>1, <2>1 DEF StoredInv
  <2>3. QED
    BY <1>10, <1>12, <1>14, <2>2 DEF Mine, k, m
<1>15. QED
  BY <1>13, <1>14

LEMMA ReceiverStores ==
    ASSUME Inv, StoredInv, ReceiverStep
    PROVE  StoredInv'
<1>0. tx \in Tx
  BY StreamType
<1>1. SUFFICES ASSUME tx'.phase = "sending" PROVE StoredInv'
  BY StoredGone
<1>2. tx.phase = "sending" /\ UNCHANGED <<tx, source, budget>>
  <2>1. CASE ReceiverWork
    <3>1. ~Closed
      BY <1>1, IdleType DEF Closed
    <3>2. QED
      BY <1>1, <2>1, <3>1 DEF ReceiverWork, Open
  <2>2. CASE ~ReceiverWork
    BY <1>1, <2>2 DEF ReceiverStep, Accept, SendMissing, ReceiveBlock, SendAck, ReceiveCommit, SendComplete
  <2>3. QED
    BY <2>1, <2>2
<1>3. Blocking /\ rx.open /\ rx.phase \in Storing /\ Through \in Nat
  BY <1>2, SendingStep DEF Blocking
<1>4. CASE Accept \/ SendMissing \/ SendComplete
  BY <1>3, <1>4 DEF Accept, SendMissing, SendComplete, At, Storing
<1>5. CASE ReceiveBlock \/ ReceiveCommit
  <2>1. /\ rx.phase = "blocks" /\ UNCHANGED <<bytes, part>> /\ rx \in Rx
        /\ Go("put") \/ Go("verify")
    BY <1>5 DEF ReceiveBlock, ReceiveCommit, At, disk, Inv, ReceiverInv, PhaseInv
  <2>2. /\ rx'.phase \in {"put", "verify"} /\ rx'.missing = rx.missing
        /\ rx'.manifest = rx.manifest
    BY <2>1 DEF Go, Rx
  <2>3. Taken' = Taken /\ bytes'[Mine'] = bytes[Mine]
    BY <1>2, <2>1, <2>2 DEF Taken, Through, At, Mine
  <2>4. QED
    BY <1>2, <2>3, StoredSame
<1>6. CASE SendAck
  <2>1. /\ rx.phase = "stored" /\ UNCHANGED <<bytes, part>> /\ rx \in Rx
        /\ rx' = [rx EXCEPT !.phase = "blocks", !.missing = Tail(@)]
    BY <1>6 DEF SendAck, At, disk, Inv, ReceiverInv, PhaseInv
  <2>2. rx'.phase = "blocks" /\ rx'.missing = Tail(rx.missing) /\ rx'.manifest = rx.manifest
    BY <2>1 DEF Rx
  <2>3. rx.missing # <<>>
    BY <2>1 DEF Inv, ReceiverInv, PhaseInv, WaitInv
  <2>4. Len(rx'.missing) = Len(rx.missing) - 1
    BY <2>2, <2>3, StreamType, HeadTailProperties
  <2>5. Through' = Through + 1
    BY <1>2, <2>4, StreamType DEF Through
  <2>6. At("stored") /\ ~At("stored")'
    BY <2>1, <2>2 DEF At
  <2>7. Taken' = Taken /\ bytes'[Mine'] = bytes[Mine]
    BY <1>3, <2>1, <2>2, <2>5, <2>6 DEF Taken, Mine
  <2>8. QED
    BY <1>2, <2>7, StoredSame
<1>7. CASE ReceiverWork
  <2>1. rx'.phase # "listening" /\ UNCHANGED <<tx, up, down>>
    BY <1>1, <1>3, <1>7, IdleType DEF ReceiverWork, Closed, Open
  <2>2. Put
    BY <1>3, <1>7
       DEF ReceiverWork, Work, At, Storing, Recover, DropIntent, OpenJournal, WriteJournal,
           Survey, Verify, Archive, Recheck, CreateIntent, WriteIntent, Displace, Compare,
           Link, LinkRefused, RemoveIntent, RemovePart, RemoveJournal
  <2>3. rx'.phase = "stored"
    <3>1. rx \in Rx
      BY DEF Inv, ReceiverInv, PhaseInv
    <3>2. QED
      BY <1>3, <2>2, <3>1 DEF Put, Done, Rx
  <2>4. QED
    BY <1>2, <1>3, <2>1, <2>2, <2>3, PutStores
<1>8. QED
  BY <1>4, <1>5, <1>6, <1>7 DEF ReceiverStep

LEMMA EnvironmentStores ==
    ASSUME Inv, StoredInv, Environment
    PROVE  StoredInv'
<1>1. ConnectionTypeOK /\ tx \in Tx
  BY DEF Inv, ConnectionInv, ConnectionTypeOK
<1>2. ASSUME budget'["damage"] # MaxDamage PROVE StoredInv'
  BY <1>2 DEF StoredInv
<1>3. CASE \E f \in File, i \in Index : Damage(f, i)
  <2>1. Spend("damage")
    BY <1>3 DEF Damage
  <2>2. QED
    BY <1>1, <1>2, <2>1, SpendType
<1>4. CASE HangUp \/ Crash
  <2>1. SUFFICES ASSUME tx'.phase = "sending" PROVE FALSE
    BY DEF StoredInv
  <2>2. tx' = Idle \/ (~rx.open /\ tx' = tx)
    BY <1>4 DEF HangUp, Crash, Closed, Open
  <2>3. ~rx.open /\ tx.phase = "sending"
    BY <2>1, <2>2 DEF Idle
  <2>4. QED
    BY <2>3, SendingStep DEF Blocking
<1>5. CASE RemoveTarget \/ \E f \in File : EditSource(f)
  <2>1. (Spend("edits") \/ Spend("sources")) /\ UNCHANGED <<rx, bytes, part, tx>>
    BY <1>5 DEF RemoveTarget, EditSource, Open, receiverVars, disk
  <2>2. budget'["damage"] = MaxDamage => budget["damage"] = MaxDamage
    BY <1>1, <2>1, TransferAssumption DEF Spend, ConnectionTypeOK
  <2>3. Taken' = Taken /\ bytes'[Mine'] = bytes[Mine]
    BY <2>1 DEF Taken, Through, At, Mine
  <2>4. QED
    BY <2>1, <2>2, <2>3, StoredSame
<1>6. ASSUME NEW f \in File, Replace(f) PROVE StoredInv'
  <2>1. Spend("edits") /\ UNCHANGED <<rx, part, tx>> /\ bytes' = Append(bytes, f)
    BY <1>6 DEF Replace, Open
  <2>2. budget'["damage"] = MaxDamage => budget["damage"] = MaxDamage
    BY <1>1, <2>1, TransferAssumption DEF Spend, ConnectionTypeOK
  <2>3. Taken' = Taken /\ Mine' = Mine
    BY <2>1 DEF Taken, Through, At, Mine
  <2>4. ASSUME tx.phase = "sending" PROVE bytes'[Mine] = bytes[Mine]
    <3>1. Mine # 0
      BY <2>4, SendingStep DEF Blocking, Inv, ReceiverInv, PhaseInv, PartPresent, Holding
    <3>2. Mine \in 1 .. Len(bytes)
      BY <3>1, Manifest DEF Inv, Mine
    <3>3. bytes \in Seq(Bytes) /\ f \in Bytes
      BY FileType DEF Inv, ReceiverInv, DiskInv, DiskTypeOK
    <3>4. QED
      BY <2>1, <3>2, <3>3, AppendProperties
  <2>5. QED
    BY <2>1, <2>2, <2>3, <2>4, StoredSame
<1>7. QED
  BY <1>3, <1>4, <1>5, <1>6 DEF Environment

LEMMA NextStores ==
    ASSUME Inv, StoredInv, [Next]_vars
    PROVE  StoredInv'
<1>1. CASE UNCHANGED vars
  <2>1. UNCHANGED <<tx, rx, bytes, part, budget>>
    BY <1>1 DEF vars, receiverVars, disk
  <2>2. Taken' = Taken /\ bytes'[Mine'] = bytes[Mine]
    BY <2>1 DEF Taken, Through, At, Mine
  <2>3. QED
    BY <2>1, <2>2, StoredSame
<1>2. QED
  BY <1>1, SenderStores, ReceiverStores, EnvironmentStores DEF Next

-----------------------------------------------------------------------------
(* What the target's name loses *)

(* The file at the target stays there, or it is in the recovery directory. *)
Spared ==
    \/ target' = target /\ bytes'[target] = bytes[target]
    \/ target \in kept' /\ UNCHANGED bytes

LEMMA WorkSpares ==
    ASSUME ReceiverInv, Work, target # 0
    PROVE  Spared
<1>1. target \in PublicFiles \ {0}
  BY DEF PublicFiles
<1>2. CASE Survey
  <2>1. FilesStay /\ UNCHANGED target
    BY <1>2, SurveyKeeps DEF Survey
  <2>2. QED
    BY <1>1, <2>1 DEF FilesStay, Spared
<1>3. CASE Put
  <2>1. FilesStay /\ UNCHANGED target
    BY <1>3, PutKeeps DEF Put
  <2>2. QED
    BY <1>1, <2>1 DEF FilesStay, Spared
<1>4. CASE Displace
  BY <1>4 DEF Displace, Spared
<1>5. CASE Recover \/ DropIntent \/ OpenJournal \/ WriteJournal
  BY <1>5 DEF Recover, DropIntent, OpenJournal, WriteJournal, Spared
<1>6. CASE Verify \/ Archive \/ Recheck \/ CreateIntent \/ WriteIntent \/ Compare
  BY <1>6 DEF Verify, Archive, Recheck, CreateIntent, WriteIntent, Compare, disk, Spared
<1>7. CASE Link \/ LinkRefused \/ RemoveIntent \/ RemovePart \/ RemoveJournal
  BY <1>7 DEF Link, Free, LinkRefused, RemoveIntent, RemovePart, RemoveJournal, Spared
<1>8. QED
  BY <1>2, <1>3, <1>4, <1>5, <1>6, <1>7 DEF Work

LEMMA NextSpares ==
    ASSUME Inv, [Next]_vars, budget'["edits"] = budget["edits"], target # 0
    PROVE  Spared
<1>1. ASSUME UNCHANGED disk PROVE Spared
  BY <1>1 DEF disk, Spared
<1>2. CASE UNCHANGED vars
  BY <1>1, <1>2 DEF vars, receiverVars
<1>3. CASE Sender
  BY <1>1, <1>3 DEF Sender, Start, Requested, SendBlock, Acknowledged, SendCommit, SourceChanged,
                    Completed, receiverVars
<1>4. CASE Accept \/ SendMissing \/ ReceiveBlock \/ SendAck \/ ReceiveCommit \/ SendComplete
  BY <1>1, <1>4 DEF Accept, SendMissing, ReceiveBlock, SendAck, ReceiveCommit, SendComplete
<1>5. CASE ReceiverWork
  BY <1>5, WorkSpares DEF ReceiverWork, Inv
<1>6. CASE Environment
  <2>1. ConnectionTypeOK
    BY DEF Inv, ConnectionInv
  <2>2. ~Spend("edits")
    BY <2>1, SpendType
  <2>3. ASSUME NEW f \in File, NEW i \in Index, Damage(f, i) PROVE Spared
    <3>1. FilesStay /\ UNCHANGED target
      BY <2>3, DamageKeeps DEF Damage, Inv
    <3>2. target \in PublicFiles \ {0}
      BY DEF PublicFiles
    <3>3. QED
      BY <3>1, <3>2 DEF FilesStay, Spared
  <2>4. CASE HangUp \/ Crash \/ \E f \in File : EditSource(f)
    BY <1>1, <2>4 DEF HangUp, Crash, EditSource, receiverVars
  <2>5. QED
    BY <1>6, <2>2, <2>3, <2>4 DEF Environment, Replace, RemoveTarget
<1>7. QED
  BY <1>2, <1>3, <1>4, <1>5, <1>6 DEF Next, ReceiverStep

-----------------------------------------------------------------------------
(* Theorems *)

(* The invariant of the two ends and of what is between them: where the sender
   waits, the receiver is at the step that it waits for, and the messages
   under way are those that the counters leave (send, receive). *)
THEOREM Agreement == Spec => []Inv
<1>1. Init => Inv
  BY InitInv
<1>2. Inv /\ [Next]_vars => Inv'
  BY NextKeeps
<1>3. QED
  BY <1>1, <1>2, PTL DEF Spec

(* Every variable has its type, at most a window of blocks is in flight and no
   stream holds more than its capacity (send_blocks). *)
THEOREM TypesKept == Spec => []TypeOK
<1>1. Inv => TypeOK
  BY DEF Inv, ReceiverInv, DiskInv, PhaseInv, DiskTypeOK, ConnectionInv, ConnectionTypeOK,
         TypeOK, ReceiverTypeOK
<1>2. QED
  BY <1>1, Agreement, PTL

(* The file at the target is one that an application or a sender wrote, whole
   (finish_checked). *)
THEOREM Wholeness == Spec => []TargetWhole
<1>1. Inv => TargetWhole
  BY DEF Inv, ReceiverInv, DiskInv, FilesInv, PublicFiles, TargetWhole
<1>2. QED
  BY <1>1, Agreement, PTL

(* A file that the receiver takes from the target's name is in the recovery
   directory, and nothing that has appeared at the name is replaced
   (prepare_install, and the hard link at the end of finish_checked). *)
THEOREM Preservation == Spec => NothingLost
<1>1. ASSUME Inv, [Next]_vars, budget'["edits"] = budget["edits"], target # 0
      PROVE  bytes[target] \in archive' \cup {bytes'[i] : i \in kept' \cup ({target'} \ {0})}
  BY <1>1, NextSpares DEF Spared
<1>2. Inv /\ [Next]_vars
      => [(budget'["edits"] = budget["edits"] /\ target # 0) =>
             bytes[target] \in archive' \cup {bytes'[i] : i \in kept' \cup ({target'} \ {0})}]_vars
  BY <1>1
<1>3. QED
  BY <1>2, Agreement, PTL DEF Spec, NothingLost

(* A sender that is told that its file is complete has had it published since
   it announced it (the Complete message of receive). *)
THEOREM Completion == Spec => []CompleteIsInstalled
<1>1. Inv => CompleteIsInstalled
  BY DEF Inv, ConnectionInv, DoneInv, CompleteIsInstalled
<1>2. QED
  BY <1>1, Agreement, PTL

(* A block whose acknowledgement the sender has read is in the partial data, in
   its place, as long as nothing fails (put, then the Ack message). *)
THEOREM Storage == Spec => []AckedIsStored
<1>1. Init => StoredInv
  BY IdleType DEF Init, StoredInv
<1>2. Inv /\ StoredInv /\ [Next]_vars => StoredInv'
  BY NextStores
<1>3. ASSUME Inv, StoredInv PROVE AckedIsStored
  <2>1. SUFFICES ASSUME tx.phase = "sending", budget["damage"] = MaxDamage,
                        NEW k \in 1 .. tx.acked
                 PROVE  /\ part[tx.manifest] # 0
                        /\ bytes[part[tx.manifest]][tx.missing[k]] = tx.manifest[tx.missing[k]]
    BY DEF AckedIsStored
  <2>2. Blocking /\ tx.acked <= Through /\ Through \in Nat
    BY <1>3, <2>1, SendingStep
  <2>3. Mine # 0 /\ Mine = part[tx.manifest]
    BY <1>3, <2>2 DEF Blocking, Inv, ReceiverInv, PhaseInv, PartPresent, Holding, Mine
  <2>4. Through <= Taken /\ Taken \in Nat
    BY <2>2 DEF Taken
  <2>5. k \in 1 .. Taken
    BY <1>3, <2>2, <2>4, StreamType
  <2>6. QED
    BY <1>3, <2>1, <2>3, <2>5 DEF StoredInv
<1>4. QED
  BY <1>1, <1>2, <1>3, Agreement, PTL DEF Spec
=============================================================================
