----------------------------- MODULE VisibleFile -----------------------------
(***************************************************************************)
(* What Root::apply (src/root.rs) promises about one path of a folder: the *)
(* file users see changes by their own doing, or by one publication that   *)
(* replaces the content the index knows and nothing else.  FileApply       *)
(* implements it by files, links and a journal.                            *)
(***************************************************************************)
EXTENDS Integers

CONSTANTS Bytes, Absent

VARIABLES
    shown,    \* what the path holds
    known,    \* what the index has recorded of it
    goal,     \* what is being published
    shipped,  \* the publication in progress has happened
    edits,    \* the users' edits still to come
    faults    \* the interruptions still to come

vars == <<shown, known, goal, shipped, edits, faults>>

Image == Bytes \cup {Absent}

Init ==
    /\ shown = Absent /\ known = Absent /\ goal = Absent
    /\ shipped = FALSE
    /\ edits \in Nat /\ faults \in Nat

(* A user edits, creates or removes the file. *)
Edit ==
    /\ edits' = edits - 1
    /\ shown' \in Image
    /\ UNCHANGED <<known, goal, shipped, faults>>

Choose ==
    /\ shown = known
    /\ goal' \in Image
    /\ shipped' = FALSE
    /\ UNCHANGED <<shown, known, edits, faults>>

(* Only what the index knows is replaced. *)
Publish ==
    /\ shown = known
    /\ shown' = goal
    /\ shipped' \in {shipped, TRUE}
    /\ UNCHANGED <<known, goal, edits, faults>>

(* The index records what is there, or what was published. *)
Learn ==
    /\ known' \in {shown} \cup {g \in {goal} : shipped}
    /\ shipped' = FALSE
    /\ UNCHANGED <<shown, goal, edits, faults>>

(* An interruption keeps what there is, except that a file removed while it
   was being published or put back may come back, as users last left it. *)
Interrupt ==
    /\ faults' = faults - 1
    /\ shipped' = FALSE
    /\ \/ shown' = shown
       \/ shown = Absent /\ shown' \in Bytes
    /\ UNCHANGED <<known, goal, edits>>

(* A deletion that was interrupted after the file had been moved aside is
   completed without comparing the file with what was expected. *)
LateDeletion ==
    /\ goal = Absent /\ shown' = Absent
    /\ UNCHANGED <<known, goal, shipped, edits, faults>>

Next == Edit \/ Choose \/ Publish \/ Learn \/ Interrupt \/ LateDeletion

Spec == Init /\ [][Next]_vars
=============================================================================
