----------------------------- MODULE MCFolderSync -----------------------------
(***************************************************************************)
(* Instances of FolderSync for TLC.                                        *)
(***************************************************************************)
EXTENDS FolderSync

CONSTANTS laptop, server, phone

MCReplica == Device \X Epoch

(* Both devices edit and apply. *)
BothWays == [d \in Device |-> "Bidirectional"]

(* A source that only sends, a relay, and a copy that only receives. *)
OneWay ==
    [d \in Device |->
        CASE d = laptop -> "SendOnly"
          [] d = server -> "Bidirectional"
          [] d = phone  -> "ReceiveOnly"]

(* Which device may lose its index or its disk. *)
NoRestores == [d \in Device |-> {}]
LaptopIndex == [d \in Device |-> IF d = laptop THEN {"index"} ELSE {}]
LaptopDevice == [d \in Device |-> IF d = laptop THEN {"device"} ELSE {}]
=============================================================================
