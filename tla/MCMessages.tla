------------------------------- MODULE MCMessages -------------------------------
(***************************************************************************)
(* A message and a stamper, objects of two classes that share nothing and  *)
(* have no thread of their own: each behaviour follows one of them.        *)
(* Messages have sizes around the change from the short to the extended    *)
(* header, and bytes that carry into the checksum.                         *)
(***************************************************************************)
EXTENDS XbusMessage, PacketStamper

\* Few enough for insertData and deleteData to move the bytes only about in the
\* last ones, and ids whose omission from a checksum shows at every other change.
FewBusIds     == {0, 127, 255}
FewMessageIds == {0, 128}
FewSizes      == {1, 255}
FewOffsets    == {253, 254}
FewValues     == {<<255, 1>>}
FewCounts     == {0, 1}
--------------------------------------------------------------------------------
VARIABLE class    \* "XsMessage" or "PacketStamper", whichever moves

\* The object that stands still has one of its initial states.
ClassInit ==
  /\ class \in {"XsMessage", "PacketStamper"}
  /\ MessageInit /\ (class = "PacketStamper" => DataSize(msg) = 1)
  /\ StamperInit /\ (class = "XsMessage" => ~counted /\ next = 0)

ClassNext ==
  \/ class = "XsMessage" /\ MessageNext /\ UNCHANGED <<class, stamperVars>>
  \/ class = "PacketStamper" /\ StamperNext /\ UNCHANGED <<class, msg>>

ClassSpec == ClassInit /\ [][ClassNext]_<<class, msg, stamperVars>>
================================================================================
