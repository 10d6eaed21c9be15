------------------------------- MODULE MCNetwork -------------------------------
(***************************************************************************)
(* The camera's link and the UDP transfer, programs that share nothing:    *)
(* each behaviour follows one of the two pairs of client and server.       *)
(***************************************************************************)
EXTENDS CameraLink, UdpTransfer

VARIABLE pair    \* "camera" or "udp", whichever runs

CameraStep(A) == pair = "camera" /\ A /\ UNCHANGED <<pair, udpVars>>
UdpStep(A)    == pair = "udp" /\ A /\ UNCHANGED <<pair, vars>>

PairInit == pair \in {"camera", "udp"} /\ Init /\ UdpInit
PairNext == CameraStep(Next) \/ UdpStep(UdpNext)

\* The fairness of FairSpec and of UdpFairSpec, for the pair that runs.
PairSpec ==
  /\ PairInit /\ [][PairNext]_<<pair, vars, udpVars>>
  /\ WF_<<pair, vars, udpVars>>(CameraStep(Server))
  /\ WF_<<pair, vars, udpVars>>(CameraStep(Client))
  /\ \A p \in Procs :
       /\ WF_<<pair, vars, udpVars>>(UdpStep(Take(p)))
       /\ WF_<<pair, vars, udpVars>>(UdpStep(Fork(p) \/ (pc[p] = "took" /\ Exit(p))))
       /\ WF_<<pair, vars, udpVars>>(UdpStep(Popen(p) \/ PopenFails(p)))
  /\ \A c \in Clients : WF_<<pair, vars, udpVars>>(UdpStep(Alarm(c)))
================================================================================
