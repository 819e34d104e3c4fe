------------------------------ MODULE MCMonitor -----------------------------
(***************************************************************************)
(* TLC instances of DeviceMonitor: two devices, online or not.             *)
(***************************************************************************)
EXTENDS DeviceMonitor

CONSTANTS s1, s2   \* model values

MCSerials == {s1, s2}
MCStates == {"device", "offline"}

(* The devices are alike.                                                  *)
MCSymmetry == Permutations(MCSerials)

MCEntry == [serial : MCSerials, state : MCStates]

(* What adb may report: at most two devices, each once, the first of two   *)
(* online.                                                                 *)
UniqueLists ==
  {l \in SeqOf(MCEntry, 2) :
     Len(l) = 2 => l[1].serial # l[2].serial /\ l[1].state = "device"}

(* At most one device.                                                     *)
OneByOne == {l \in UniqueLists : Len(l) < 2}

(* Lists in which a serial number occurs twice, as that of devices adb may *)
(* not access does.                                                        *)
Plugged(s) == [serial |-> s, state |-> "offline"]
TwinLists ==
  {<<>>, <<Plugged(s1)>>, <<Plugged(s1), Plugged(s1)>>, <<Plugged(s1), Plugged(s2), Plugged(s1)>>}
=============================================================================
