---------------------------- MODULE DeviceEvents ----------------------------
(***************************************************************************)
(* What an IDeviceChangeListener is promised (AndroidDebugBridge.hpp:      *)
(* 47-77): of each Device object it hears deviceConnected first, then      *)
(* deviceChanged any number of times, then deviceDisconnected at most      *)
(* once, and nothing afterwards.  A device that comes back is a new        *)
(* object.                                                                 *)
(***************************************************************************)
EXTENDS Naturals, Sequences

VARIABLE told   \* device -> [event, state]; an id is an index

EventsInit == told = <<>>

(* Device objects are made, of which the listener has not heard.           *)
Appear ==
  /\ Len(told') > Len(told)
  /\ \A d \in DOMAIN told : told'[d] = told[d]
  /\ \A d \in DOMAIN told' \ DOMAIN told : told'[d].event = "unseen"

(* The listener hears of device d: the event that preceded is pre, the     *)
(* last is now post, and the state it sees is the state of that moment.    *)
Hears(d, pre, post) ==
  /\ told[d].event = pre
  /\ \E state \in {told'[d].state} :
       told' = [told EXCEPT ![d] = [event |-> post, state |-> state]]

DeviceConnected(d) == Hears(d, "unseen", "connected")

DeviceChanged(d) == Hears(d, "connected", "connected")

DeviceDisconnected(d) == Hears(d, "connected", "gone")

EventsNext ==
  \/ Appear
  \/ \E d \in DOMAIN told : DeviceConnected(d) \/ DeviceChanged(d) \/ DeviceDisconnected(d)

EventsSpec == EventsInit /\ [][EventsNext]_told
=============================================================================
