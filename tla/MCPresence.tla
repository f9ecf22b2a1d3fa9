----------------------------- MODULE MCPresence -----------------------------
(* A desktop (1), a phone (2) and a device that only takes notifications.    *)
EXTENDS Presence

MCCaps == [d \in Devices |-> IF d = 3 THEN {"Notify"} ELSE {"OpenURI", "Notify"}]
=============================================================================
